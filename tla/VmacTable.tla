----------------------------- MODULE VmacTable -----------------------------
(***************************************************************************)
(* The receive entries: how an interest creates one in the hash table, how *)
(* data frames, requested DACKs and the DACK timer find and use it, and    *)
(* how its timeout removes and frees it. No lock guards the table, and an  *)
(* entry has no count of its users.                                        *)
(*                                                                         *)
(* What an access to freed or unset memory does is undefined: such a step  *)
(* sets fault, and the behaviour ends there.                               *)
(***************************************************************************)
EXTENDS Naturals, SequencesExt

CONSTANTS
  Enc,          \* encodings: u64, whose bucket is hash_min of the number
  NBuckets,     \* buckets of rx_enc: 2^5
  Callers,      \* threads of the user process inside nl_recv
  MaxEntry,     \* bound: blocks that vmalloc hands out
  MaxTraffic    \* bound: interests and data frames that come
CONSTANT None

ASSUME TableAssumption ==
  /\ Enc \subseteq Nat
  /\ NBuckets \in Nat \ {0}
  /\ MaxEntry \in Nat
  /\ None \notin 1..MaxEntry
  /\ {"rx", "gen"} \cap Callers = {}

Entry   == 1..MaxEntry
Context == Callers \cup {"rx", "gen"}
Hash(n) == n % NBuckets
NoFault == [kind |-> "none", entry |-> None]

VARIABLES
  bucket,       \* rx_enc: the entries of each bucket, newest first
  life,         \* of a block: "unused", "bare" (no timers yet), "ready", "freed"
  key,          \* vmacr->key, clean.enc
  dack,         \* dac_info.dack: "null", "junk" or "frame"
  encArmed,     \* enc_timeout is pending
  dackArmed,    \* dack_timer is pending
  pc,           \* where each context is in vmac_tx, vmac_rx, prepDACK
  ent,          \* its local vmacr
  enc,          \* its argument enc
  cleanpc,      \* of an entry's handler: "idle", "find", "unlink" or "free"
  victim,       \* the entry that the handler found
  dqueue,       \* encodings a DACK is requested for
  traffic,      \* interests and data frames so far
  fault,        \* the undefined step that ended the behaviour
  \* history
  raced,        \* entries whose clean-up met a context that had found them
  reported      \* entries that had a report

table   == <<bucket, life, key>>
timers  == <<encArmed, dackArmed>>
context == <<pc, ent, enc>>
cleanup == <<cleanpc, victim>>
vars    == <<table, dack, timers, context, cleanup, dqueue, traffic, fault,
             raced, reported>>

Init ==
  /\ bucket = [b \in 0..NBuckets - 1 |-> <<>>]
  /\ life = [e \in Entry |-> "unused"]
  /\ key = [e \in Entry |-> None]
  /\ dack = [e \in Entry |-> "null"]
  /\ encArmed = [e \in Entry |-> FALSE]
  /\ dackArmed = [e \in Entry |-> FALSE]
  /\ pc = [x \in Context |-> "idle"]
  /\ ent = [x \in Context |-> None]
  /\ enc = [x \in Context |-> None]
  /\ cleanpc = [e \in Entry |-> "idle"]
  /\ victim = [e \in Entry |-> None]
  /\ dqueue = <<>> /\ traffic = 0 /\ fault = NoFault
  /\ raced = {} /\ reported = {}

(* main.c:120-128: the last of the bucket, its oldest, whatever its key.   *)
Find(n) == LET s == bucket[Hash(n)] IN IF s = <<>> THEN None ELSE Last(s)

Fault(kind, e) ==
  /\ fault' = [kind |-> kind, entry |-> e]
  /\ UNCHANGED <<table, dack, timers, context, cleanup, dqueue, traffic, raced, reported>>

(* hash_del: an entry is unlinked if it is in the list.                    *)
Unlink(s, d) ==
  IF Contains(s, d) THEN RemoveAt(s, CHOOSE k \in DOMAIN s : s[k] = d) ELSE s

(* Context x calls find_rx for n and goes on to step p.                    *)
FindFor(x, n, p) ==
  /\ pc' = [pc EXCEPT ![x] = p]
  /\ ent' = [ent EXCEPT ![x] = Find(n)]
  /\ enc' = [enc EXCEPT ![x] = n]
  /\ raced' = raced \cup {e \in {Find(n)} \ {None} : cleanpc[e] # "idle"}

(* Context x leaves its function.                                          *)
Leave(x) ==
  /\ pc' = [pc EXCEPT ![x] = "idle"]
  /\ ent' = [ent EXCEPT ![x] = None]
  /\ enc' = [enc EXCEPT ![x] = None]

Unusable(e) == life[e] # "ready"
Misuse(e)   == Fault(IF life[e] = "freed" THEN "freed" ELSE "unset", e)

----------------------------------------------------------------------------
(* vmac_tx, interest (tx.c:107-157).                                       *)

(* Mistake: an entry is created for each interest.                         *)
TxFindAlways(c, n) ==
  /\ pc[c] = "idle" /\ traffic < MaxTraffic
  /\ \E e \in Entry : life[e] = "unused"
  /\ FindFor(c, n, "add")
  /\ traffic' = traffic + 1
  /\ UNCHANGED <<table, dack, timers, cleanup, dqueue, fault, reported>>

TxFind(c, n) ==
  /\ pc[c] = "idle" /\ traffic < MaxTraffic
  /\ \E e \in Entry : life[e] = "unused"
  /\ FindFor(c, n, IF Find(n) = None THEN "add" ELSE "touch")
  /\ traffic' = traffic + 1
  /\ UNCHANGED <<table, dack, timers, cleanup, dqueue, fault, reported>>

(* Mistake: the key is not set.                                            *)
TxAddNoKey(c) ==
  /\ pc[c] = "add"
  /\ \E e \in Entry :
       /\ life[e] = "unused" /\ \A d \in 1..e - 1 : life[d] # "unused"
       /\ life' = [life EXCEPT ![e] = "bare"]
       /\ bucket' = [bucket EXCEPT ![Hash(enc[c])] = <<e>> \o @]
       /\ ent' = [ent EXCEPT ![c] = e]
  /\ pc' = [pc EXCEPT ![c] = "setup"]
  /\ UNCHANGED <<key, dack, timers, enc, cleanup, dqueue, traffic, fault, raced, reported>>

(* tx.c:118-140: vmalloc, whose result is used even if it is NULL, the     *)
(* fields, add_rx. dac_info.dack is not among the fields set. Blocks are   *)
(* told apart by the order they are handed out.                            *)
TxAdd(c) ==
  /\ pc[c] = "add"
  /\ \/ Fault("null", None)
     \/ /\ \E e \in Entry, d0 \in {"null", "junk"} :
             /\ life[e] = "unused" /\ \A d \in 1..e - 1 : life[d] # "unused"
             /\ life' = [life EXCEPT ![e] = "bare"]
             /\ key' = [key EXCEPT ![e] = enc[c]]
             /\ dack' = [dack EXCEPT ![e] = d0]
             /\ bucket' = [bucket EXCEPT ![Hash(enc[c])] = <<e>> \o @]
             /\ ent' = [ent EXCEPT ![c] = e]
        /\ pc' = [pc EXCEPT ![c] = "setup"]
        /\ UNCHANGED <<timers, enc, cleanup, dqueue, traffic, fault, raced, reported>>

(* tx.c:142-152: both timers are set up, and dack_timer is started.        *)
TxSetup(c) ==
  /\ pc[c] = "setup"
  /\ life' = [life EXCEPT ![ent[c]] = "ready"]
  /\ dackArmed' = [dackArmed EXCEPT ![ent[c]] = TRUE]
  /\ pc' = [pc EXCEPT ![c] = "touch"]
  /\ UNCHANGED <<bucket, key, dack, encArmed, ent, enc, cleanup, dqueue, traffic, fault,
                 raced, reported>>

(* tx.c:155: the timeout starts again, whether it was pending or not.      *)
TxTouch(c) ==
  /\ pc[c] = "touch"
  /\ IF Unusable(ent[c]) THEN Misuse(ent[c])
     ELSE /\ encArmed' = [encArmed EXCEPT ![ent[c]] = TRUE]
          /\ Leave(c)
          /\ UNCHANGED <<table, dack, dackArmed, cleanup, dqueue, traffic, fault,
                         raced, reported>>

Tx(c) == fault = NoFault /\ (TxAdd(c) \/ TxSetup(c) \/ TxTouch(c))

----------------------------------------------------------------------------
(* vmac_rx, data frame (rx.c:259-312).                                     *)

(* rx.c:263-271: a frame nobody asked for is discarded.                    *)
RxFind(n) ==
  /\ pc["rx"] = "idle" /\ traffic < MaxTraffic
  /\ IF Find(n) = None THEN UNCHANGED <<context, raced>>
     ELSE FindFor("rx", n, "touch")
  /\ traffic' = traffic + 1
  /\ UNCHANGED <<table, dack, timers, cleanup, dqueue, fault, reported>>

(* rx.c:274.                                                               *)
RxTouch ==
  /\ pc["rx"] = "touch"
  /\ IF Unusable(ent["rx"]) THEN Misuse(ent["rx"])
     ELSE /\ encArmed' = [encArmed EXCEPT ![ent["rx"]] = TRUE]
          /\ pc' = [pc EXCEPT !["rx"] = "update"]
          /\ UNCHANGED <<table, dack, dackArmed, ent, enc, cleanup, dqueue, traffic, fault,
                         raced, reported>>

(* rx.c:277-312: the window is updated; a DACK is requested or not.        *)
RxUpdate ==
  /\ pc["rx"] = "update"
  /\ IF Unusable(ent["rx"]) THEN Misuse(ent["rx"])
     ELSE /\ dqueue' \in {dqueue, Append(dqueue, enc["rx"])}
          /\ Leave("rx")
          /\ UNCHANGED <<table, dack, timers, cleanup, traffic, fault, raced, reported>>

Rx == fault = NoFault /\ (RxTouch \/ RxUpdate)

----------------------------------------------------------------------------
(* dackgen with prepDACK, and __sendDACK. send = 1 is dack = "frame": see  *)
(* VmacDack, SendMeansDack.                                                *)

(* dack.c:250: the entry is used whether it was found or not.              *)
GenFind ==
  /\ pc["gen"] = "idle" /\ dqueue # <<>>
  /\ IF Find(Head(dqueue)) = None THEN Fault("missing", None)
     ELSE /\ FindFor("gen", Head(dqueue), "install")
          /\ UNCHANGED <<table, dack, timers, cleanup, dqueue, traffic, fault, reported>>

(* dack.c:261-359 and dackgen's list_del: the report is dropped (no memory,*)
(* no lock), replaces one that waits, or is installed and timed.           *)
GenInstall ==
  LET e == ent["gen"] IN
  /\ pc["gen"] = "install"
  /\ IF Unusable(e) THEN Misuse(e)
     ELSE /\ \/ UNCHANGED <<dack, dackArmed, reported>>
             \/ /\ dack' = [dack EXCEPT ![e] = "frame"]
                /\ dackArmed' = [dackArmed EXCEPT ![e] = @ \/ dack[e] # "frame"]
                /\ reported' = reported \cup {e}
          /\ dqueue' = Tail(dqueue)
          /\ Leave("gen")
          /\ UNCHANGED <<table, encArmed, cleanup, traffic, fault, raced>>

Gen == fault = NoFault /\ (GenFind \/ GenInstall)

(* dack.c:102-133: a report that waits is queued. Finding the lock taken   *)
(* starts the timer again and changes nothing here.                        *)
DackFire(e) ==
  /\ fault = NoFault /\ dackArmed[e]
  /\ IF life[e] = "freed" THEN Fault("freed", e)
     ELSE /\ dack' = [dack EXCEPT ![e] = IF @ = "frame" THEN "null" ELSE @]
          /\ dackArmed' = [dackArmed EXCEPT ![e] = FALSE]
          /\ UNCHANGED <<table, encArmed, context, cleanup, dqueue, traffic, fault,
                         raced, reported>>

----------------------------------------------------------------------------
(* __cleanup_rx and process (clean.c).                                     *)

(* The contexts that hold an entry and have not restarted its timeout yet: *)
(* vmac_tx up to tx.c:155, vmac_rx up to rx.c:274.                         *)
NotRestarted(x) == pc[x] = "touch"

(* The timeout counts 30 s from the last mod_timer. What that interest or  *)
(* frame led to is over by then: the rest of vmac_rx, the request that it  *)
(* queued with prepDACK, the DACK. A context that has found the entry and  *)
(* has not reached its own mod_timer holds nothing back.                   *)
Elapsed(e) ==
  /\ \A x \in Context : ent[x] = e => NotRestarted(x)
  /\ \A k \in 1..Len(dqueue) : Hash(dqueue[k]) # Hash(key[e])
  /\ ~dackArmed[e]

(* clean.c:96-102.                                                         *)
CleanFire(e) ==
  /\ encArmed[e] /\ cleanpc[e] = "idle"
  /\ IF life[e] = "freed" THEN Fault("freed", e)
     ELSE /\ Elapsed(e)
          /\ encArmed' = [encArmed EXCEPT ![e] = FALSE]
          /\ cleanpc' = [cleanpc EXCEPT ![e] = "find"]
          /\ raced' = raced \cup {d \in {e} : \E x \in Context : ent[x] = d}
          /\ UNCHANGED <<table, dack, dackArmed, context, victim, dqueue, traffic, fault,
                         reported>>

(* Mistake: the test of the entry found is the wrong way round.            *)
CleanFindNot(e) ==
  LET v == Find(key[e]) IN
  /\ cleanpc[e] = "find"
  /\ victim' = [victim EXCEPT ![e] = None]
  /\ cleanpc' = [cleanpc EXCEPT ![e] = IF v # None THEN "idle" ELSE "unlink"]
  /\ UNCHANGED <<table, dack, timers, context, dqueue, traffic, fault, raced, reported>>

(* clean.c:66-73: the entry is looked up by its encoding.                  *)
CleanFind(e) ==
  LET v == Find(key[e]) IN
  /\ cleanpc[e] = "find"
  /\ victim' = [victim EXCEPT ![e] = v]
  /\ cleanpc' = [cleanpc EXCEPT ![e] = IF v = None THEN "idle" ELSE "unlink"]
  /\ UNCHANGED <<table, dack, timers, context, dqueue, traffic, fault, raced, reported>>

(* Mistake: hash_del is forgotten.                                         *)
CleanUnlinkNot(e) ==
  /\ cleanpc[e] = "unlink"
  /\ cleanpc' = [cleanpc EXCEPT ![e] = "free"]
  /\ UNCHANGED <<table, dack, timers, context, victim, dqueue, traffic, fault,
                 raced, reported>>

(* clean.c:77.                                                             *)
CleanUnlink(e) ==
  LET b == Hash(key[victim[e]]) IN
  /\ cleanpc[e] = "unlink"
  /\ bucket' = [bucket EXCEPT ![b] = Unlink(@, victim[e])]
  /\ cleanpc' = [cleanpc EXCEPT ![e] = "free"]
  /\ UNCHANGED <<life, key, dack, timers, context, victim, dqueue, traffic, fault,
                 raced, reported>>

(* clean.c:79-81: the waiting report is freed, then the entry, of which    *)
(* no timer is stopped.                                                    *)
CleanFree(e) ==
  /\ cleanpc[e] = "free"
  /\ IF dack[victim[e]] = "junk" THEN Fault("junk", victim[e])
     ELSE /\ life' = [life EXCEPT ![victim[e]] = "freed"]
          /\ cleanpc' = [cleanpc EXCEPT ![e] = "idle"]
          /\ victim' = [victim EXCEPT ![e] = None]
          /\ UNCHANGED <<bucket, key, dack, timers, context, dqueue, traffic, fault,
                         raced, reported>>

Clean(e) ==
  /\ fault = NoFault
  /\ CleanFire(e) \/ CleanFind(e) \/ CleanUnlink(e) \/ CleanFree(e)

----------------------------------------------------------------------------
Arrival ==
  /\ fault = NoFault
  /\ \E n \in Enc : RxFind(n) \/ \E c \in Callers : TxFind(c, n)

Next ==
  \/ Arrival
  \/ \E c \in Callers : Tx(c)
  \/ Rx \/ Gen
  \/ \E e \in Entry : DackFire(e) \/ Clean(e)

Spec == Init /\ [][Next]_vars

(* The kernel runs its threads and tasklets and fires the timers that are  *)
(* pending. Nothing is assumed of arrivals.                                *)
Fairness ==
  /\ \A c \in Callers : WF_vars(Tx(c))
  /\ WF_vars(Rx) /\ WF_vars(Gen)
  /\ \A e \in Entry : WF_vars(DackFire(e)) /\ WF_vars(Clean(e))

FairSpec == Spec /\ Fairness

----------------------------------------------------------------------------
InTable(e) == \E b \in DOMAIN bucket : \E k \in DOMAIN bucket[b] : bucket[b][k] = e

(* An entry in use has an encoding, and each pointer is one the code sets. *)
TypeOK ==
  /\ key \in [Entry -> Enc \cup {None}]
  /\ \A e \in Entry : life[e] # "unused" => key[e] \in Enc
  /\ life \in [Entry -> {"unused", "bare", "ready", "freed"}]
  /\ dack \in [Entry -> {"null", "junk", "frame"}]
  /\ encArmed \in [Entry -> BOOLEAN] /\ dackArmed \in [Entry -> BOOLEAN]
  /\ bucket \in [0..NBuckets - 1 -> Seq(Entry)]
  /\ pc \in [Context -> {"idle", "add", "setup", "touch", "update", "install"}]
  /\ ent \in [Context -> Entry \cup {None}] /\ enc \in [Context -> Enc \cup {None}]
  /\ cleanpc \in [Entry -> {"idle", "find", "unlink", "free"}]
  /\ victim \in [Entry -> Entry \cup {None}]
  /\ dqueue \in Seq(Enc)

(* Whatever contexts do in between: with one thread in vmac_tx a bucket    *)
(* never holds two entries, so the one find_rx returns is the only one     *)
(* (tx.c:113, main.c:125); an entry in the table will be removed, since its*)
(* timeout is pending, or about to be set by the thread that made it, or   *)
(* being handled (tx.c:155, rx.c:274); an entry that left the table is     *)
(* freed, not leaked (clean.c:77-81).                                      *)
EntriesKept ==
  /\ \A b \in DOMAIN bucket : Len(bucket[b]) <= 1
  /\ \A e \in Entry : InTable(e) =>
       \/ encArmed[e]
       \/ cleanpc[e] # "idle"
       \/ \E c \in Callers : ent[c] = e /\ pc[c] \in {"setup", "touch"}
  /\ \A e \in Entry : life[e] \in {"bare", "ready"} =>
       InTable(e) \/ \E h \in Entry : victim[h] = e /\ cleanpc[h] = "free"

(* clean.c:77-81: freed memory is used only through a pointer, a timer or  *)
(* a request of someone who found the entry before its clean-up had        *)
(* unlinked it and restarted its timeout too late: who was between find_rx *)
(* and mod_timer when the timer fired (tx.c:109-155, rx.c:263-274), or     *)
(* found the entry while the clean-up ran. dack.c:250: the entry that      *)
(* prepDACK does not find went in the same way. tx.c:140-147: a timer that *)
(* is not set up is started only between add_rx and timer_setup. clean.c:79*)
(* frees a pointer that was never set only with an entry that never had a  *)
(* report. tx.c:119: NULL is used only when an entry is made.              *)
MisuseExplained ==
  CASE fault.kind = "none"    -> TRUE
    [] fault.kind = "null"    -> \E c \in Callers : pc[c] = "add"
    [] fault.kind = "freed"   -> fault.entry \in raced
    [] fault.kind = "missing" -> \E e \in raced : Hash(key[e]) = Hash(Head(dqueue))
    [] fault.kind = "unset"   -> \E c \in Callers : ent[c] = fault.entry /\ pc[c] = "setup"
    [] fault.kind = "junk"    -> fault.entry \notin reported

(* clean.c, tx.c:155: once nothing arrives any more each entry is freed.   *)
EntriesExpire ==
  \A e \in Entry : life[e] = "ready" ~> (life[e] = "freed" \/ fault # NoFault)

(* tx.c:39 "look up tx table for the same encoding": what find_rx returns  *)
(* is an entry of the encoding looked for. Fails: main.c:123-126.          *)
SameEncoding ==
  \A x \in Context : ent[x] # None => key[ent[x]] = enc[x]

=============================================================================
