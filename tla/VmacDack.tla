------------------------------ MODULE VmacDack ------------------------------
(***************************************************************************)
(* The life of a DACK (the receiver's report of the frames it misses)      *)
(* between the request of a round and the management queue: request_DACK   *)
(* (rx path), the dackgen thread with prepDACK, the dack_timer of every    *)
(* encoding with its handler __sendDACK, and add_DACK.                     *)
(*                                                                         *)
(* The contexts run on different CPUs and meet in the entry of an encoding *)
(* (struct encoding_rx: dacklok, dac_info.send, dac_info.dack, dack_timer).*)
(* A DACK frame is named by its encoding and round: vmac_rx asks for a     *)
(* round at most once and rounds grow, so the name is unique. What the     *)
(* frame lists (the holes) is VmacHoles and VmacReceiver.                  *)
(***************************************************************************)
EXTENDS Integers, Sequences

CONSTANTS
  Enc,          \* encodings that have an entry in the receive table
  MaxRound,     \* bound on the rounds asked for
  MayFail,      \* whether kmalloc and dev_alloc_skb may return NULL
  NULL,         \* the null pointer
  Junk          \* the value of a pointer field of vmalloc'd memory never set

Round == 1..MaxRound
Skb == Enc \X Round           \* the DACK frames that can be allocated

ASSUME MaxRoundAssumption == MaxRound \in Nat
ASSUME MayFailAssumption == MayFail \in BOOLEAN
ASSUME PointerAssumption == NULL \notin Skb /\ Junk \notin Skb /\ NULL # Junk

VARIABLES
  asked,        \* asked[e]: last round vmac_rx asked for (its vmacr->round)
  dqueue,       \* requests waiting for dackgen, oldest first
  dackreqnum,   \* the module's count of waiting requests
  genpc,        \* where the dackgen thread stands
  skb,          \* prepDACK's frame
  ptr,          \* prepDACK's replaced frame, still to be freed
  dacklok,      \* dacklok[e]: "free", "gen" or "timer"
  send,         \* dac_info.send
  dack,         \* dac_info.dack
  armed,        \* dack_timer pending
  tpc,          \* tpc[e]: where the timer handler of e stands
  tptr,         \* tptr[e]: __sendDACK's ptr
  mqueued,      \* frames add_DACK appended to the management queue
  freed,        \* frames given back with kfree_skb
  lost          \* frames add_DACK dropped without freeing them

entryVars == <<send, dack, armed, dacklok>>
genVars   == <<genpc, skb, ptr>>
timerVars == <<tpc, tptr>>
reqVars   == <<asked, dqueue, dackreqnum>>
fateVars  == <<mqueued, freed, lost>>
vars      == <<entryVars, genVars, timerVars, reqVars, fateVars>>

GenStates   == {"idle", "built", "locked", "installed", "unlocked", "done"}
TimerStates == {"off", "fired", "locked", "took", "empty", "add"}

(* tx.c:118-152: the entry is created with send = 0, dac_info.dack never   *)
(* written, and the timer started at once.                                 *)
Init ==
  /\ asked = [e \in Enc |-> 0]
  /\ dqueue = <<>>
  /\ dackreqnum = 0
  /\ genpc = "idle"
  /\ skb = NULL
  /\ ptr = NULL
  /\ dacklok = [e \in Enc |-> "free"]
  /\ send = [e \in Enc |-> 0]
  /\ dack \in [Enc -> {NULL, Junk}]
  /\ armed = [e \in Enc |-> TRUE]
  /\ tpc = [e \in Enc |-> "off"]
  /\ tptr = [e \in Enc |-> NULL]
  /\ mqueued = {}
  /\ freed = {}
  /\ lost = {}

----------------------------------------------------------------------------
(* The receive path.                                                       *)

(* Mistake: list_add for list_add_tail.                                    *)
RequestFirst(e) ==
  \E r \in Round :
    /\ r > asked[e]
    /\ asked' = [asked EXCEPT ![e] = r]
    /\ dqueue' = <<<<e, r>>>> \o dqueue
    /\ dackreqnum' = dackreqnum + 1
    /\ UNCHANGED <<entryVars, genVars, timerVars, fateVars>>

(* rx.c:307-312 asks for a later round than ever before; request_DACK      *)
(* queues it, or forgets it when kmalloc fails.                            *)
RequestDACK(e) ==
  \E r \in Round :
    /\ r > asked[e]
    /\ asked' = [asked EXCEPT ![e] = r]
    /\ \/ /\ dqueue' = Append(dqueue, <<e, r>>)
          /\ dackreqnum' = dackreqnum + 1
       \/ /\ MayFail
          /\ UNCHANGED <<dqueue, dackreqnum>>
    /\ UNCHANGED <<entryVars, genVars, timerVars, fateVars>>

----------------------------------------------------------------------------
(* The dackgen thread: prepDACK for the oldest request, then its removal.  *)

cur == Head(dqueue)           \* dackgen's tmp: the request being served

(* prepDACK up to the trylock: the frame is built outside the lock.        *)
GenBuild ==
  /\ genpc = "idle"
  /\ dqueue # <<>>
  /\ \/ /\ skb' = cur
        /\ genpc' = "built"
     \/ /\ MayFail
        /\ skb' = NULL
        /\ genpc' = "done"
  /\ ptr' = NULL
  /\ UNCHANGED <<entryVars, timerVars, reqVars, fateVars>>

GenTrylock ==
  /\ genpc = "built"
  /\ dacklok[cur[1]] = "free"
  /\ dacklok' = [dacklok EXCEPT ![cur[1]] = "gen"]
  /\ genpc' = "locked"
  /\ UNCHANGED <<send, dack, armed, skb, ptr, timerVars, reqVars, fateVars>>

(* dack.c:325-329: the lock is taken, the new frame is thrown away.        *)
GenTrylockFails ==
  /\ genpc = "built"
  /\ dacklok[cur[1]] # "free"
  /\ freed' = freed \cup {skb}
  /\ skb' = NULL
  /\ genpc' = "done"
  /\ UNCHANGED <<entryVars, ptr, timerVars, reqVars, mqueued, lost>>

(* Mistakes: send counts the DACKs; the replaced DACK is not kept for      *)
(* kfree_skb.                                                              *)
GenReplaceCounts ==
  /\ genpc = "locked"
  /\ send[cur[1]] = 1
  /\ send' = [send EXCEPT ![cur[1]] = @ + 1]
  /\ ptr' = dack[cur[1]]
  /\ dack' = [dack EXCEPT ![cur[1]] = skb]
  /\ skb' = NULL
  /\ genpc' = "installed"
  /\ UNCHANGED <<armed, dacklok, timerVars, reqVars, fateVars>>

GenReplaceLeaks ==
  /\ genpc = "locked"
  /\ send[cur[1]] = 1
  /\ dack' = [dack EXCEPT ![cur[1]] = skb]
  /\ skb' = NULL
  /\ genpc' = "installed"
  /\ UNCHANGED <<send, armed, dacklok, ptr, timerVars, reqVars, fateVars>>

(* dack.c:331-344: a DACK waits already; the new one takes its place and   *)
(* its deadline.                                                           *)
GenReplace ==
  /\ genpc = "locked"
  /\ send[cur[1]] = 1
  /\ ptr' = dack[cur[1]]
  /\ dack' = [dack EXCEPT ![cur[1]] = skb]
  /\ skb' = NULL
  /\ genpc' = "installed"
  /\ UNCHANGED <<send, armed, dacklok, timerVars, reqVars, fateVars>>

(* Mistake: no mod_timer.                                                  *)
GenInstallUntimed ==
  /\ genpc = "locked"
  /\ send[cur[1]] # 1
  /\ dack' = [dack EXCEPT ![cur[1]] = skb]
  /\ send' = [send EXCEPT ![cur[1]] = 1]
  /\ skb' = NULL
  /\ genpc' = "installed"
  /\ UNCHANGED <<armed, dacklok, ptr, timerVars, reqVars, fateVars>>

(* dack.c:345-359: nothing waits; the new one is announced to the timer.   *)
GenInstall ==
  /\ genpc = "locked"
  /\ send[cur[1]] # 1
  /\ dack' = [dack EXCEPT ![cur[1]] = skb]
  /\ send' = [send EXCEPT ![cur[1]] = 1]
  /\ armed' = [armed EXCEPT ![cur[1]] = TRUE]
  /\ skb' = NULL
  /\ genpc' = "installed"
  /\ UNCHANGED <<dacklok, ptr, timerVars, reqVars, fateVars>>

GenUnlock ==
  /\ genpc = "installed"
  /\ dacklok' = [dacklok EXCEPT ![cur[1]] = "free"]
  /\ genpc' = "unlocked"
  /\ UNCHANGED <<send, dack, armed, skb, ptr, timerVars, reqVars, fateVars>>

(* dack.c:361-364; kfree_skb(NULL) does nothing.                           *)
GenFree ==
  /\ genpc = "unlocked"
  /\ freed' = IF ptr = NULL THEN freed ELSE freed \cup {ptr}
  /\ ptr' = NULL
  /\ genpc' = "done"
  /\ UNCHANGED <<entryVars, skb, timerVars, reqVars, mqueued, lost>>

(* dack.c:197-201, under dackfreelok.                                      *)
GenDequeue ==
  /\ genpc = "done"
  /\ dqueue' = Tail(dqueue)
  /\ dackreqnum' = dackreqnum - 1
  /\ genpc' = "idle"
  /\ UNCHANGED <<asked, skb, ptr, entryVars, timerVars, fateVars>>

Gen == GenBuild \/ GenTrylock \/ GenTrylockFails \/ GenReplace
       \/ GenInstall \/ GenUnlock \/ GenFree \/ GenDequeue

----------------------------------------------------------------------------
(* The timer of encoding e. A timer that is running may be armed again but *)
(* does not run twice at a time.                                           *)

TimerFire(e) ==
  /\ tpc[e] = "off"
  /\ armed[e]
  /\ armed' = [armed EXCEPT ![e] = FALSE]
  /\ tpc' = [tpc EXCEPT ![e] = "fired"]
  /\ UNCHANGED <<send, dack, dacklok, genVars, tptr, reqVars, fateVars>>

TimerTrylock(e) ==
  /\ tpc[e] = "fired"
  /\ dacklok[e] = "free"
  /\ dacklok' = [dacklok EXCEPT ![e] = "timer"]
  /\ tpc' = [tpc EXCEPT ![e] = "locked"]
  /\ UNCHANGED <<send, dack, armed, genVars, tptr, reqVars, fateVars>>

(* Mistake: the timer is not started again.                                *)
TimerGivesUp(e) ==
  /\ tpc[e] = "fired"
  /\ dacklok[e] # "free"
  /\ tpc' = [tpc EXCEPT ![e] = "off"]
  /\ UNCHANGED <<entryVars, genVars, tptr, reqVars, fateVars>>

(* dack.c:114-118: try again 100 ms later.                                 *)
TimerTrylockFails(e) ==
  /\ tpc[e] = "fired"
  /\ dacklok[e] # "free"
  /\ armed' = [armed EXCEPT ![e] = TRUE]
  /\ tpc' = [tpc EXCEPT ![e] = "off"]
  /\ UNCHANGED <<send, dack, dacklok, genVars, tptr, reqVars, fateVars>>

(* Mistakes: send is not reset; send is not looked at; dack is not reset.  *)
TimerTakeKeepsSend(e) ==
  /\ tpc[e] = "locked"
  /\ send[e] = 1
  /\ tptr' = [tptr EXCEPT ![e] = dack[e]]
  /\ dack' = [dack EXCEPT ![e] = NULL]
  /\ tpc' = [tpc EXCEPT ![e] = "took"]
  /\ UNCHANGED <<send, armed, dacklok, genVars, reqVars, fateVars>>

TimerTakeBlindly(e) ==
  /\ tpc[e] = "locked"
  /\ send' = [send EXCEPT ![e] = 0]
  /\ tptr' = [tptr EXCEPT ![e] = dack[e]]
  /\ dack' = [dack EXCEPT ![e] = NULL]
  /\ tpc' = [tpc EXCEPT ![e] = "took"]
  /\ UNCHANGED <<armed, dacklok, genVars, reqVars, fateVars>>

TimerTakeKeepsDack(e) ==
  /\ tpc[e] = "locked"
  /\ send[e] = 1
  /\ send' = [send EXCEPT ![e] = 0]
  /\ tptr' = [tptr EXCEPT ![e] = dack[e]]
  /\ tpc' = [tpc EXCEPT ![e] = "took"]
  /\ UNCHANGED <<dack, armed, dacklok, genVars, reqVars, fateVars>>

TimerTake(e) ==
  /\ tpc[e] = "locked"
  /\ send[e] = 1
  /\ send' = [send EXCEPT ![e] = 0]
  /\ tptr' = [tptr EXCEPT ![e] = dack[e]]
  /\ dack' = [dack EXCEPT ![e] = NULL]
  /\ tpc' = [tpc EXCEPT ![e] = "took"]
  /\ UNCHANGED <<armed, dacklok, genVars, reqVars, fateVars>>

TimerNothing(e) ==
  /\ tpc[e] = "locked"
  /\ send[e] # 1
  /\ tpc' = [tpc EXCEPT ![e] = "empty"]
  /\ UNCHANGED <<entryVars, genVars, tptr, reqVars, fateVars>>

TimerUnlock(e) ==
  /\ tpc[e] \in {"took", "empty"}
  /\ dacklok' = [dacklok EXCEPT ![e] = "free"]
  /\ tpc' = [tpc EXCEPT ![e] = IF tpc[e] = "took" THEN "add" ELSE "off"]
  /\ UNCHANGED <<send, dack, armed, genVars, tptr, reqVars, fateVars>>

(* queue.c:165-177: add_DACK does not look at the frame, and forgets it    *)
(* when there is no memory for the queue entry.                            *)
TimerAdd(e) ==
  /\ tpc[e] = "add"
  /\ \/ /\ mqueued' = mqueued \cup {tptr[e]}
        /\ UNCHANGED lost
     \/ /\ MayFail
        /\ lost' = lost \cup {tptr[e]}
        /\ UNCHANGED mqueued
  /\ tptr' = [tptr EXCEPT ![e] = NULL]
  /\ tpc' = [tpc EXCEPT ![e] = "off"]
  /\ UNCHANGED <<entryVars, genVars, reqVars, freed>>

Timer(e) == TimerFire(e) \/ TimerTrylock(e) \/ TimerTrylockFails(e)
            \/ TimerTake(e) \/ TimerNothing(e) \/ TimerUnlock(e) \/ TimerAdd(e)

----------------------------------------------------------------------------
Next == Gen \/ \E e \in Enc : RequestDACK(e) \/ Timer(e)

Spec == Init /\ [][Next]_vars

(* The kernel runs the dackgen thread and every timer that is armed;       *)
(* nothing obliges frames to arrive.                                       *)
Fairness == WF_vars(Gen) /\ \A e \in Enc : WF_vars(Timer(e))
FairSpec == Spec /\ Fairness

----------------------------------------------------------------------------
(* Who holds a frame: a pointer of a thread, of a handler or of the entry, *)
(* the management queue, the allocator (freed), or nobody any more (lost). *)
Holders == {"skb", "ptr", "entry", "handler", "mqueue", "freed", "lost"}

HeldBy(h, s) ==
  \/ h = "skb"     /\ skb = s
  \/ h = "ptr"     /\ ptr = s
  \/ h = "entry"   /\ dack[s[1]] = s
  \/ h = "handler" /\ tptr[s[1]] = s
  \/ h = "mqueue"  /\ s \in mqueued
  \/ h = "freed"   /\ s \in freed
  \/ h = "lost"    /\ s \in lost

Held(s) == \E h \in Holders : HeldBy(h, s)

OfEntry(S, e) == {x \in S : x[1] = e}

(* Type correctness of every variable (types of vmac.h:146-156, 196-215).  *)
TypeOK ==
  /\ asked \in [Enc -> 0..MaxRound]
  /\ dqueue \in Seq(Skb)
  /\ dackreqnum \in Int
  /\ genpc \in GenStates
  /\ skb \in Skb \cup {NULL}
  /\ ptr \in Skb \cup {NULL, Junk}
  /\ dacklok \in [Enc -> {"free", "gen", "timer"}]
  /\ send \in [Enc -> {0, 1}]
  /\ dack \in [Enc -> Skb \cup {NULL, Junk}]
  /\ armed \in [Enc -> BOOLEAN]
  /\ tpc \in [Enc -> TimerStates]
  /\ tptr \in [Enc -> Skb \cup {NULL, Junk}]
  /\ mqueued \subseteq Skb \cup {NULL, Junk}
  /\ freed \subseteq Skb \cup {NULL, Junk}
  /\ lost \subseteq Skb \cup {NULL, Junk}

(* dac_info.send says whether dac_info.dack may be touched: the handler    *)
(* dereferences dack on the strength of send alone (dack.c:119-128), and   *)
(* dack is not initialised when the entry is created.                      *)
SendMeansDack == \A e \in Enc : (send[e] = 1) <=> (dack[e] \in {e} \X Round)

(* Neither a null nor a wild pointer reaches the transmit queue or         *)
(* kfree_skb (dack.c:128, 327, 363; add_DACK never tests its argument).    *)
OnlyFramesLeave == mqueued \cup freed \cup lost \subseteq Skb

(* A DACK frame has one holder: it is not queued twice, freed twice, nor   *)
(* queued and freed, in whatever order prepDACK replaces it and the timer  *)
(* handler takes it (dack.c:121-128 against 331-364).                      *)
OneHolder ==
  \A s \in Skb : \A h, k \in Holders : HeldBy(h, s) /\ HeldBy(k, s) => h = k

(* A DACK that waits has a deadline: prepDACK does not start the timer when*)
(* it replaces a DACK (dack.c:331-344), so the timer, or its handler before*)
(* it looks at send, must still be on its way.                             *)
PendingHasDeadline ==
  \A e \in Enc : send[e] = 1 => armed[e] \/ tpc[e] \in {"fired", "locked"}

(* dacklok is held exactly by the context that is inside its critical      *)
(* section (dack.c:114-130, 325-360), so the two never overlap.            *)
LockDiscipline ==
  \A e \in Enc :
    /\ dacklok[e] = "gen" <=> genpc \in {"locked", "installed"} /\ cur[1] = e
    /\ dacklok[e] = "timer" <=> tpc[e] \in {"locked", "took", "empty"}

(* No pointer to a frame is overwritten while it is the only one: a frame  *)
(* that is held stays held until it is freed, queued or knowingly dropped  *)
(* by add_DACK (dack.c:336, 343, 347, 122-123).                            *)
NoFrameForgotten == [][\A s \in Skb : Held(s) => Held(s)']_vars

(* The management queue never gets an older report of an encoding after a  *)
(* newer one: replacement and the handler's unlocked add_DACK keep rounds  *)
(* in order (dack.c:124-128, 336-343).                                     *)
QueuedInOrder ==
  [][\A s \in mqueued' \ mqueued : \A q \in OfEntry(mqueued, s[1]) : q[2] < s[2]]_vars

(* The entry of an encoding is a mailbox for one report: although prepDACK *)
(* and __sendDACK only meet in a trylock, a report leaves the entry for a  *)
(* younger one or for the handler, the handler hands each over once, and   *)
(* none comes after a younger one (dack.c:112-130, 325-364).               *)
RoundOf(p) == IF p \in Skb THEN p[2] ELSE 0

Mailbox == INSTANCE VmacMailbox WITH
             box  <- [e \in Enc |-> RoundOf(dack[e])],
             hand <- [e \in Enc |-> RoundOf(tptr[e])],
             out  <- mqueued

MailboxSpec == Mailbox!Spec

(* A DACK that waits is handed over, itself or a later one, although the   *)
(* timer handler may find the lock taken and replacement does not start    *)
(* the timer again (dack.c:114-118, 331-344).                              *)
PendingGoesOut ==
  \A s \in Skb : (dack[s[1]] = s) ~>
    (\E q \in OfEntry(mqueued \cup lost, s[1]) : q[2] >= s[2])
=============================================================================
