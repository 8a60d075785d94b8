---------------------------- MODULE VmacReceiver ----------------------------
(***************************************************************************)
(* The receive side of one encoding: vmac_rx for data frames (the receive  *)
(* window, the request of a DACK every round) and, on another CPU, the     *)
(* dackgen thread scanning the window for holes without a lock.            *)
(*                                                                         *)
(* The medium loses, repeats and reorders frames: n, the number of a frame *)
(* since the start of the stream, arrives in any order that stays within   *)
(* Lag of the newest. The frame itself carries n modulo SeqMod (u16).      *)
(***************************************************************************)
EXTENDS VmacHoles

CONSTANTS
  SeqMod,       \* sequence numbers: 2^16
  ROUND,        \* frames of a round: 5
  LossMod,      \* range of prepDACK's loss: 2^8
  MaxFrame,     \* bound: last frame of the stream
  Gap,          \* bound: frames lost in a row
  Lag           \* how far behind the newest a frame may arrive

ASSUME ReceiverAssumption ==
  /\ {SeqMod, ROUND, LossMod, Gap, Lag} \subseteq Nat \ {0}
  /\ MaxFrame \in Nat

VARIABLES
  window,       \* vmacr->window, with the word in front of it at -1
  latest,       \* vmacr->latest
  round,        \* vmacr->round: sequence number of the last request
  lastin,       \* vmacr->lastin
  timed,        \* frames timed for alpha: firstFrame, SecondFrame
  rxpc,         \* vmac_rx: "idle", or "accept" while it updates the entry
  rxn,          \* the number of the frame vmac_rx holds
  dqueue,       \* rounds asked for, oldest first
  genpc,        \* dackgen: "idle", "test", "back", "fwd" or "built"
  i, tmp,       \* prepDACK's positions
  loss,         \* prepDACK's loss
  holes,        \* prepDACK's holesy[0..holes-1]
  \* history
  newest,       \* newest frame that arrived, -1 when none did
  askedAt,      \* the frame that led to the last request, 0 before
  delivered,    \* frames handed to nl_send
  repeated,     \* frames handed to nl_send a second time
  wronged,      \* frames freed as received before that never were
  before,       \* what was delivered when the scan began
  quiet         \* the window has not changed since the scan began

rxVars   == <<window, latest, round, lastin, timed, rxpc, rxn>>
scanVars == <<genpc, i, tmp, loss, holes, before>>
history  == <<newest, askedAt, delivered, repeated, wronged>>
vars     == <<rxVars, dqueue, scanVars, history, quiet>>

seq == rxn % SeqMod           \* vdr->seq of the frame in hand
cur == Head(dqueue)           \* the round prepDACK serves
lattmp == cur * ROUND         \* dack.c:256

(* tx.c:118-139: the window is not initialised. Slots other than 0 are     *)
(* zeroed before they are read; slot 0 and the word in front are not.      *)
Init ==
  /\ window \in {[s \in -1..WINDOW - 1 |-> CASE s = -1 -> a [] s = 0 -> b [] OTHER -> 2]
                   : a \in {0, 1}, b \in {0, 1, 2}}
  /\ latest = 0 /\ round = 0 /\ lastin = 0 /\ timed = 0
  /\ rxpc = "idle" /\ rxn = 0
  /\ dqueue = <<>>
  /\ genpc = "idle" /\ i = 0 /\ tmp = 0 /\ loss = 0 /\ holes = <<>>
  /\ newest = -1 /\ askedAt = 0
  /\ delivered = {} /\ repeated = {} /\ wronged = {}
  /\ before = {} /\ quiet = TRUE

----------------------------------------------------------------------------
(* vmac_rx, data frame (rx.c:259-317 and nl_send).                         *)

CanArrive(n) == newest - Lag < n /\ n <= newest + Gap

RxDiscard(n) ==
  /\ rxpc = "idle" /\ CanArrive(n)
  /\ latest >= n % SeqMod
  /\ window[(n % SeqMod) % WINDOW] = 1
  /\ wronged' = wronged \cup ({n} \ delivered)
  /\ newest' = IF n > newest THEN n ELSE newest
  /\ UNCHANGED <<rxVars, dqueue, scanVars, quiet, askedAt, delivered, repeated>>

RxBegin(n) ==
  /\ rxpc = "idle" /\ CanArrive(n)
  /\ latest < n % SeqMod \/ window[(n % SeqMod) % WINDOW] # 1
  /\ rxpc' = "accept"
  /\ rxn' = n
  /\ newest' = IF n > newest THEN n ELSE newest
  /\ UNCHANGED <<window, latest, round, lastin, timed, dqueue, scanVars, quiet,
                 askedAt, delivered, repeated, wronged>>

(* Mistake: the slots passed over are not cleared.                         *)
RxAdvanceStale ==
  /\ rxpc = "accept"
  /\ latest < seq
  /\ latest' = latest + 1
  /\ UNCHANGED <<window, quiet, round, lastin, timed, rxpc, rxn, dqueue, scanVars,
                 history>>

(* rx.c:279-283, one turn of the loop.                                     *)
RxAdvance ==
  /\ rxpc = "accept"
  /\ latest < seq
  /\ latest' = latest + 1
  /\ window' = [window EXCEPT ![latest' % WINDOW] = 0]
  /\ quiet' = FALSE
  /\ UNCHANGED <<round, lastin, timed, rxpc, rxn, dqueue, scanVars, history>>

(* rx.c:291-294: an old frame of an earlier turn of the window leaves no   *)
(* mark.                                                                   *)
Marks == seq >= IF latest >= WINDOW THEN latest % WINDOW ELSE 0

NextTimedOn == timed + 1           \* mistake: every frame is timed

(* rx.c:296-305: alpha is computed from the first two frames, once; later  *)
(* firstFrame is only set again.                                           *)
NextTimed == IF timed < 2 THEN timed + 1 ELSE 2

RoundCompleteLate == round < seq - ROUND   \* mistake: < for <=

(* rx.c:307: the signed difference, so nothing is asked for below ROUND.   *)
RoundComplete == round <= seq - ROUND

RxAccept ==
  /\ rxpc = "accept"
  /\ latest >= seq
  /\ window' = IF Marks THEN [window EXCEPT ![seq % WINDOW] = 1] ELSE window
  /\ quiet' = (quiet /\ ~Marks)
  /\ timed' = NextTimed
  /\ lastin' = seq
  /\ IF RoundComplete
       THEN /\ dqueue' = Append(dqueue, seq \div ROUND)
            /\ round' = seq
            /\ askedAt' = rxn
       ELSE UNCHANGED <<dqueue, round, askedAt>>
  /\ delivered' = delivered \cup {rxn}
  /\ repeated' = repeated \cup ({rxn} \cap delivered)
  /\ rxpc' = "idle"
  /\ UNCHANGED <<latest, rxn, scanVars, newest, wronged>>

----------------------------------------------------------------------------
(* prepDACK's scan (dack.c:256-283), one window access at a time.          *)

PrepBegin ==
  /\ genpc = "idle"
  /\ dqueue # <<>>
  /\ genpc' = "test"
  /\ i' = ScanStart(lattmp)
  /\ loss' = 0
  /\ holes' = <<>>
  /\ before' = delivered
  /\ quiet' = TRUE
  /\ UNCHANGED <<rxVars, dqueue, tmp, history>>

ScanGoesOn == i < lattmp /\ Len(holes) < HOLES_MAX

PrepReceived ==
  /\ genpc = "test" /\ ScanGoesOn
  /\ ~Lost(window, i)
  /\ i' = i + 1
  /\ UNCHANGED <<rxVars, dqueue, genpc, tmp, loss, holes, before, history, quiet>>

PrepLost ==
  /\ genpc = "test" /\ ScanGoesOn
  /\ Lost(window, i)
  /\ tmp' = i
  /\ genpc' = "back"
  /\ UNCHANGED <<rxVars, dqueue, i, loss, holes, before, history, quiet>>

GoesBack == LostBefore(window, tmp) /\ tmp > 0 /\ ScanStart(lattmp) < tmp - 1

PrepBack ==
  /\ genpc = "back"
  /\ IF GoesBack
       THEN tmp' = tmp - 1 /\ loss' = (loss + 1) % LossMod /\ UNCHANGED genpc
       ELSE genpc' = "fwd" /\ UNCHANGED <<tmp, loss>>
  /\ UNCHANGED <<rxVars, dqueue, i, holes, before, history, quiet>>

(* Mistake: the right edge is taken as a lost frame.                       *)
PrepForwardShort ==
  /\ genpc = "fwd"
  /\ IF Lost(window, i) /\ i < lattmp - 1
       THEN /\ i' = i + 1
            /\ loss' = (loss + 1) % LossMod
            /\ UNCHANGED <<genpc, holes>>
       ELSE /\ holes' = Append(holes, [le |-> tmp, re |-> i - 1])
            /\ i' = i + 1
            /\ genpc' = "test"
            /\ UNCHANGED loss
  /\ UNCHANGED <<rxVars, dqueue, tmp, before, history, quiet>>

PrepForward ==
  /\ genpc = "fwd"
  /\ IF Lost(window, i) /\ i < lattmp - 1
       THEN /\ i' = i + 1
            /\ loss' = (loss + 1) % LossMod
            /\ UNCHANGED <<genpc, holes>>
       ELSE /\ holes' = Append(holes, [le |-> tmp, re |-> i])
            /\ i' = i + 1
            /\ genpc' = "test"
            /\ UNCHANGED loss
  /\ UNCHANGED <<rxVars, dqueue, tmp, before, history, quiet>>

PrepBuilt ==
  /\ genpc = "test" /\ ~ScanGoesOn
  /\ genpc' = "built"
  /\ UNCHANGED <<rxVars, dqueue, i, tmp, loss, holes, before, history, quiet>>

(* The report is handed over (VmacDack) and the request removed.           *)
PrepEnd ==
  /\ genpc = "built"
  /\ genpc' = "idle"
  /\ dqueue' = Tail(dqueue)
  /\ i' = 0 /\ tmp' = 0 /\ loss' = 0 /\ holes' = <<>>
  /\ before' = {} /\ quiet' = TRUE
  /\ UNCHANGED <<rxVars, history>>

----------------------------------------------------------------------------
Rx == \/ \E n \in 0..MaxFrame : RxDiscard(n) \/ RxBegin(n)
      \/ RxAdvance \/ RxAccept

Prep == PrepBegin \/ PrepReceived \/ PrepLost \/ PrepBack \/ PrepForward
        \/ PrepBuilt \/ PrepEnd

Next == Rx \/ Prep

Spec == Init /\ [][Next]_vars

----------------------------------------------------------------------------
(* The rounds a u16 has room for.                                          *)
Rounds == 0..(SeqMod - 1) \div ROUND

(* Type correctness (types of vmac.h:196-215, dack.c:240-249).             *)
TypeOK ==
  /\ window \in [-1..WINDOW - 1 -> {0, 1, 2}]
  /\ {latest, round, lastin} \subseteq 0..SeqMod - 1
  /\ timed \in 0..2
  /\ rxpc \in {"idle", "accept"} /\ rxn \in 0..MaxFrame
  /\ dqueue \in Seq(Rounds)
  /\ genpc \in {"idle", "test", "back", "fwd", "built"}
  /\ {i, tmp} \subseteq 0..SeqMod - 1
  /\ loss \in 0..LossMod - 1
  /\ holes \in Seq([le : 0..SeqMod - 1, re : 0..SeqMod - 1])
  /\ newest \in -1..MaxFrame /\ askedAt \in 0..MaxFrame
  /\ delivered \cup repeated \cup wronged \cup before \subseteq 0..MaxFrame
  /\ quiet \in BOOLEAN

Recent(s) == latest - WINDOW < s /\ s <= latest

(* Between frames, the slot of every frame the window still speaks for     *)
(* tells whether it was delivered; so, however often the medium repeats a  *)
(* frame, the user process gets it at most once, and what is freed as      *)
(* received before was received before (rx.c:145-147, 277-294). The first  *)
(* frame is left out because its slot is never initialised.                *)
WindowSound ==
  /\ rxpc = "idle" =>
       \A s \in 1..latest : Recent(s) => (window[s % WINDOW] = 1 <=> s \in delivered)
  /\ repeated = {} /\ wronged \subseteq {0}

(* The stream is never a whole round ahead of the last request: a DACK is  *)
(* asked for with the fifth frame of a round (rx.c:163-166, 307-312).      *)
RoundAskedFor == rxpc = "idle" => newest < askedAt + ROUND

(* Rounds and their pace: alpha's divisor (rx.c:303) is not zero either,   *)
(* for the frame that follows the first is another one.                    *)
RoundsSound ==
  /\ RoundAskedFor
  /\ rxpc = "accept" /\ latest >= seq /\ timed = 1 => seq # lastin

(* prepDACK looks at the true word in front of a slot unless it crosses a  *)
(* multiple of WINDOW (dack.c:266).                                        *)
WordInFrontUnused == lattmp <= WINDOW \/ window[-1] # 0

(* A finished report (dack.c:261-283, while vmac_rx writes the window)     *)
(* asks only for frames that had not been delivered when the scan began, or*)
(* whose slot serves a newer frame meanwhile; the word in front of the     *)
(* window, read as the slot of a frame, is the exception (dack.c:266,      *)
(* against dack.c:221 "while (tmp-1)th frame is lost").                    *)
HolesAreLost ==
  WordInFrontUnused => \A s \in Covered(holes) \ {0} : Recent(s) => s \notin before

(* It asks for every frame below the last one it looks at that is still    *)
(* missing when the scan is over (dack.c:261).                             *)
LostAreReported ==
  \A s \in ScanStart(lattmp)..Reach(holes, lattmp) - 1 :
    Recent(s) /\ s # 0 /\ s \notin delivered => s \in Covered(holes)

(* What a report says, whatever came in during the scan (dack.c:261-283).  *)
ReportCovers == genpc = "built" => HolesAreLost /\ LostAreReported

(* If no frame came in between it is HolesOf the window, in order and      *)
(* apart, with loss counting the frames (dack.c:261-283).                  *)
ReportExact ==
  genpc = "built" /\ quiet =>
    /\ holes = HolesOf(window, lattmp)
    /\ WordInFrontUnused =>
         InOrder(holes) /\ loss = Cardinality(Covered(holes)) % LossMod

(* A report of prepDACK is right under arrivals, and exact without them    *)
(* (dack.c:261-283).                                                       *)
ReportSound == ReportCovers /\ ReportExact
=============================================================================
