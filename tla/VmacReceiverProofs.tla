------------------------- MODULE VmacReceiverProofs -------------------------
(***************************************************************************)
(* Invariance proofs for VmacReceiver: its types and the exactness of an   *)
(* undisturbed report whatever arrives; its window, its rounds and what    *)
(* its reports cover for a stream whose sequence numbers do not wrap.      *)
(***************************************************************************)
EXTENDS VmacReceiver, SequenceTheorems, FiniteSetTheorems, WellFoundedInduction, TLAPS

(* A stream shorter than the range of u16, of frames that overtake fewer   *)
(* others than the window has slots.                                       *)
NoWrap    == MaxFrame < SeqMod
LagFits   == Lag <= WINDOW

(* Where prepDACK's positions are while it scans.                          *)
ScanPlace ==
  /\ genpc # "idle" => dqueue # <<>> /\ ScanStart(lattmp) <= i /\ i <= lattmp
  /\ genpc \in {"back", "fwd"} => /\ i < lattmp /\ Len(holes) < HOLES_MAX
                                  /\ ScanStart(lattmp) <= tmp /\ tmp <= i
TypeInv == TypeOK /\ ScanPlace

(* What a slot says of the frame it stands for.                            *)
SlotsTell ==
  /\ \A s \in 0..latest : Recent(s) /\ s \in delivered => window[s % WINDOW] = 1
  /\ \A s \in 1..latest : Recent(s) => /\ window[s % WINDOW] \in {0, 1}
                                       /\ window[s % WINDOW] = 1 => s \in delivered

(* Between frames latest is the newest that came; a frame in hand is new.  *)
LatestSound ==
  /\ rxpc = "idle" => latest = IF newest < 0 THEN 0 ELSE newest
  /\ rxpc = "accept" => /\ rxn \notin delivered /\ latest - WINDOW < rxn /\ rxn <= newest
                        /\ latest <= newest /\ (latest < newest => rxn = newest)
  /\ delivered \subseteq 0..latest /\ before \subseteq delivered

(* The last request, and the frames timed so far.                          *)
RequestSound ==
  /\ round = askedAt
  /\ rxpc = "idle" => newest < askedAt + ROUND
  /\ rxpc = "accept" => newest = rxn \/ newest < askedAt + ROUND
  /\ timed = 0 => delivered = {}
  /\ timed = 1 => delivered = {lastin}
  /\ \A k \in DOMAIN dqueue : dqueue[k] * ROUND <= latest

WindowInv ==
  /\ TypeInv /\ SlotsTell /\ LatestSound /\ RequestSound
  /\ repeated = {} /\ wronged \subseteq {0}

(* Frame s was not delivered when the scan began, or is out of the window. *)
Unheard(s) == Recent(s) /\ s # 0 => s \notin before

(* What the holes, and the hole being built, are made of.                  *)
HolesUnheard ==
  genpc # "idle" /\ WordInFrontUnused =>
    /\ \A s \in Covered(holes) : Unheard(s)
    /\ genpc \in {"back", "fwd"} => \A s \in tmp..i - 1 : Unheard(s)

(* A frame the scan passed over and did not find.                          *)
Missed(s) == s # lattmp - 1 /\ Recent(s) /\ s # 0 /\ s \notin delivered

Passed ==
  genpc # "idle" => \A s \in ScanStart(lattmp)..i - 1 :
    Missed(s) => s \in Covered(holes) \/ (genpc \in {"back", "fwd"} /\ tmp <= s)

ListSound ==
  genpc # "idle" =>
    /\ Len(holes) <= HOLES_MAX
    /\ \A k \in DOMAIN holes : holes[k].re < lattmp /\ holes[k].re < i
    /\ genpc = "built" => i = lattmp \/ Len(holes) = HOLES_MAX

ReportInv == WindowInv /\ HolesUnheard /\ Passed /\ ListSound

----------------------------------------------------------------------------
LEMMA Constants ==
  /\ WINDOW \in Nat \ {0} /\ HOLES_MAX \in Nat \ {0} /\ SeqMod \in Nat \ {0}
  /\ ROUND \in Nat \ {0} /\ LossMod \in Nat \ {0} /\ Gap \in Nat \ {0} /\ Lag \in Nat \ {0}
  /\ MaxFrame \in Nat
  BY WindowAssumption, HolesMaxAssumption, ReceiverAssumption

LEMMA DivMod ==
  ASSUME NEW W \in Nat \ {0}, NEW n \in Nat
  PROVE  n \div W \in Nat /\ n % W \in 0..W - 1 /\ n = W * (n \div W) + (n % W)
<1>1. n = W * (n \div W) + (n % W)  OBVIOUS
<1>2. n \div W \in Nat  OBVIOUS
<1>3. n % W \in 0..W - 1  OBVIOUS
<1>4. QED  BY <1>1, <1>2, <1>3

(* The number of the last whole round of m frames.                         *)
LEMMA WholeRounds ==
  ASSUME NEW R \in Nat \ {0}, NEW m \in Nat, NEW n \in Nat, m <= n
  PROVE  m \div R \in 0..n \div R /\ (m \div R) * R <= m
<1> DEFINE q == m \div R
           p == n \div R
<1>1. q \in Nat /\ p \in Nat /\ m % R \in 0..R - 1 /\ n % R \in 0..R - 1  OBVIOUS
<1>2. m = R * q + (m % R) /\ n = R * p + (n % R)  BY DivMod
<1> HIDE DEF q, p
<1>3. q * R <= m  BY <1>1, <1>2
<1>4. q <= p
  <2>1. SUFFICES ASSUME q > p PROVE FALSE  BY <1>1
  <2>2. q >= p + 1  BY <1>1, <2>1
  <2>3. R * q >= R * (p + 1)  BY <1>1, <2>2
  <2>4. R * (p + 1) = R * p + R  BY <1>1
  <2>5. QED  BY <1>1, <1>2, <2>3, <2>4
<1>5. QED  BY <1>1, <1>3, <1>4 DEF q, p

LEMMA RoundsBelow ==
  ASSUME NEW R \in Nat \ {0}, NEW n \in Nat, NEW q \in 0..n \div R
  PROVE  q * R \in Nat /\ q * R <= n
<1> DEFINE p == n \div R
<1>1. p \in Nat  OBVIOUS
<1>2. p * R <= n  BY WholeRounds
<1> HIDE DEF p
<1>3. q \in Nat /\ q <= p  BY <1>1 DEF p
<1>4. q * R <= p * R  BY <1>1, <1>3
<1>5. q * R \in Nat /\ p * R \in Nat  BY <1>1, <1>3
<1>6. QED  BY <1>2, <1>4, <1>5

----------------------------------------------------------------------------
(* Types.                                                                  *)
LEMMA SeqTyped == ASSUME TypeOK PROVE seq \in 0..SeqMod - 1 /\ seq \in Nat /\ rxn \in Nat
  BY Constants DEF TypeOK, seq

(* The round prepDACK serves, and where its scan begins.                   *)
LEMMA ScanBounds ==
  ASSUME TypeOK, dqueue # <<>>
  PROVE  /\ cur = dqueue[1] /\ 1 \in DOMAIN dqueue
         /\ lattmp \in Nat /\ lattmp <= SeqMod - 1
         /\ ScanStart(lattmp) \in Nat /\ ScanStart(lattmp) <= lattmp
<1>1. dqueue \in Seq(Rounds)  BY DEF TypeOK
<1>2. cur \in Rounds /\ cur = dqueue[1] /\ 1 \in DOMAIN dqueue
  BY <1>1, HeadTailProperties, LenProperties, ElementOfSeq, EmptySeq DEF cur
<1>3. SeqMod - 1 \in Nat /\ ROUND \in Nat \ {0}  BY Constants
<1>4. lattmp \in Nat /\ lattmp <= SeqMod - 1
  BY <1>2, <1>3, RoundsBelow DEF lattmp, Rounds
<1>5. ScanStart(lattmp) \in Nat /\ ScanStart(lattmp) <= lattmp
  BY <1>4, Constants DEF ScanStart
<1>6. QED  BY <1>2, <1>4, <1>5

(* A new request leaves the one being served in front.                     *)
LEMMA CurKeeps ==
  ASSUME TypeOK, dqueue # <<>>, NEW x, dqueue' = dqueue \/ dqueue' = Append(dqueue, x)
  PROVE  dqueue' # <<>> /\ lattmp' = lattmp
<1>1. dqueue \in Seq(Rounds)  BY DEF TypeOK
<1>2. CASE dqueue' = dqueue  BY <1>2 DEF lattmp, cur
<1>3. CASE dqueue' = Append(dqueue, x)
  <2>1. dqueue' # <<>> /\ Head(dqueue') = Head(dqueue)
    BY <1>1, <1>3, HeadTailProperties, LenProperties, EmptySeq
  <2>2. QED  BY <2>1 DEF lattmp, cur
<1>4. QED  BY <1>2, <1>3

LEMMA InitType == Init => TypeInv
<1> SUFFICES ASSUME Init PROVE TypeInv  OBVIOUS
<1>1. window \in [-1..WINDOW - 1 -> {0, 1, 2}]
  <2>1. PICK a \in {0, 1}, b \in {0, 1, 2} :
          window = [s \in -1..WINDOW - 1 |-> CASE s = -1 -> a [] s = 0 -> b [] OTHER -> 2]
    BY DEF Init
  <2>2. \A s \in -1..WINDOW - 1 : (CASE s = -1 -> a [] s = 0 -> b [] OTHER -> 2) \in {0, 1, 2}
    OBVIOUS
  <2>3. QED  BY <2>1, <2>2
<1>2. /\ <<>> \in Seq(Rounds)
      /\ <<>> \in Seq([le : 0..SeqMod - 1, re : 0..SeqMod - 1])
  OBVIOUS
<1>3. 0 \in 0..SeqMod - 1 /\ 0 \in 0..MaxFrame /\ 0 \in 0..LossMod - 1 /\ -1 \in -1..MaxFrame
  BY Constants
<1>4. TypeOK  BY <1>1, <1>2, <1>3 DEF Init, TypeOK
<1>5. QED  BY <1>4 DEF Init, TypeInv, ScanPlace

LEMMA RxType == ASSUME TypeInv, Rx PROVE TypeInv'
<1> USE DEF TypeInv
<1>1. UNCHANGED <<genpc, i, tmp, loss, holes, before>>
  BY DEF Rx, RxDiscard, RxBegin, RxAdvance, RxAccept, scanVars
<1>2. dqueue' = dqueue \/ dqueue' = Append(dqueue, seq \div ROUND)
  BY DEF Rx, RxDiscard, RxBegin, RxAdvance, RxAccept
<1>3. ScanPlace'
  <2>1. CASE genpc = "idle"  BY <1>1, <2>1 DEF ScanPlace
  <2>2. CASE genpc # "idle"
    <3>1. dqueue' # <<>> /\ lattmp' = lattmp  BY <1>2, <2>2, CurKeeps DEF ScanPlace
    <3>2. QED  BY <1>1, <2>2, <3>1 DEF ScanPlace, ScanStart
  <2>3. QED  BY <2>1, <2>2
<1>4. seq \in 0..SeqMod - 1 /\ seq \in Nat  BY SeqTyped
<1>5. newest \in -1..MaxFrame /\ -1..MaxFrame \subseteq Int /\ 0..MaxFrame \subseteq -1..MaxFrame
  BY Constants DEF TypeOK
<1>6. ASSUME NEW n \in 0..MaxFrame, RxDiscard(n) PROVE TypeOK'
  BY <1>5, <1>6 DEF RxDiscard, rxVars, scanVars, TypeOK
<1>7. ASSUME NEW n \in 0..MaxFrame, RxBegin(n) PROVE TypeOK'
  BY <1>5, <1>7 DEF RxBegin, scanVars, TypeOK
<1>8. CASE RxAdvance
  <2>1. /\ latest < seq /\ latest' = latest + 1
        /\ window' = [window EXCEPT ![latest' % WINDOW] = 0] /\ quiet' = FALSE
        /\ UNCHANGED <<round, lastin, timed, rxpc, rxn, dqueue, scanVars, history>>
    BY <1>8 DEF RxAdvance
  <2>2. latest \in 0..SeqMod - 1  BY DEF TypeOK
  <2>3. latest' \in 0..SeqMod - 1  BY <1>4, <2>1, <2>2, Constants
  <2>4. window' \in [-1..WINDOW - 1 -> {0, 1, 2}]  BY <2>1 DEF TypeOK
  <2>5. TypeOK'
    <3>1. {latest', round', lastin'} \subseteq 0..SeqMod - 1  BY <2>1, <2>3 DEF TypeOK
    <3>2. quiet' \in BOOLEAN  BY <2>1
    <3>3. QED  BY <1>1, <2>1, <2>4, <3>1, <3>2 DEF TypeOK, history
  <2>6. QED  BY <1>3, <2>5
<1>9. CASE RxAccept
  <2>1. window' \in [-1..WINDOW - 1 -> {0, 1, 2}]
    BY <1>9 DEF RxAccept, TypeOK
  <2>2. dqueue' \in Seq(Rounds)
    <3>1. seq <= SeqMod - 1 /\ SeqMod - 1 \in Nat /\ ROUND \in Nat \ {0}
      BY <1>4, Constants
    <3>2. seq \div ROUND \in Rounds  BY <1>4, <3>1, WholeRounds DEF Rounds
    <3>3. dqueue \in Seq(Rounds)  BY DEF TypeOK
    <3>4. Append(dqueue, seq \div ROUND) \in Seq(Rounds)  BY <3>2, <3>3, AppendProperties
    <3>5. QED  BY <1>2, <3>3, <3>4
  <2>3. timed' \in 0..2  BY <1>9 DEF RxAccept, NextTimed, TypeOK
  <2>4. lastin' = seq /\ round' \in {round, seq} /\ askedAt' \in {askedAt, rxn}
        /\ rxpc' = "idle" /\ quiet' \in BOOLEAN
    BY <1>9 DEF RxAccept, TypeOK
  <2>5. delivered' \cup repeated' \cup wronged' \cup before' \subseteq 0..MaxFrame
    BY <1>9 DEF RxAccept, scanVars, TypeOK
  <2>6. UNCHANGED <<latest, rxn, newest>>  BY <1>9 DEF RxAccept
  <2>7. {latest', round', lastin'} \subseteq 0..SeqMod - 1
    BY <1>4, <2>4, <2>6 DEF TypeOK
  <2>8. rxpc' \in {"idle", "accept"} /\ rxn' \in 0..MaxFrame /\ newest' \in -1..MaxFrame
        /\ askedAt' \in 0..MaxFrame
    BY <2>4, <2>6 DEF TypeOK
  <2>9. /\ genpc' \in {"idle", "test", "back", "fwd", "built"}
        /\ {i', tmp'} \subseteq 0..SeqMod - 1 /\ loss' \in 0..LossMod - 1
        /\ holes' \in Seq([le : 0..SeqMod - 1, re : 0..SeqMod - 1])
    BY <1>1 DEF TypeOK
  <2>10. TypeOK'  BY <2>1, <2>2, <2>3, <2>4, <2>5, <2>7, <2>8, <2>9 DEF TypeOK
  <2>11. QED  BY <1>3, <2>10
<1>10. QED  BY <1>3, <1>6, <1>7, <1>8, <1>9 DEF Rx

LEMMA PrepType == ASSUME TypeInv, Prep PROVE TypeInv'
<1> USE DEF TypeInv
<1>1. CASE PrepBegin
  <2>1. /\ dqueue # <<>> /\ genpc' = "test" /\ i' = ScanStart(lattmp) /\ loss' = 0 /\ holes' = <<>>
        /\ before' = delivered /\ quiet' = TRUE
        /\ UNCHANGED <<rxVars, dqueue, tmp, history>>
    BY <1>1 DEF PrepBegin
  <2>2. lattmp' = lattmp  BY <2>1 DEF lattmp, cur
  <2>3. i' \in 0..SeqMod - 1 /\ i' <= lattmp /\ ScanStart(lattmp) <= i'
    BY <2>1, ScanBounds, Constants
  <2>4. <<>> \in Seq([le : 0..SeqMod - 1, re : 0..SeqMod - 1]) /\ 0 \in 0..LossMod - 1
    BY Constants
  <2>5. TypeOK'  BY <2>1, <2>3, <2>4 DEF TypeOK, rxVars, history
  <2>6. ScanPlace'  BY <2>1, <2>2, <2>3 DEF ScanPlace, ScanStart
  <2>7. QED  BY <2>5, <2>6
<1>2. CASE PrepEnd
  <2>1. /\ genpc = "built" /\ genpc' = "idle" /\ dqueue' = Tail(dqueue)
        /\ i' = 0 /\ tmp' = 0 /\ loss' = 0 /\ holes' = <<>> /\ before' = {} /\ quiet' = TRUE
        /\ UNCHANGED <<rxVars, history>>
    BY <1>2 DEF PrepEnd
  <2>2. dqueue # <<>> /\ dqueue \in Seq(Rounds)
    BY <2>1 DEF ScanPlace, TypeOK
  <2>3. dqueue' \in Seq(Rounds)  BY <2>1, <2>2, HeadTailProperties
  <2>4. <<>> \in Seq([le : 0..SeqMod - 1, re : 0..SeqMod - 1]) /\ 0 \in 0..LossMod - 1
        /\ 0 \in 0..SeqMod - 1
    BY Constants
  <2>5. TypeOK'  BY <2>1, <2>3, <2>4 DEF TypeOK, rxVars, history
  <2>6. QED  BY <2>1, <2>5 DEF ScanPlace
<1>3. ASSUME PrepReceived \/ PrepLost \/ PrepBack \/ PrepForward \/ PrepBuilt
      PROVE  TypeInv'
  <2>1. genpc \in {"test", "back", "fwd"} /\ UNCHANGED <<rxVars, dqueue, before, history, quiet>>
        /\ lattmp' = lattmp
    BY <1>3 DEF PrepReceived, PrepLost, PrepBack, PrepForward, PrepBuilt, lattmp, cur
  <2>2. /\ dqueue # <<>> /\ lattmp \in Nat /\ lattmp <= SeqMod - 1
        /\ ScanStart(lattmp) \in Nat /\ ScanStart(lattmp) <= lattmp
        /\ i \in Nat /\ tmp \in Nat /\ ScanStart(lattmp) <= i /\ i <= lattmp
        /\ SeqMod \in Nat /\ \A x \in Nat : x <= lattmp => x \in 0..SeqMod - 1
    BY <2>1, ScanBounds, Constants DEF ScanPlace, TypeOK
  <2>3. holes \in Seq([le : 0..SeqMod - 1, re : 0..SeqMod - 1]) /\ Len(holes) \in Nat
    BY LenProperties DEF TypeOK
  <2>4. \A x : (x + 1) % LossMod \in 0..LossMod - 1 \/ x \notin Nat
    BY Constants
  <2>5. loss \in Nat /\ loss \in 0..LossMod - 1  BY Constants DEF TypeOK
  <2>6. SUFFICES /\ genpc' \in {"test", "back", "fwd", "built"}
                 /\ i' \in Nat /\ tmp' \in Nat /\ i' <= lattmp /\ ScanStart(lattmp) <= i'
                 /\ tmp' \in 0..SeqMod - 1 /\ loss' \in 0..LossMod - 1
                 /\ holes' \in Seq([le : 0..SeqMod - 1, re : 0..SeqMod - 1])
                 /\ genpc' \in {"back", "fwd"} => /\ i' < lattmp /\ Len(holes') < HOLES_MAX
                                                  /\ ScanStart(lattmp) <= tmp' /\ tmp' <= i'
    <3>1. TypeOK'  BY <2>1, <2>2, <2>6 DEF TypeOK, rxVars, history
    <3>2. ScanPlace'  BY <2>1, <2>2, <2>6 DEF ScanPlace, ScanStart
    <3>3. QED  BY <3>1, <3>2
  <2>7. CASE PrepReceived
    <3>1. i < lattmp /\ i' = i + 1 /\ genpc' = "test" /\ UNCHANGED <<tmp, loss, holes>>
      BY <2>7 DEF PrepReceived, ScanGoesOn
    <3>2. tmp \in 0..SeqMod - 1  BY DEF TypeOK
    <3>3. QED  BY <2>2, <2>3, <2>5, <3>1, <3>2
  <2>8. CASE PrepLost
    <3>1. i < lattmp /\ Len(holes) < HOLES_MAX /\ tmp' = i /\ genpc' = "back"
          /\ UNCHANGED <<i, loss, holes>>
      BY <2>8 DEF PrepLost, ScanGoesOn
    <3>2. QED  BY <2>2, <2>3, <2>5, <3>1
  <2>9. CASE PrepBack
    <3>1. /\ \/ GoesBack /\ tmp' = tmp - 1 /\ loss' = (loss + 1) % LossMod /\ genpc' = genpc
             \/ genpc' = "fwd" /\ UNCHANGED <<tmp, loss>>
          /\ genpc = "back" /\ UNCHANGED <<i, holes>>
      BY <2>9 DEF PrepBack
    <3>2. GoesBack => tmp > 0 /\ ScanStart(lattmp) < tmp - 1  BY DEF GoesBack
    <3>3. i < lattmp /\ Len(holes) < HOLES_MAX /\ ScanStart(lattmp) <= tmp /\ tmp <= i
      BY <3>1 DEF ScanPlace
    <3>4. CASE GoesBack /\ tmp' = tmp - 1 /\ loss' = (loss + 1) % LossMod /\ genpc' = genpc
      <4>1. tmp' \in Nat /\ ScanStart(lattmp) <= tmp' /\ tmp' <= i /\ tmp' <= lattmp
        BY <2>2, <3>2, <3>3, <3>4
      <4>2. tmp' \in 0..SeqMod - 1  BY <2>2, <4>1
      <4>3. QED  BY <2>2, <2>3, <2>4, <2>5, <3>1, <3>3, <3>4, <4>1, <4>2
    <3>5. CASE genpc' = "fwd" /\ UNCHANGED <<tmp, loss>>
      <4>1. tmp \in 0..SeqMod - 1  BY DEF TypeOK
      <4>2. QED  BY <2>2, <2>3, <2>5, <3>1, <3>3, <3>5, <4>1
    <3>6. QED  BY <3>1, <3>4, <3>5
  <2>10. CASE PrepForward
    <3>1. /\ genpc = "fwd" /\ i' = i + 1 /\ UNCHANGED tmp
          /\ \/ i < lattmp - 1 /\ loss' = (loss + 1) % LossMod /\ UNCHANGED <<genpc, holes>>
             \/ /\ holes' = Append(holes, [le |-> tmp, re |-> i])
                /\ genpc' = "test" /\ UNCHANGED loss
      BY <2>10 DEF PrepForward
    <3>2. i < lattmp /\ Len(holes) < HOLES_MAX /\ ScanStart(lattmp) <= tmp /\ tmp <= i
          /\ tmp \in 0..SeqMod - 1 /\ i \in 0..SeqMod - 1
      BY <3>1 DEF ScanPlace, TypeOK
    <3>3. CASE i < lattmp - 1 /\ loss' = (loss + 1) % LossMod /\ UNCHANGED <<genpc, holes>>
      <4>1. i' \in Nat /\ i' <= lattmp /\ ScanStart(lattmp) <= i' /\ i' < lattmp /\ tmp <= i'
        BY <2>2, <3>1, <3>2, <3>3
      <4>2. loss' \in 0..LossMod - 1  BY <2>4, <2>5, <3>3
      <4>3. QED  BY <2>2, <2>3, <3>1, <3>2, <3>3, <4>1, <4>2
    <3>4. CASE holes' = Append(holes, [le |-> tmp, re |-> i]) /\ genpc' = "test" /\ UNCHANGED loss
      <4>1. [le |-> tmp, re |-> i] \in [le : 0..SeqMod - 1, re : 0..SeqMod - 1]  BY <3>2
      <4>2. holes' \in Seq([le : 0..SeqMod - 1, re : 0..SeqMod - 1])
        BY <2>3, <3>4, <4>1, AppendProperties
      <4>3. QED  BY <2>2, <2>5, <3>1, <3>2, <3>4, <4>2
    <3>5. QED  BY <3>1, <3>3, <3>4
  <2>11. CASE PrepBuilt
    <3>1. genpc' = "built" /\ UNCHANGED <<i, tmp, loss, holes>>  BY <2>11 DEF PrepBuilt
    <3>2. tmp \in 0..SeqMod - 1  BY DEF TypeOK
    <3>3. QED  BY <2>2, <2>3, <2>5, <3>1, <3>2
  <2>12. QED  BY <1>3, <2>7, <2>8, <2>9, <2>10, <2>11
<1>4. QED  BY <1>1, <1>2, <1>3 DEF Prep

LEMMA NextType == ASSUME TypeInv, [Next]_vars PROVE TypeInv'
<1>1. CASE UNCHANGED vars
  BY <1>1 DEF vars, rxVars, scanVars, history, TypeInv, TypeOK, ScanPlace, lattmp, cur
<1>2. QED  BY <1>1, RxType, PrepType DEF Next

(* Whatever the medium does, even when the sequence numbers wrap or frames *)
(* come later than the window is wide, every index prepDACK and vmac_rx    *)
(* read or write stays in range and every counter in its width             *)
(* (rx.c:259-317, dack.c:256-283).                                         *)
THEOREM ReceiverTypeCorrect == Spec => []TypeOK
<1>1. Init => TypeInv  BY InitType
<1>2. TypeInv /\ [Next]_vars => TypeInv'  BY NextType
<1>3. TypeInv => TypeOK  BY DEF TypeInv
<1>4. QED  BY <1>1, <1>2, <1>3, PTL DEF Spec

----------------------------------------------------------------------------
(* The window, of streams that do not wrap.                                *)

(* Frames closer together than the window is wide have slots of their own. *)
LEMMA Apart ==
  ASSUME NEW W \in Nat \ {0}, NEW m \in Nat, NEW n \in Nat, m < n, n < m + W
  PROVE  m % W # n % W
<1> DEFINE p == m \div W
           q == n \div W
           r == m % W
<1>1. p \in Nat /\ q \in Nat /\ r \in Nat /\ m = W * p + r  BY DivMod
<1>2. n = W * q + (n % W)  BY DivMod
<1> SUFFICES ASSUME n % W = r PROVE FALSE  OBVIOUS
<1>3. n = W * q + r  BY <1>2
<1> HIDE DEF p, q, r
<1>4. n - m = W * (q - p)  BY <1>1, <1>3
<1>5. q - p > 0  BY <1>1, <1>4
<1>6. W * (q - p) >= W  BY <1>1, <1>5
<1>7. QED  BY <1>4, <1>6

(* A frame's slot, in full and in front of it.                             *)
LEMMA SlotOf ==
  ASSUME NEW n \in Nat
  PROVE  /\ n % WINDOW \in 0..WINDOW - 1 /\ n % WINDOW \in -1..WINDOW - 1
         /\ n % WINDOW <= n /\ (n >= WINDOW => n % WINDOW <= n - WINDOW)
<1> DEFINE q == n \div WINDOW
           r == n % WINDOW
<1>1. WINDOW \in Nat \ {0}  BY Constants
<1>2. q \in Nat /\ r \in 0..WINDOW - 1 /\ n = WINDOW * q + r  BY <1>1, DivMod
<1> HIDE DEF q, r
<1>3. q = 0 \/ WINDOW * q >= WINDOW  BY <1>1, <1>2
<1>4. r <= n /\ (n >= WINDOW => r <= n - WINDOW)  BY <1>1, <1>2, <1>3
<1>5. QED  BY <1>1, <1>2, <1>4 DEF r

(* The numbers, and what the 16-bit sequence number is without wrapping.   *)
LEMMA Numbers ==
  ASSUME NoWrap, TypeOK
  PROVE  /\ latest \in Nat /\ rxn \in Nat /\ newest \in Int /\ newest >= -1 /\ askedAt \in Nat
         /\ seq = rxn /\ \A n \in 0..MaxFrame : n \in Nat /\ n % SeqMod = n
         /\ WINDOW \in Nat /\ WINDOW > 0 /\ ROUND \in Nat /\ ROUND > 0
<1>1. \A n \in 0..MaxFrame : n \in Nat /\ n % SeqMod = n  BY Constants DEF NoWrap
<1>2. seq = rxn  BY <1>1 DEF TypeOK, seq
<1>3. QED  BY <1>1, <1>2, Constants DEF TypeOK

LEMMA InitWindow == ASSUME Init PROVE WindowInv
<1>1. TypeInv  BY InitType
<1>2. SlotsTell  BY DEF Init, SlotsTell
<1>3. LatestSound  BY DEF Init, LatestSound
<1>4. DOMAIN <<>> = {}  OBVIOUS
<1>5. RequestSound  BY <1>4, Constants DEF Init, RequestSound
<1>6. QED  BY <1>1, <1>2, <1>3, <1>5 DEF Init, WindowInv

LEMMA DiscardStep ==
  ASSUME NoWrap, LagFits, WindowInv, NEW n \in 0..MaxFrame, RxDiscard(n)
  PROVE  WindowInv'
<1>1. TypeInv'  BY RxType DEF WindowInv, Rx
<1>2. /\ rxpc = "idle" /\ newest - Lag < n /\ latest >= n /\ window[n % WINDOW] = 1
      /\ wronged' = wronged \cup ({n} \ delivered)
      /\ newest' = IF n > newest THEN n ELSE newest
      /\ UNCHANGED <<window, latest, round, lastin, timed, rxpc, rxn, dqueue, before, askedAt,
                     delivered, repeated>>
  BY Numbers DEF RxDiscard, CanArrive, WindowInv, TypeInv, rxVars, scanVars
<1>3. latest \in Nat /\ newest \in Int /\ newest >= -1 /\ n \in Nat /\ WINDOW \in Nat
      /\ askedAt \in Nat /\ ROUND \in Nat /\ ROUND > 0 /\ WINDOW > 0 /\ Lag \in Nat
  BY Numbers, Constants DEF WindowInv, TypeInv
<1>4. latest = IF newest < 0 THEN 0 ELSE newest
  BY <1>2 DEF WindowInv, LatestSound
<1>5. Recent(n)  BY <1>2, <1>3, <1>4 DEF LagFits, Recent
<1>6. n = 0 \/ n \in delivered
  <2>1. n # 0 => n \in 1..latest  BY <1>2, <1>3
  <2>2. QED  BY <1>2, <1>5, <2>1 DEF WindowInv, SlotsTell
<1>7. wronged' \subseteq {0} /\ repeated' = {}  BY <1>2, <1>6 DEF WindowInv
<1>8. SlotsTell'  BY <1>2 DEF WindowInv, SlotsTell, Recent
<1>9. newest' = newest \/ (newest = -1 /\ newest' = 0 /\ latest = 0)
  <2>1. CASE newest < 0
    <3>1. newest = -1 /\ latest = 0 /\ n = 0  BY <1>2, <1>3, <1>4, <2>1
    <3>2. n > newest  BY <3>1
    <3>3. newest' = n  BY <1>2, <3>2
    <3>4. QED  BY <3>1, <3>3
  <2>2. CASE newest >= 0
    <3>1. ~(n > newest)  BY <1>2, <1>3, <1>4, <2>2
    <3>2. newest' = newest  BY <1>2, <1>3, <3>1
    <3>3. QED  BY <3>2
  <2>3. QED  BY <1>3, <2>1, <2>2
<1>10. LatestSound'  BY <1>2, <1>3, <1>4, <1>9 DEF WindowInv, LatestSound
<1>11. RequestSound'  BY <1>2, <1>3, <1>9 DEF WindowInv, RequestSound
<1>12. QED  BY <1>1, <1>7, <1>8, <1>10, <1>11 DEF WindowInv

LEMMA BeginStep ==
  ASSUME NoWrap, LagFits, WindowInv, NEW n \in 0..MaxFrame, RxBegin(n)
  PROVE  WindowInv'
<1>1. TypeInv'  BY RxType DEF WindowInv, Rx
<1>2. /\ rxpc = "idle" /\ newest - Lag < n
      /\ latest < n \/ window[n % WINDOW] # 1
      /\ rxpc' = "accept" /\ rxn' = n
      /\ newest' = IF n > newest THEN n ELSE newest
      /\ UNCHANGED <<window, latest, round, lastin, timed, dqueue, before, askedAt,
                     delivered, repeated, wronged>>
  BY Numbers DEF RxBegin, CanArrive, WindowInv, TypeInv, rxVars, scanVars
<1>3. latest \in Nat /\ newest \in Int /\ newest >= -1 /\ n \in Nat /\ WINDOW \in Nat
      /\ askedAt \in Nat /\ WINDOW > 0 /\ Lag \in Nat
  BY Numbers, Constants DEF WindowInv, TypeInv
<1>4. /\ latest = IF newest < 0 THEN 0 ELSE newest
      /\ delivered \subseteq 0..latest /\ before \subseteq delivered
  BY <1>2 DEF WindowInv, LatestSound
<1>5. latest - WINDOW < n  BY <1>2, <1>3, <1>4 DEF LagFits
<1>6. n \notin delivered
  <2>1. SUFFICES ASSUME n \in delivered PROVE FALSE  OBVIOUS
  <2>2. n \in 0..latest /\ Recent(n)  BY <1>3, <1>4, <1>5, <2>1 DEF Recent
  <2>3. window[n % WINDOW] = 1  BY <2>1, <2>2 DEF WindowInv, SlotsTell
  <2>4. QED  BY <1>2, <1>3, <2>2, <2>3
<1>7. n <= newest' /\ latest <= newest' /\ (latest < newest' => n = newest')
      /\ (newest' = newest \/ newest' = n)
  BY <1>2, <1>3, <1>4
<1>8. SlotsTell'  BY <1>2 DEF WindowInv, SlotsTell, Recent
<1>9. LatestSound'  BY <1>2, <1>4, <1>5, <1>6, <1>7 DEF LatestSound
<1>10. RequestSound'  BY <1>2, <1>7 DEF WindowInv, RequestSound
<1>11. QED  BY <1>1, <1>2, <1>8, <1>9, <1>10 DEF WindowInv

LEMMA AdvanceStep ==
  ASSUME NoWrap, LagFits, WindowInv, RxAdvance
  PROVE  WindowInv'
<1>1. TypeInv'  BY RxType DEF WindowInv, Rx
<1>2. /\ rxpc = "accept" /\ latest < rxn /\ latest' = latest + 1
      /\ window' = [window EXCEPT ![latest' % WINDOW] = 0]
      /\ UNCHANGED <<round, lastin, timed, rxpc, rxn, dqueue, before, newest, askedAt,
                     delivered, repeated, wronged>>
  BY Numbers DEF RxAdvance, WindowInv, TypeInv, history, scanVars
<1>3. latest \in Nat /\ newest \in Int /\ rxn \in Nat /\ WINDOW \in Nat /\ WINDOW > 0
      /\ window \in [-1..WINDOW - 1 -> {0, 1, 2}]
  BY Numbers DEF WindowInv, TypeInv, TypeOK
<1>4. /\ rxn \notin delivered /\ rxn <= newest /\ (latest < newest => rxn = newest)
      /\ delivered \subseteq 0..latest /\ before \subseteq delivered
  BY <1>2 DEF WindowInv, LatestSound
<1>5. latest' \in Nat /\ latest' % WINDOW \in -1..WINDOW - 1  BY <1>2, <1>3, SlotOf
<1>6. window'[latest' % WINDOW] = 0  BY <1>2, <1>3, <1>5
<1>7. ASSUME NEW s \in 0..latest', Recent(s)', s # latest'
      PROVE  s \in 0..latest /\ Recent(s) /\ window'[s % WINDOW] = window[s % WINDOW]
  <2>1. s \in Nat /\ s < latest' /\ latest' < s + WINDOW  BY <1>2, <1>3, <1>5, <1>7 DEF Recent
  <2>2. s % WINDOW # latest' % WINDOW  BY <1>5, <2>1, Apart, Constants
  <2>3. s % WINDOW \in -1..WINDOW - 1  BY <2>1, SlotOf
  <2>4. window'[s % WINDOW] = window[s % WINDOW]  BY <1>2, <1>3, <1>5, <2>2, <2>3
  <2>5. QED  BY <1>2, <1>3, <2>1, <2>4 DEF Recent
<1>8. SlotsTell'
  <2>1. ASSUME NEW s \in 0..latest', Recent(s)', s \in delivered'
        PROVE  window'[s % WINDOW] = 1
    <3>1. s # latest' /\ s \in delivered  BY <1>2, <1>3, <1>4, <2>1
    <3>2. QED  BY <1>7, <2>1, <3>1 DEF WindowInv, SlotsTell
  <2>2. ASSUME NEW s \in 1..latest', Recent(s)'
        PROVE  /\ window'[s % WINDOW] \in {0, 1}
               /\ window'[s % WINDOW] = 1 => s \in delivered'
    <3>1. CASE s = latest'  BY <1>6, <3>1
    <3>2. CASE s # latest'
      <4>1. s \in 0..latest' /\ s > 0  BY <1>5
      <4>2. s \in 0..latest /\ Recent(s) /\ window'[s % WINDOW] = window[s % WINDOW]
        BY <1>7, <2>2, <3>2, <4>1
      <4>3. s \in 1..latest  BY <1>3, <4>1, <4>2
      <4>4. QED  BY <1>2, <4>2, <4>3 DEF WindowInv, SlotsTell
    <3>3. QED  BY <3>1, <3>2
  <2>3. QED  BY <2>1, <2>2 DEF SlotsTell
<1>9. LatestSound'
  <2>1. latest' <= newest /\ latest' - WINDOW < rxn /\ (latest' < newest => rxn = newest)
    BY <1>2, <1>3, <1>4
  <2>2. delivered \subseteq 0..latest'  BY <1>2, <1>3, <1>4
  <2>3. QED  BY <1>2, <1>4, <2>1, <2>2 DEF LatestSound
<1>10. RequestSound'
  <2>1. \A k \in DOMAIN dqueue : dqueue[k] * ROUND <= latest'
    <3>1. SUFFICES ASSUME NEW k \in DOMAIN dqueue PROVE dqueue[k] * ROUND <= latest'  OBVIOUS
    <3>2. dqueue[k] * ROUND <= latest  BY DEF WindowInv, RequestSound
    <3>3. dqueue[k] * ROUND \in Int
      <4>1. dqueue \in Seq(Rounds)  BY DEF WindowInv, TypeInv, TypeOK
      <4> DEFINE q == dqueue[k]
      <4>2. q \in Rounds  BY <4>1, ElementOfSeq
      <4>3. Rounds \subseteq Int  BY Constants DEF Rounds
      <4> HIDE DEF q
      <4>4. q \in Int /\ ROUND \in Int  BY <4>2, <4>3, Constants
      <4>5. q * ROUND \in Int  BY <4>4
      <4>6. QED  BY <4>5 DEF q
    <3>4. QED  BY <1>2, <1>3, <3>2, <3>3
  <2>2. QED  BY <1>2, <2>1 DEF WindowInv, RequestSound
<1>11. QED  BY <1>1, <1>2, <1>8, <1>9, <1>10 DEF WindowInv

LEMMA AcceptStep ==
  ASSUME NoWrap, LagFits, WindowInv, RxAccept
  PROVE  WindowInv'
<1>1. TypeInv'  BY RxType DEF WindowInv, Rx
<1>2. latest \in Nat /\ newest \in Int /\ rxn \in Nat /\ seq = rxn /\ WINDOW \in Nat /\ WINDOW > 0
      /\ window \in [-1..WINDOW - 1 -> {0, 1, 2}] /\ ROUND \in Nat /\ ROUND > 0 /\ askedAt \in Nat
  BY Numbers DEF WindowInv, TypeInv, TypeOK
<1>3. /\ rxpc = "accept" /\ latest >= rxn /\ timed' = NextTimed /\ lastin' = rxn
      /\ window' = IF Marks THEN [window EXCEPT ![rxn % WINDOW] = 1] ELSE window
      /\ IF RoundComplete
           THEN dqueue' = Append(dqueue, rxn \div ROUND) /\ round' = rxn /\ askedAt' = rxn
           ELSE UNCHANGED <<dqueue, round, askedAt>>
      /\ delivered' = delivered \cup {rxn} /\ repeated' = repeated \cup ({rxn} \cap delivered)
      /\ rxpc' = "idle"
      /\ UNCHANGED <<latest, before, newest, wronged>>
  BY <1>2 DEF RxAccept, scanVars
<1>4. /\ rxn \notin delivered /\ latest - WINDOW < rxn /\ rxn <= newest
      /\ latest <= newest /\ (latest < newest => rxn = newest)
      /\ delivered \subseteq 0..latest /\ before \subseteq delivered
  BY <1>3 DEF WindowInv, LatestSound
<1>5. latest = newest  BY <1>2, <1>3, <1>4
<1>6. Marks
  <2>1. latest >= WINDOW => latest % WINDOW <= latest - WINDOW  BY <1>2, SlotOf
  <2>2. latest % WINDOW \in Int  BY <1>2, SlotOf
  <2>3. QED  BY <1>2, <1>4, <2>1, <2>2 DEF Marks
<1>7. rxn % WINDOW \in -1..WINDOW - 1  BY <1>2, SlotOf
<1>8. window' = [window EXCEPT ![rxn % WINDOW] = 1]  BY <1>3, <1>6
<1>9. ASSUME NEW s \in 0..latest, Recent(s), s # rxn
      PROVE  window'[s % WINDOW] = window[s % WINDOW]
  <2>1. s \in Nat /\ ((s < rxn /\ rxn < s + WINDOW) \/ (rxn < s /\ s < rxn + WINDOW))
    BY <1>2, <1>3, <1>4, <1>9 DEF Recent
  <2>2. s % WINDOW # rxn % WINDOW  BY <1>2, <2>1, Apart, Constants
  <2>3. s % WINDOW \in -1..WINDOW - 1  BY SlotOf
  <2>4. QED  BY <1>2, <1>7, <1>8, <2>2, <2>3
<1>10. window'[rxn % WINDOW] = 1  BY <1>2, <1>7, <1>8
<1>11. SlotsTell'
  <2>1. ASSUME NEW s \in 0..latest, Recent(s), s \in delivered'
        PROVE  window'[s % WINDOW] = 1
    <3>1. CASE s = rxn  BY <1>10, <3>1
    <3>2. CASE s # rxn
      <4>1. s \in delivered  BY <1>3, <2>1, <3>2
      <4>2. QED  BY <1>9, <2>1, <3>2, <4>1 DEF WindowInv, SlotsTell
    <3>3. QED  BY <3>1, <3>2
  <2>2. ASSUME NEW s \in 1..latest, Recent(s)
        PROVE  window'[s % WINDOW] \in {0, 1} /\ (window'[s % WINDOW] = 1 => s \in delivered')
    <3>1. CASE s = rxn  BY <1>3, <1>10, <3>1
    <3>2. CASE s # rxn
      <4>1. s \in 0..latest  BY <1>2
      <4>2. window'[s % WINDOW] = window[s % WINDOW]  BY <1>9, <2>2, <3>2, <4>1
      <4>3. QED  BY <1>3, <2>2, <4>2 DEF WindowInv, SlotsTell
    <3>3. QED  BY <3>1, <3>2
  <2>3. \A s : Recent(s)' <=> Recent(s)  BY <1>3 DEF Recent
  <2>4. QED  BY <1>3, <2>1, <2>2, <2>3 DEF SlotsTell
<1>12. LatestSound'
  <2>1. latest = IF newest < 0 THEN 0 ELSE newest  BY <1>2, <1>5
  <2>2. delivered' \subseteq 0..latest  BY <1>2, <1>3, <1>4
  <2>3. QED  BY <1>3, <1>4, <2>1, <2>2 DEF LatestSound
<1>13. RequestSound'
  <2>1. round = askedAt /\ (newest = rxn \/ newest < askedAt + ROUND)
    BY <1>3 DEF WindowInv, RequestSound
  <2>2. RoundComplete <=> askedAt <= rxn - ROUND  BY <1>2, <2>1 DEF RoundComplete
  <2>3. round' = askedAt' /\ newest' < askedAt' + ROUND
    BY <1>2, <1>3, <1>4, <2>1, <2>2
  <2>4. timed' # 0 /\ (timed' = 1 => delivered' = {lastin'})
    BY <1>3 DEF NextTimed, WindowInv, TypeInv, TypeOK, RequestSound
  <2>5. \A k \in DOMAIN dqueue' : dqueue'[k] * ROUND <= latest
    <3>1. \A k \in DOMAIN dqueue : dqueue[k] * ROUND <= latest
      BY DEF WindowInv, RequestSound
    <3>2. dqueue \in Seq(Rounds)  BY DEF WindowInv, TypeInv, TypeOK
    <3>3. CASE dqueue' = dqueue  BY <3>1, <3>3
    <3>4. CASE dqueue' = Append(dqueue, rxn \div ROUND)
      <4> DEFINE q == rxn \div ROUND
      <4>1. q * ROUND <= rxn /\ q \in Nat  BY <1>2, WholeRounds
      <4>2. dqueue' = Append(dqueue, q)  BY <3>4
      <4> HIDE DEF q
      <4>3. q * ROUND <= latest  BY <1>2, <1>3, <4>1
      <4>4. \A k \in DOMAIN dqueue' : dqueue'[k] = q \/ (k \in DOMAIN dqueue /\ dqueue'[k] = dqueue[k])
        BY <3>2, <4>2
      <4>5. QED  BY <3>1, <4>3, <4>4
    <3>5. QED  BY <1>3, <3>3, <3>4
  <2>6. QED  BY <1>3, <2>3, <2>4, <2>5 DEF RequestSound
<1>14. repeated' = {} /\ wronged' \subseteq {0}  BY <1>3, <1>4 DEF WindowInv
<1>15. QED  BY <1>1, <1>11, <1>12, <1>13, <1>14 DEF WindowInv

LEMMA PrepWindow == ASSUME WindowInv, Prep PROVE WindowInv'
<1>1. TypeInv'  BY PrepType DEF WindowInv
<1>2. UNCHANGED <<window, latest, round, lastin, timed, rxpc, rxn, newest, askedAt, delivered,
                  repeated, wronged>> /\ before' \in {before, delivered, {}}
      /\ dqueue' \in {dqueue, Tail(dqueue)} /\ (dqueue' = dqueue \/ dqueue # <<>>)
  BY DEF Prep, PrepBegin, PrepReceived, PrepLost, PrepBack, PrepForward, PrepBuilt, PrepEnd,
         rxVars, history, WindowInv, TypeInv, ScanPlace
<1>3. SlotsTell' /\ LatestSound'
  BY <1>2 DEF WindowInv, SlotsTell, LatestSound, Recent
<1>4. \A k \in DOMAIN dqueue' : dqueue'[k] * ROUND <= latest
  <2>1. \A k \in DOMAIN dqueue : dqueue[k] * ROUND <= latest  BY DEF WindowInv, RequestSound
  <2>2. dqueue \in Seq(Rounds)  BY DEF WindowInv, TypeInv, TypeOK
  <2>3. CASE dqueue' = dqueue  BY <2>1, <2>3
  <2>4. CASE dqueue # <<>> /\ dqueue' = Tail(dqueue)
    <3>1. \A k \in DOMAIN dqueue' : k + 1 \in DOMAIN dqueue /\ dqueue'[k] = dqueue[k + 1]
      BY <2>2, <2>4
    <3>2. QED  BY <2>1, <3>1
  <2>5. QED  BY <1>2, <2>3, <2>4
<1>5. RequestSound'  BY <1>2, <1>4 DEF WindowInv, RequestSound
<1>6. QED  BY <1>1, <1>2, <1>3, <1>5 DEF WindowInv

LEMMA NextWindow == ASSUME NoWrap, LagFits, WindowInv, [Next]_vars PROVE WindowInv'
<1>1. CASE UNCHANGED vars
  <2>1. TypeInv'  BY <1>1, NextType DEF WindowInv
  <2>2. SlotsTell' /\ LatestSound' /\ RequestSound' /\ repeated' = {} /\ wronged' \subseteq {0}
    BY <1>1 DEF vars, rxVars, scanVars, history, WindowInv, SlotsTell, LatestSound,
                RequestSound, Recent
  <2>3. QED  BY <2>1, <2>2 DEF WindowInv
<1>2. QED
  BY <1>1, DiscardStep, BeginStep, AdvanceStep, AcceptStep, PrepWindow DEF Next, Rx

(* However the medium repeats and reorders the frames of a stream, the     *)
(* window tells delivered frames from missing ones, nothing is handed to   *)
(* the user process twice and nothing but frame 0 is freed as a repetition *)
(* that was not one (rx.c:145-147, 277-294).                               *)
THEOREM WindowSoundHolds == ASSUME NoWrap, LagFits PROVE Spec => []WindowSound
<1>1. Init => WindowInv  BY InitWindow
<1>2. WindowInv /\ [Next]_vars => WindowInv'  BY NextWindow
<1>3. WindowInv => WindowSound
  <2> SUFFICES ASSUME WindowInv PROVE WindowSound  OBVIOUS
  <2>1. latest \in Nat  BY Constants DEF WindowInv, TypeInv, TypeOK
  <2>2. \A s \in 1..latest : s \in 0..latest  BY <2>1
  <2>3. QED  BY <2>2 DEF WindowInv, SlotsTell, WindowSound
<1>4. QED  BY <1>1, <1>2, <1>3, PTL DEF Spec

(* The newest frame is never a whole round ahead of the last request, and  *)
(* alpha is never computed from one frame twice (rx.c:163-166, 296-312).   *)
THEOREM RoundsSoundHolds == ASSUME NoWrap, LagFits PROVE Spec => []RoundsSound
<1>1. Init => WindowInv  BY InitWindow
<1>2. WindowInv /\ [Next]_vars => WindowInv'  BY NextWindow
<1>3. WindowInv => RoundsSound
  <2> SUFFICES ASSUME WindowInv PROVE RoundsSound  OBVIOUS
  <2>1. seq = rxn  BY Numbers DEF WindowInv, TypeInv
  <2>2. RoundAskedFor  BY DEF WindowInv, RequestSound, RoundAskedFor
  <2>3. rxpc = "accept" /\ timed = 1 => rxn # lastin
    BY DEF WindowInv, LatestSound, RequestSound
  <2>4. QED  BY <2>1, <2>2, <2>3 DEF RoundsSound
<1>4. QED  BY <1>1, <1>2, <1>3, PTL DEF Spec

----------------------------------------------------------------------------
(* The reports.                                                            *)

(* The frames a list of holes asks for, with one hole more.                *)
LEMMA CoveredMore ==
  ASSUME NEW H, NEW hs \in Seq(H), NEW h
  PROVE  Covered(Append(hs, h)) = Covered(hs) \cup (h.le .. h.re - 1)
<1> DEFINE more == Append(hs, h)
<1>1. /\ DOMAIN more = DOMAIN hs \cup {Len(hs) + 1} /\ more[Len(hs) + 1] = h
      /\ \A k \in DOMAIN hs : more[k] = hs[k]
  OBVIOUS
<1> HIDE DEF more
<1>2. Covered(more) = Covered(hs) \cup (h.le .. h.re - 1)  BY <1>1 DEF Covered
<1>3. QED  BY <1>2 DEF more

Hole == [le : 0..SeqMod - 1, re : 0..SeqMod - 1]

(* Where the scan is.                                                      *)
LEMMA PrepPlace ==
  ASSUME TypeInv, genpc # "idle"
  PROVE  /\ dqueue # <<>> /\ lattmp \in Nat /\ lattmp <= SeqMod - 1
         /\ ScanStart(lattmp) \in Nat /\ i \in Nat /\ tmp \in Nat /\ loss \in Nat
         /\ ScanStart(lattmp) <= i /\ i <= lattmp
         /\ genpc \in {"back", "fwd"} => /\ i < lattmp /\ Len(holes) < HOLES_MAX
                                         /\ ScanStart(lattmp) <= tmp /\ tmp <= i
         /\ holes \in Seq(Hole) /\ Len(holes) \in Nat
         /\ \A k \in DOMAIN holes : holes[k].le \in Int /\ holes[k].re \in Int
<1>1. TypeOK /\ ScanPlace /\ dqueue # <<>>  BY DEF TypeInv, ScanPlace
<1>2. holes \in Seq(Hole)  BY <1>1 DEF TypeOK, Hole
<1>3. \A k \in DOMAIN holes : holes[k] \in Hole  BY <1>2, ElementOfSeq
<1>4. Hole \subseteq [le : Int, re : Int]  BY Constants DEF Hole
<1>5. i \in Nat /\ tmp \in Nat /\ loss \in Nat  BY <1>1, Constants DEF TypeOK
<1>6. QED  BY <1>1, <1>2, <1>3, <1>4, <1>5, ScanBounds, LenProperties DEF ScanPlace

(* vmac_rx leaves the scan where it is; it may change what is ahead.       *)
LEMMA RxScan ==
  ASSUME TypeInv, Rx
  PROVE  /\ UNCHANGED <<genpc, i, tmp, loss, holes, before>>
         /\ genpc # "idle" => lattmp' = lattmp
         /\ quiet' => quiet /\ window' = window
<1>1. UNCHANGED <<genpc, i, tmp, loss, holes, before>>
  BY DEF Rx, RxDiscard, RxBegin, RxAdvance, RxAccept, scanVars
<1>2. dqueue' = dqueue \/ dqueue' = Append(dqueue, seq \div ROUND)
  BY DEF Rx, RxDiscard, RxBegin, RxAdvance, RxAccept
<1>3. genpc # "idle" => lattmp' = lattmp  BY <1>2, CurKeeps DEF TypeInv, ScanPlace
<1>4. quiet' => quiet /\ window' = window
  BY DEF Rx, RxDiscard, RxBegin, RxAdvance, RxAccept, rxVars
<1>5. QED  BY <1>1, <1>3, <1>4

(* A step of the scan itself.                                              *)
LEMMA PrepScan ==
  ASSUME PrepReceived \/ PrepLost \/ PrepBack \/ PrepForward \/ PrepBuilt
  PROVE  /\ UNCHANGED <<window, dqueue, quiet>> /\ lattmp' = lattmp
         /\ genpc \in {"test", "back", "fwd"} /\ genpc' \in {"test", "back", "fwd", "built"}
  BY DEF PrepReceived, PrepLost, PrepBack, PrepForward, PrepBuilt, rxVars, lattmp, cur

(* prepDACK's list never outgrows a DACK, and stays behind the scan.       *)
LEMMA NextList == ASSUME TypeInv, ListSound, [Next]_vars PROVE ListSound'
<1>1. CASE UNCHANGED vars
  BY <1>1 DEF vars, scanVars, ListSound, lattmp, cur
<1>2. CASE Rx
  BY <1>2, RxScan DEF ListSound
<1>3. CASE PrepEnd
  BY <1>3 DEF PrepEnd, ListSound
<1>4. CASE PrepBegin
  <2>1. genpc' = "test" /\ holes' = <<>>  BY <1>4 DEF PrepBegin
  <2>2. DOMAIN holes' = {} /\ Len(holes') = 0 /\ 0 <= HOLES_MAX  BY <2>1, Constants
  <2>3. QED  BY <2>1, <2>2 DEF ListSound
<1>5. ASSUME PrepReceived \/ PrepLost \/ PrepBack \/ PrepForward \/ PrepBuilt
      PROVE  ListSound'
  <2>1. genpc # "idle" /\ lattmp' = lattmp  BY <1>5, PrepScan
  <2>2. /\ Len(holes) <= HOLES_MAX /\ HOLES_MAX \in Nat
        /\ \A k \in DOMAIN holes : holes[k].re < lattmp /\ holes[k].re < i
    BY <2>1, Constants DEF ListSound
  <2>3. /\ i \in Nat /\ lattmp \in Nat /\ i <= lattmp /\ Len(holes) \in Nat
        /\ \A k \in DOMAIN holes : holes[k].re \in Int
    BY <2>1, PrepPlace
  <2>4. \A k \in DOMAIN holes : holes[k].re < lattmp /\ holes[k].re < i + 1
    BY <2>2, <2>3
  <2>5. CASE PrepReceived
    BY <2>1, <2>2, <2>4, <2>5 DEF PrepReceived, ListSound
  <2>6. CASE PrepLost \/ PrepBack
    BY <2>1, <2>2, <2>6 DEF PrepLost, PrepBack, ListSound
  <2>7. CASE PrepForward
    <3>1. /\ genpc = "fwd" /\ i' = i + 1 /\ genpc' # "built"
          /\ holes' \in {holes, Append(holes, [le |-> tmp, re |-> i])}
      BY <2>7 DEF PrepForward
    <3>2. i < lattmp /\ Len(holes) < HOLES_MAX /\ holes \in Seq(Hole)
      BY <2>1, <3>1, PrepPlace
    <3>3. CASE holes' = holes  BY <2>1, <2>2, <2>4, <3>1, <3>3 DEF ListSound
    <3>4. CASE holes' = Append(holes, [le |-> tmp, re |-> i])
      <4>1. /\ DOMAIN holes' = DOMAIN holes \cup {Len(holes) + 1}
            /\ holes'[Len(holes) + 1].re = i /\ Len(holes') = Len(holes) + 1
            /\ \A k \in DOMAIN holes : holes'[k] = holes[k]
        BY <3>2, <3>4
      <4>2. \A k \in DOMAIN holes' : holes'[k].re < lattmp /\ holes'[k].re < i'
        BY <2>3, <2>4, <3>1, <3>2, <4>1
      <4>3. Len(holes') <= HOLES_MAX  BY <2>2, <2>3, <3>2, <4>1
      <4>4. QED  BY <2>1, <3>1, <4>2, <4>3 DEF ListSound
    <3>5. QED  BY <3>1, <3>3, <3>4
  <2>8. CASE PrepBuilt
    <3>1. genpc' = "built" /\ UNCHANGED <<i, holes>>
          /\ ~(i < lattmp /\ Len(holes) < HOLES_MAX)
      BY <2>8 DEF PrepBuilt, ScanGoesOn
    <3>2. i = lattmp \/ Len(holes) = HOLES_MAX  BY <2>2, <2>3, <3>1
    <3>3. QED  BY <2>1, <2>2, <3>1, <3>2 DEF ListSound
  <2>9. QED  BY <1>5, <2>5, <2>6, <2>7, <2>8
<1>6. QED  BY <1>1, <1>2, <1>3, <1>4, <1>5 DEF Next, Prep

(* Where the scan is, within what the window has seen.                     *)
LEMMA ScanSeen ==
  ASSUME NoWrap, WindowInv, genpc # "idle"
  PROVE  /\ lattmp \in Nat /\ lattmp <= latest /\ latest \in Nat
         /\ ScanStart(lattmp) \in Nat /\ i \in Nat /\ tmp \in Nat
         /\ ScanStart(lattmp) <= i /\ i <= lattmp
         /\ genpc \in {"back", "fwd"} => i < lattmp /\ tmp <= i /\ Len(holes) < HOLES_MAX
         /\ holes \in Seq([le : 0..SeqMod - 1, re : 0..SeqMod - 1])
<1>1. TypeOK /\ ScanPlace /\ dqueue # <<>>  BY DEF WindowInv, TypeInv, ScanPlace
<1>2. /\ cur = dqueue[1] /\ 1 \in DOMAIN dqueue
      /\ lattmp \in Nat /\ ScanStart(lattmp) \in Nat
  BY <1>1, ScanBounds
<1>3. dqueue[1] * ROUND <= latest  BY <1>2 DEF WindowInv, RequestSound
<1>4. lattmp <= latest  BY <1>2, <1>3 DEF lattmp
<1>5. QED  BY <1>1, <1>2, <1>4, Constants DEF TypeOK, ScanPlace

(* What a slot read tells of a frame the window still speaks for.          *)
LEMMA ReadSlot ==
  ASSUME WindowInv, latest \in Nat, NEW s \in 0..latest
  PROVE  /\ Lost(window, s) => Unheard(s)
         /\ ~Lost(window, s) /\ Recent(s) /\ s # 0 => s \in delivered
<1>1. ASSUME Lost(window, s) PROVE Unheard(s)
  <2>1. SUFFICES ASSUME Recent(s), s \in before PROVE FALSE  BY DEF Unheard
  <2>2. s \in delivered  BY <2>1 DEF WindowInv, LatestSound
  <2>3. window[s % WINDOW] = 1  BY <2>1, <2>2 DEF WindowInv, SlotsTell
  <2>4. QED  BY <1>1, <2>3 DEF Lost
<1>2. ASSUME ~Lost(window, s), Recent(s), s # 0 PROVE s \in delivered
  <2>1. s \in 1..latest  BY <1>2
  <2>2. QED  BY <1>2, <2>1 DEF WindowInv, SlotsTell, Lost
<1>3. QED  BY <1>1, <1>2

(* The word in front of a slot is the slot of the frame before, unless it  *)
(* is the word in front of the window.                                     *)
LEMMA SlotBefore ==
  ASSUME NEW s \in Nat, s > 0, LostBefore(window, s), s < WINDOW \/ window[-1] # 0
  PROVE  Lost(window, s - 1)
<1> DEFINE q == s \div WINDOW
           r == s % WINDOW
<1>1. WINDOW \in Nat \ {0}  BY Constants
<1>2. q \in Nat /\ r \in 0..WINDOW - 1 /\ s = WINDOW * q + r  BY <1>1, DivMod
<1>3. s < WINDOW => r = s  BY <1>1
<1>4. r # 0
  <2>1. SUFFICES ASSUME r = 0 PROVE FALSE  OBVIOUS
  <2>2. window[0 - 1] = 0  BY <2>1 DEF LostBefore
  <2>3. 0 - 1 = -1  OBVIOUS
  <2>4. QED  BY <1>3, <2>1, <2>2, <2>3
<1>5. (s - 1) % WINDOW = r - 1
  <2> HIDE DEF q, r
  <2>1. s - 1 = WINDOW * q + (r - 1) /\ r - 1 \in 0..WINDOW - 1  BY <1>1, <1>2, <1>4
  <2>2. (WINDOW * q + (r - 1)) % WINDOW = r - 1  BY <1>1, <1>2, <2>1
  <2>3. QED  BY <2>1, <2>2
<1>6. QED  BY <1>5 DEF Lost, LostBefore

LEMMA RxReport == ASSUME NoWrap, LagFits, ReportInv, Rx PROVE ReportInv'
<1>1. WindowInv /\ WindowInv'
  BY DiscardStep, BeginStep, AdvanceStep, AcceptStep DEF ReportInv, Rx
<1>2. UNCHANGED <<genpc, i, tmp, holes, before>>
      /\ (dqueue' = dqueue \/ dqueue' = Append(dqueue, seq \div ROUND))
  BY DEF Rx, RxDiscard, RxBegin, RxAdvance, RxAccept, scanVars
<1>3. latest \in Nat /\ latest' \in Nat /\ latest' >= latest /\ WINDOW \in Nat
  <2>1. latest \in Nat /\ WINDOW \in Nat  BY <1>1, Constants DEF WindowInv, TypeInv, TypeOK
  <2>2. latest' \in {latest, latest + 1}
    BY DEF Rx, RxDiscard, RxBegin, RxAdvance, RxAccept, rxVars
  <2>3. QED  BY <2>1, <2>2
<1>4. delivered \subseteq delivered'
  BY DEF Rx, RxDiscard, RxBegin, RxAdvance, RxAccept, history
<1>5. window'[-1] = window[-1]
  <2>1. latest + 1 \in Nat /\ seq \in Nat  BY <1>1, <1>3, SeqTyped DEF WindowInv, TypeInv
  <2>2. window \in [-1..WINDOW - 1 -> {0, 1, 2}] /\ -1 \in -1..WINDOW - 1
    BY <1>1, <1>3 DEF WindowInv, TypeInv, TypeOK
  <2>3. \A n \in Nat : n % WINDOW # -1
    <3>1. SUFFICES ASSUME NEW n \in Nat PROVE n % WINDOW # -1  OBVIOUS
    <3>2. n % WINDOW \in 0..WINDOW - 1  BY SlotOf
    <3>3. QED  BY <1>3, <3>2
  <2>4. (latest + 1) % WINDOW # -1 /\ seq % WINDOW # -1  BY <2>1, <2>3
  <2>5. window' \in {window, [window EXCEPT ![(latest + 1) % WINDOW] = 0],
                             [window EXCEPT ![seq % WINDOW] = 1]}
    BY DEF Rx, RxDiscard, RxBegin, RxAdvance, RxAccept, rxVars
  <2>6. QED  BY <2>2, <2>4, <2>5
<1>6. ListSound'  BY NextList DEF ReportInv, WindowInv, Next
<1>7. CASE genpc = "idle"
  BY <1>1, <1>2, <1>6, <1>7 DEF ReportInv, HolesUnheard, Passed
<1>8. CASE genpc # "idle"
  <2>1. dqueue # <<>> /\ TypeOK  BY <1>1, <1>8 DEF WindowInv, TypeInv, ScanPlace
  <2>2. lattmp' = lattmp  BY <1>2, <2>1, CurKeeps
  <2>3. lattmp \in Nat /\ lattmp <= latest /\ i \in Nat /\ tmp \in Nat /\ i <= lattmp
        /\ ScanStart(lattmp) \in Nat
        /\ holes \in Seq([le : 0..SeqMod - 1, re : 0..SeqMod - 1])
    BY <1>1, <1>8, ScanSeen
  <2>4. \A s \in Int : s < lattmp /\ Recent(s)' => Recent(s)
    <3> SUFFICES ASSUME NEW s \in Int, s < lattmp, Recent(s)' PROVE Recent(s)  OBVIOUS
    <3>1. s < latest  BY <1>3, <2>3
    <3>2. latest' - WINDOW < s  BY DEF Recent
    <3>3. \A a, b \in Nat, c \in Nat : a <= b /\ b - c < s => a - c < s  OBVIOUS
    <3>4. latest - WINDOW < s  BY <1>3, <3>2, <3>3
    <3>5. QED  BY <1>3, <3>1, <3>4 DEF Recent
  <2>5. \A s \in Int : s < lattmp /\ Unheard(s) => Unheard(s)'
    BY <1>2, <2>4 DEF Unheard
  <2>6. \A s \in Covered(holes) : s \in Int /\ s < lattmp
    <3>1. SUFFICES ASSUME NEW k \in DOMAIN holes, NEW s \in holes[k].le .. holes[k].re - 1
                   PROVE  s \in Int /\ s < lattmp
      BY DEF Covered
    <3>2. holes[k].re < lattmp  BY <1>8 DEF ReportInv, ListSound
    <3>3. holes[k].le \in Int /\ holes[k].re \in Int  BY <1>1, <1>8, PrepPlace DEF WindowInv
    <3>4. QED  BY <2>3, <3>2, <3>3
  <2>7. HolesUnheard'
    <3>1. WordInFrontUnused' => WordInFrontUnused
      BY <1>5, <2>2 DEF WordInFrontUnused
    <3>2. \A s \in tmp..i - 1 : s \in Int /\ s < lattmp  BY <2>3
    <3>3. QED  BY <1>2, <1>8, <2>5, <2>6, <3>1, <3>2 DEF ReportInv, HolesUnheard
  <2>8. Passed'
    <3>1. \A s \in ScanStart(lattmp)..i - 1 : s \in Int /\ s < lattmp  BY <2>3
    <3>2. \A s \in Int : s < lattmp /\ Missed(s)' => Missed(s)
      BY <1>4, <2>2, <2>4 DEF Missed
    <3>3. ScanStart(lattmp)' = ScanStart(lattmp)  BY <2>2 DEF ScanStart
    <3>4. QED  BY <1>2, <1>8, <3>1, <3>2, <3>3 DEF ReportInv, Passed
  <2>9. QED  BY <1>1, <1>6, <2>7, <2>8 DEF ReportInv
<1>9. QED  BY <1>7, <1>8

LEMMA PrepReport == ASSUME NoWrap, LagFits, ReportInv, Prep PROVE ReportInv'
<1> DEFINE S0 == ScanStart(lattmp)
           L  == lattmp
<1>1. WindowInv /\ WindowInv'  BY PrepWindow DEF ReportInv
<1>2. ListSound'  BY NextList DEF ReportInv, WindowInv, Next
<1>3. HOLES_MAX \in Nat /\ HOLES_MAX > 0 /\ WINDOW \in Nat  BY Constants
<1>4. CASE PrepEnd
  <2>1. genpc' = "idle"  BY <1>4 DEF PrepEnd
  <2>2. QED  BY <1>1, <1>2, <2>1 DEF ReportInv, HolesUnheard, Passed
<1>5. CASE PrepBegin
  <2>1. genpc' = "test" /\ i' = S0 /\ holes' = <<>> /\ L' = L /\ S0' = S0
    BY <1>5 DEF PrepBegin, lattmp, cur
  <2>2. Covered(<<>>) = {}  BY DEF Covered
  <2>3. HolesUnheard'  BY <2>1, <2>2 DEF HolesUnheard
  <2>4. S0 \in Nat
    <3>1. dqueue # <<>> /\ TypeOK  BY <1>1, <1>5 DEF PrepBegin, WindowInv, TypeInv
    <3>2. QED  BY <3>1, ScanBounds
  <2>5. Passed'
    <3>1. S0..S0 - 1 = {}  BY <2>4
    <3>2. ScanStart(lattmp)'..i' - 1 = {}  BY <2>1, <3>1
    <3>3. QED  BY <3>2 DEF Passed
  <2>6. QED  BY <1>1, <1>2, <2>3, <2>5 DEF ReportInv
<1>6. ASSUME PrepReceived \/ PrepLost \/ PrepBack \/ PrepForward \/ PrepBuilt
      PROVE  ReportInv'
  <2>1. /\ genpc \in {"test", "back", "fwd"}
        /\ UNCHANGED <<window, latest, dqueue, before, delivered>>
    BY <1>6 DEF PrepReceived, PrepLost, PrepBack, PrepForward, PrepBuilt, rxVars, history
  <2>2. /\ L' = L /\ S0' = S0 /\ WordInFrontUnused' = WordInFrontUnused
        /\ \A s : Unheard(s)' = Unheard(s) /\ Missed(s)' = Missed(s)
    BY <2>1 DEF lattmp, cur, ScanStart, WordInFrontUnused, Unheard, Missed, Recent
  <2>3. /\ L \in Nat /\ L <= latest /\ latest \in Nat /\ S0 \in Nat /\ i \in Nat /\ tmp \in Nat
        /\ S0 <= i /\ i <= L
        /\ genpc \in {"back", "fwd"} => i < L /\ tmp <= i /\ Len(holes) < HOLES_MAX
        /\ holes \in Seq([le : 0..SeqMod - 1, re : 0..SeqMod - 1]) /\ Len(holes) \in Nat
    BY <1>1, <2>1, ScanSeen, LenProperties
  <2>4. /\ WordInFrontUnused =>
             /\ \A s \in Covered(holes) : Unheard(s)
             /\ genpc \in {"back", "fwd"} => \A s \in tmp..i - 1 : Unheard(s)
        /\ \A s \in S0..i - 1 : Missed(s) =>
             s \in Covered(holes) \/ (genpc \in {"back", "fwd"} /\ tmp <= s)
    BY <2>1 DEF ReportInv, HolesUnheard, Passed
  <2>5. ASSUME NEW s \in 0..latest
        PROVE  /\ Lost(window, s) => Unheard(s)
               /\ ~Lost(window, s) => ~Missed(s)
    BY <1>1, <2>3, ReadSlot DEF Missed
  <2> HIDE DEF S0, L
  <2>6. SUFFICES
      /\ WordInFrontUnused =>
           /\ \A s \in Covered(holes') : Unheard(s)
           /\ genpc' \in {"back", "fwd"} => \A s \in tmp'..i' - 1 : Unheard(s)
      /\ \A s \in S0..i' - 1 : Missed(s) =>
           s \in Covered(holes') \/ (genpc' \in {"back", "fwd"} /\ tmp' <= s)
    <3>1. HolesUnheard'  BY <2>2, <2>6 DEF HolesUnheard
    <3>2. Passed'  BY <2>2, <2>6 DEF Passed, S0
    <3>3. QED  BY <1>1, <1>2, <3>1, <3>2 DEF ReportInv
  <2>7. CASE PrepReceived
    <3>1. i < L /\ ~Lost(window, i) /\ i' = i + 1 /\ genpc = "test" /\ UNCHANGED <<genpc, holes>>
      BY <2>7 DEF PrepReceived, ScanGoesOn, L
    <3>2. ~Missed(i)  BY <2>3, <2>5, <3>1
    <3>3. \A s \in S0..i' - 1 : s = i \/ s \in S0..i - 1  BY <2>3, <3>1
    <3>4. QED  BY <2>4, <3>1, <3>2, <3>3
  <2>8. CASE PrepLost
    <3>1. /\ genpc = "test" /\ genpc' = "back" /\ tmp' = i /\ UNCHANGED <<i, holes>>
      BY <2>8 DEF PrepLost
    <3>2. i..i - 1 = {}  BY <2>3
    <3>3. QED  BY <2>4, <3>1, <3>2
  <2>9. CASE PrepBack
    <3>1. /\ genpc = "back" /\ UNCHANGED <<i, holes>>
          /\ \/ GoesBack /\ tmp' = tmp - 1 /\ genpc' = "back"
             \/ tmp' = tmp /\ genpc' = "fwd"
      BY <2>9 DEF PrepBack
    <3>2. CASE GoesBack /\ tmp' = tmp - 1 /\ genpc' = "back"
      <4>1. LostBefore(window, tmp) /\ tmp > 0  BY <3>2 DEF GoesBack
      <4>2. WordInFrontUnused => Unheard(tmp - 1)
        <5>1. SUFFICES ASSUME WordInFrontUnused PROVE Unheard(tmp - 1)  OBVIOUS
        <5>2. tmp < WINDOW \/ window[-1] # 0
          BY <1>3, <2>3, <3>1, <5>1 DEF WordInFrontUnused, L
        <5>3. Lost(window, tmp - 1)  BY <2>3, <4>1, <5>2, SlotBefore
        <5>4. tmp - 1 \in 0..latest  BY <2>3, <3>1, <4>1
        <5>5. QED  BY <2>5, <5>3, <5>4
      <4>3. \A s \in tmp'..i - 1 : s = tmp - 1 \/ s \in tmp..i - 1  BY <2>3, <3>2
      <4>4. \A s \in S0..i - 1 : tmp <= s => tmp' <= s  BY <2>3, <3>2
      <4>5. QED  BY <2>4, <3>1, <3>2, <4>2, <4>3, <4>4
    <3>3. CASE tmp' = tmp /\ genpc' = "fwd"
      BY <2>4, <3>1, <3>3
    <3>4. QED  BY <3>1, <3>2, <3>3
  <2>10. CASE PrepForward
    <3>1. /\ genpc = "fwd" /\ i' = i + 1 /\ tmp' = tmp
          /\ \/ Lost(window, i) /\ i < L - 1 /\ UNCHANGED <<genpc, holes>>
             \/ /\ ~(Lost(window, i) /\ i < L - 1)
                /\ holes' = Append(holes, [le |-> tmp, re |-> i]) /\ genpc' = "test"
      BY <2>10 DEF PrepForward, L
    <3>2. i < L /\ tmp <= i /\ i \in 0..latest /\ Len(holes) < HOLES_MAX  BY <2>3, <3>1
    <3>3. CASE Lost(window, i) /\ i < L - 1 /\ UNCHANGED <<genpc, holes>>
      <4>1. Unheard(i)  BY <2>5, <3>2, <3>3
      <4>2. \A s \in tmp..i' - 1 : s = i \/ s \in tmp..i - 1  BY <2>3, <3>1
      <4>3. \A s \in S0..i' - 1 : s = i \/ s \in S0..i - 1  BY <2>3, <3>1
      <4>4. QED  BY <2>4, <3>1, <3>2, <3>3, <4>1, <4>2, <4>3
    <3>4. CASE /\ ~(Lost(window, i) /\ i < L - 1)
               /\ holes' = Append(holes, [le |-> tmp, re |-> i]) /\ genpc' = "test"
      <4> DEFINE h == [le |-> tmp, re |-> i]
      <4>1. Covered(holes') = Covered(holes) \cup (tmp..i - 1)
        <5>1. Covered(Append(holes, h)) = Covered(holes) \cup (h.le .. h.re - 1)
          BY <2>3, CoveredMore
        <5>2. QED  BY <3>4, <5>1
      <4>2. ~Missed(i)
        <5>1. CASE ~Lost(window, i)  BY <2>5, <3>2, <5>1
        <5>2. CASE ~(i < L - 1)
          <6>1. i = L - 1  BY <2>3, <3>2, <5>2
          <6>2. QED  BY <6>1 DEF Missed, L
        <5>3. QED  BY <3>4, <5>1, <5>2
      <4>3. \A s \in S0..i' - 1 : s = i \/ (s \in S0..i - 1 /\ (tmp <= s => s \in tmp..i - 1))
        BY <2>3, <3>1
      <4>4. QED  BY <2>4, <3>1, <3>4, <4>1, <4>2, <4>3
    <3>5. QED  BY <3>1, <3>3, <3>4
  <2>11. CASE PrepBuilt
    <3>1. genpc = "test" /\ genpc' = "built" /\ UNCHANGED <<i, tmp, holes>>
      BY <2>11 DEF PrepBuilt
    <3>2. QED  BY <2>4, <3>1
  <2>12. QED  BY <1>6, <2>7, <2>8, <2>9, <2>10, <2>11
<1>7. QED  BY <1>4, <1>5, <1>6 DEF Prep

LEMMA NextReport == ASSUME NoWrap, LagFits, ReportInv, [Next]_vars PROVE ReportInv'
<1>1. CASE UNCHANGED vars
  <2>1. WindowInv'  BY <1>1, NextWindow DEF ReportInv
  <2>2. HolesUnheard' /\ Passed' /\ ListSound'
    BY <1>1 DEF vars, rxVars, scanVars, history, ReportInv, HolesUnheard, Passed, ListSound,
                Unheard, Missed, Recent, WordInFrontUnused, lattmp, cur
  <2>3. QED  BY <2>1, <2>2 DEF ReportInv
<1>2. QED  BY <1>1, RxReport, PrepReport DEF Next

(* A finished report, built while vmac_rx writes the window, asks for no   *)
(* frame that had come when the scan began unless its slot serves a newer  *)
(* one, and for every frame below its reach that is still missing          *)
(* (dack.c:256-283, against dack.c:221).                                   *)
THEOREM ReportCoversHolds == ASSUME NoWrap, LagFits PROVE Spec => []ReportCovers
<1>1. Init => ReportInv
  <2> SUFFICES ASSUME Init PROVE ReportInv  OBVIOUS
  <2>1. genpc = "idle"  BY DEF Init
  <2>2. QED  BY <2>1, InitWindow DEF ReportInv, HolesUnheard, Passed, ListSound
<1>2. ReportInv /\ [Next]_vars => ReportInv'  BY NextReport
<1>3. ReportInv => ReportCovers
  <2> SUFFICES ASSUME ReportInv, genpc = "built" PROVE HolesAreLost /\ LostAreReported
    BY DEF ReportCovers
  <2>1. HolesAreLost  BY DEF ReportInv, HolesUnheard, HolesAreLost, Unheard
  <2>2. /\ WindowInv /\ lattmp \in Nat /\ ScanStart(lattmp) \in Nat /\ i \in Nat
        /\ holes \in Seq([le : 0..SeqMod - 1, re : 0..SeqMod - 1]) /\ HOLES_MAX \in Nat
        /\ HOLES_MAX > 0 /\ Len(holes) \in Nat
    BY ScanSeen, Constants, LenProperties DEF ReportInv
  <2>3. /\ Len(holes) <= HOLES_MAX /\ (i = lattmp \/ Len(holes) = HOLES_MAX)
        /\ \A k \in DOMAIN holes : holes[k].re < lattmp /\ holes[k].re < i
    BY DEF ReportInv, ListSound
  <2> DEFINE end == Reach(holes, lattmp)
  <2>4. end \in Int /\ end <= i /\ end <= lattmp - 1
    <3>1. CASE Len(holes) < HOLES_MAX  BY <2>2, <2>3, <3>1 DEF Reach
    <3>2. CASE ~(Len(holes) < HOLES_MAX)
      <4>1. Len(holes) = HOLES_MAX /\ end = holes[HOLES_MAX].re  BY <2>2, <2>3, <3>2 DEF Reach
      <4>2. HOLES_MAX \in DOMAIN holes  BY <2>2, <4>1
      <4>3. end < lattmp /\ end < i  BY <2>3, <4>1, <4>2
      <4>4. end \in Int
        <5> DEFINE H == [le : 0..SeqMod - 1, re : 0..SeqMod - 1]
        <5>1. holes[HOLES_MAX] \in H
          <6>1. holes \in Seq(H)  BY <2>2
          <6> HIDE DEF H
          <6>2. QED  BY <4>2, <6>1, ElementOfSeq
        <5>2. QED  BY <4>1, <5>1, Constants
      <4>5. QED  BY <2>2, <4>3, <4>4
    <3>3. QED  BY <3>1, <3>2
  <2> HIDE DEF end
  <2>5. \A s \in ScanStart(lattmp)..end - 1 : s \in ScanStart(lattmp)..i - 1 /\ s # lattmp - 1
    BY <2>2, <2>4
  <2>6. LostAreReported
    <3>1. SUFFICES ASSUME NEW s \in ScanStart(lattmp)..end - 1,
                          Recent(s), s # 0, s \notin delivered
                   PROVE  s \in Covered(holes)
      BY DEF LostAreReported, end
    <3>2. s \in ScanStart(lattmp)..i - 1 /\ Missed(s)  BY <2>5, <3>1 DEF Missed
    <3>3. QED  BY <3>2 DEF ReportInv, Passed
  <2>7. QED  BY <2>1, <2>6
<1>4. QED  BY <1>1, <1>2, <1>3, PTL DEF Spec

----------------------------------------------------------------------------
(* What the recursive functions of VmacHoles compute.                      *)

(* Induction on the naturals, for a set.                                   *)
LEMMA NatSet ==
  ASSUME NEW S, 0 \in S, \A n \in Nat : n \in S => n + 1 \in S
  PROVE  Nat \subseteq S
<1>1. SUFFICES ASSUME Nat \ S # {} PROVE FALSE  OBVIOUS
<1>2. PICK x \in Nat \ S : \A y \in Nat \ S : <<y, x>> \notin OpToRel(<, Nat)
  BY <1>1, NatLessThanWellFounded, WFMin
<1>3. x - 1 \in Nat /\ x - 1 < x  OBVIOUS
<1>4. <<x - 1, x>> \in OpToRel(<, Nat)  BY <1>3 DEF OpToRel
<1>5. x - 1 \in S  BY <1>2, <1>3, <1>4
<1>6. QED  BY <1>3, <1>5

(* Where the walks go on.                                                  *)
GoesLeft(w, L, t)  == LostBefore(w, t) /\ t > 0 /\ ScanStart(L) < t - 1
GoesRight(w, L, t) == Lost(w, t) /\ t < L - 1

(* The bodies of the walks: over G, down to a and up to n.                 *)
Down(G, a, n, f) == [t \in a..n |-> IF t \in G THEN f[t - 1] ELSE t]
Up(G, a, n, f)   == [t \in a..n |-> IF t \in G THEN f[t + 1] ELSE t]

(* The walk from t ends at x, the first that is not in G.                  *)
EndsDown(G, t, x) == x \notin G /\ \A y \in x + 1..t : y \in G
EndsUp(G, t, x)   == x \notin G /\ \A y \in t..x - 1 : y \in G

LEMMA WalkDown ==
  ASSUME NEW G, NEW a \in Int, a \notin G, NEW n \in Int
  PROVE  /\ \E f : f = Down(G, a, n, f)
         /\ \A f : f = Down(G, a, n, f) =>
              \A t \in a..n : f[t] \in a..t /\ EndsDown(G, t, f[t])
<1> DEFINE End(t, x) == x \in a..t /\ EndsDown(G, t, x)
           S == {k \in Nat : \E x \in a..a + k : End(a + k, x)}
           e == [t \in a..n |-> CHOOSE x \in a..t : End(t, x)]
<1> USE DEF EndsDown
<1>1. 0 \in S  OBVIOUS
<1>2. ASSUME NEW k \in S PROVE k + 1 \in S
  <2>1. k \in Nat /\ a + (k + 1) = (a + k) + 1  BY <1>2
  <2>2. PICK x \in a..a + k : End(a + k, x)  BY <1>2
  <2>3. CASE a + (k + 1) \in G
    <3>1. \A y \in x + 1..a + (k + 1) : y = a + (k + 1) \/ y \in x + 1..a + k  BY <2>1
    <3>2. x \in a..a + (k + 1)  BY <2>1
    <3>3. End(a + (k + 1), x)  BY <2>2, <2>3, <3>1, <3>2
    <3>4. QED  BY <2>1, <3>2, <3>3
  <2>4. CASE a + (k + 1) \notin G
    <3>1. End(a + (k + 1), a + (k + 1)) /\ a + (k + 1) \in a..a + (k + 1)  BY <2>1, <2>4
    <3>2. QED  BY <2>1, <3>1
  <2>5. QED  BY <2>3, <2>4
<1>3. \A t \in a..n : \E x \in a..t : End(t, x)
  <2> HIDE DEF S
  <2>1. Nat \subseteq S  BY <1>1, <1>2, NatSet
  <2>2. SUFFICES ASSUME NEW t \in a..n PROVE \E x \in a..t : End(t, x)  OBVIOUS
  <2>3. t - a \in S /\ a + (t - a) = t  BY <2>1
  <2> HIDE DEF End
  <2>4. QED  BY <2>3 DEF S
<1>4. \A t \in a..n : e[t] \in a..t /\ End(t, e[t])
  <2> SUFFICES ASSUME NEW t \in a..n PROVE e[t] \in a..t /\ End(t, e[t])  OBVIOUS
  <2>1. e[t] = CHOOSE x \in a..t : End(t, x)  OBVIOUS
  <2> HIDE DEF e, End
  <2>2. QED  BY <1>3, <2>1
<1> HIDE DEF e
<1>5. \A t \in a..n, x, y \in Int : End(t, x) /\ End(t, y) => x = y
  <2> SUFFICES ASSUME NEW t \in a..n, NEW x \in Int, NEW y \in Int, End(t, x), End(t, y), x < y
               PROVE  FALSE
    OBVIOUS
  <2>1. QED  OBVIOUS
<1>6. \A t \in a..n : e[t] = IF t \in G THEN e[t - 1] ELSE t
  <2> SUFFICES ASSUME NEW t \in a..n PROVE e[t] = IF t \in G THEN e[t - 1] ELSE t  OBVIOUS
  <2>1. CASE t \in G
    <3>1. t - 1 \in a..n  BY <2>1
    <3>2. End(t - 1, e[t - 1]) /\ e[t - 1] \in a..t - 1  BY <1>4, <3>1
    <3>3. \A y \in e[t - 1] + 1..t : y = t \/ y \in e[t - 1] + 1..t - 1  BY <3>2
    <3>4. End(t, e[t - 1])  BY <2>1, <3>2, <3>3
    <3>5. e[t] \in Int /\ e[t - 1] \in Int /\ End(t, e[t])  BY <1>4, <3>2
    <3> HIDE DEF End
    <3>6. QED  BY <1>5, <2>1, <3>4, <3>5
  <2>2. CASE t \notin G
    <3>1. End(t, t)  BY <2>2
    <3>2. e[t] \in Int /\ t \in Int /\ End(t, e[t])  BY <1>4
    <3> HIDE DEF End
    <3>3. QED  BY <1>5, <2>2, <3>1, <3>2
  <2>3. QED  BY <2>1, <2>2
<1> HIDE DEF End, S
<1>7. e = Down(G, a, n, e)
  <2>1. e = [t \in a..n |-> e[t]]  BY DEF e
  <2>2. QED  BY <1>6, <2>1 DEF Down
<1>8. SUFFICES ASSUME NEW f, f = Down(G, a, n, f)
               PROVE  \A t \in a..n : f[t] \in a..t /\ EndsDown(G, t, f[t])
  BY <1>7
<1>9. \A t \in a..n : f[t] = IF t \in G THEN f[t - 1] ELSE t  BY <1>8 DEF Down
<1> DEFINE T == {k \in Nat : a + k <= n => f[a + k] = e[a + k]}
<1>10. 0 \in T
  <2>1. SUFFICES ASSUME a + 0 <= n PROVE f[a + 0] = e[a + 0]  OBVIOUS
  <2>2. a \in a..n /\ a + 0 = a  BY <2>1
  <2>3. f[a] = a /\ e[a] = a  BY <1>6, <1>9, <2>2
  <2>4. QED  BY <2>2, <2>3
<1>11. ASSUME NEW k \in T PROVE k + 1 \in T
  <2>1. k \in Nat  OBVIOUS
  <2>2. SUFFICES ASSUME a + (k + 1) <= n PROVE f[a + (k + 1)] = e[a + (k + 1)]  BY <2>1
  <2>3. a + (k + 1) \in a..n /\ (a + (k + 1)) - 1 = a + k /\ a + k <= n  BY <2>1, <2>2
  <2>4. f[a + k] = e[a + k]  BY <2>3
  <2> HIDE DEF T
  <2>5. QED  BY <1>6, <1>9, <2>3, <2>4
<1>12. \A t \in a..n : f[t] = e[t]
  <2> HIDE DEF T
  <2>1. Nat \subseteq T  BY <1>10, <1>11, NatSet
  <2>2. SUFFICES ASSUME NEW t \in a..n PROVE f[t] = e[t]  OBVIOUS
  <2>3. t - a \in T /\ a + (t - a) = t  BY <2>1
  <2>4. QED  BY <2>3 DEF T
<1>13. QED  BY <1>4, <1>12 DEF End

(* And one upwards.                                                        *)
LEMMA WalkUp ==
  ASSUME NEW G, NEW a \in Int, NEW n \in Int, n \notin G
  PROVE  /\ \E f : f = Up(G, a, n, f)
         /\ \A f : f = Up(G, a, n, f) =>
              \A t \in a..n : f[t] \in t..n /\ EndsUp(G, t, f[t])
<1> DEFINE M == {x \in Int : -x \in G}
           b == -n
           c == -a
<1>1. b \in Int /\ c \in Int /\ b \notin M  OBVIOUS
<1> HIDE DEF M, b, c
<1>2. PICK d : d = Down(M, b, c, d)  BY <1>1, WalkDown
<1>3. \A t \in b..c : d[t] \in b..t /\ EndsDown(M, t, d[t])  BY <1>1, <1>2, WalkDown
<1>4. \A t \in b..c : d[t] = IF t \in M THEN d[t - 1] ELSE t  BY <1>2 DEF Down
<1> USE DEF M, b, c
<1> DEFINE e == [t \in a..n |-> -d[-t]]
<1>5. \A t \in a..n : /\ e[t] \in t..n /\ EndsUp(G, t, e[t])
                       /\ e[t] = IF t \in G THEN e[t + 1] ELSE t
  <2> SUFFICES ASSUME NEW t \in a..n
               PROVE  /\ e[t] \in t..n /\ EndsUp(G, t, e[t])
                      /\ e[t] = IF t \in G THEN e[t + 1] ELSE t
    OBVIOUS
  <2>1. -t \in b..c /\ (-t \in M <=> t \in G) /\ (-t) - 1 = -(t + 1)  OBVIOUS
  <2>2. e[t] = -d[-t] /\ d[-t] \in b..-t  BY <1>3, <2>1
  <2>3. t \in G => t + 1 \in a..n  OBVIOUS
  <2>4. t \in G => e[t + 1] = -d[-(t + 1)]  BY <2>3
  <2>5. d[-t] = IF t \in G THEN d[-(t + 1)] ELSE -t  BY <1>4, <2>1
  <2>6. EndsDown(M, -t, d[-t])  BY <1>3, <2>1
  <2> HIDE DEF e
  <2>7. EndsUp(G, t, e[t])
    <3>1. e[t] \notin G /\ e[t] \in Int  BY <2>2, <2>6 DEF EndsDown
    <3>2. \A y \in t..e[t] - 1 : -y \in d[-t] + 1..-t /\ -(-y) = y  BY <2>2, <3>1
    <3>3. \A y \in t..e[t] - 1 : y \in G  BY <2>6, <3>2 DEF EndsDown
    <3>4. QED  BY <3>1, <3>3 DEF EndsUp
  <2>8. QED  BY <2>2, <2>4, <2>5, <2>7
<1>6. e = Up(G, a, n, e)
  <2>1. e = [t \in a..n |-> e[t]]  OBVIOUS
  <2> HIDE DEF e
  <2>2. QED  BY <1>5, <2>1 DEF Up
<1> HIDE DEF e
<1>7. SUFFICES ASSUME NEW f, f = Up(G, a, n, f)
               PROVE  \A t \in a..n : f[t] \in t..n /\ EndsUp(G, t, f[t])
  BY <1>6
<1>8. \A t \in a..n : f[t] = IF t \in G THEN f[t + 1] ELSE t  BY <1>7 DEF Up
<1> DEFINE T == {k \in Nat : a <= n - k => f[n - k] = e[n - k]}
<1>9. 0 \in T
  <2>1. SUFFICES ASSUME a <= n PROVE f[n] = e[n]  OBVIOUS
  <2>2. n \in a..n  BY <2>1
  <2>3. QED  BY <1>5, <1>8, <2>2
<1>10. ASSUME NEW k \in T PROVE k + 1 \in T
  <2>1. k \in Nat  OBVIOUS
  <2>2. SUFFICES ASSUME a <= n - (k + 1) PROVE f[n - (k + 1)] = e[n - (k + 1)]  BY <2>1
  <2>3. n - (k + 1) \in a..n /\ (n - (k + 1)) + 1 = n - k /\ a <= n - k  BY <2>1, <2>2
  <2>4. f[n - k] = e[n - k]  BY <2>3
  <2> HIDE DEF T
  <2>5. QED  BY <1>5, <1>8, <2>3, <2>4
<1>11. \A t \in a..n : f[t] = e[t]
  <2> HIDE DEF T
  <2>1. Nat \subseteq T  BY <1>9, <1>10, NatSet
  <2>2. SUFFICES ASSUME NEW t \in a..n PROVE f[t] = e[t]  OBVIOUS
  <2>3. n - t \in T /\ n - (n - t) = t  BY <2>1
  <2>4. QED  BY <2>3 DEF T
<1>12. QED  BY <1>5, <1>11

(* The edges prepDACK's loops find.                                        *)
LEMMA LeftEdgeEnds ==
  ASSUME NEW w, NEW L, NEW p \in Int, ScanStart(L) \in Int, ScanStart(L) <= p
  PROVE  /\ LeftEdge(w, L, p) \in ScanStart(L)..p
         /\ EndsDown({t \in Int : GoesLeft(w, L, t)}, p, LeftEdge(w, L, p))
<1> DEFINE a == ScanStart(L)
           G == {t \in Int : GoesLeft(w, L, t)}
           Walk(g) == [t \in a..p |-> IF GoesLeft(w, L, t) THEN g[t - 1] ELSE t]
           left == CHOOSE g : g = Walk(g)
<1>1. a \notin G /\ a \in Int /\ p \in a..p  BY DEF GoesLeft
<1>2. \A g : Walk(g) = Down(G, a, p, g)  BY <1>1 DEF Down
<1>3. LeftEdge(w, L, p) = left[p]  BY DEF LeftEdge, GoesLeft
<1> HIDE DEF Walk, a, G
<1>4. \E f : f = Down(G, a, p, f)  BY <1>1, WalkDown
<1>5. \E f : f = Walk(f)  BY <1>2, <1>4
<1>6. left = Walk(left)  BY <1>5, Zenon
<1> HIDE DEF left
<1>7. left = Down(G, a, p, left)  BY <1>2, <1>6
<1>8. left[p] \in a..p /\ EndsDown(G, p, left[p])  BY <1>1, <1>7, WalkDown
<1>9. QED  BY <1>3, <1>8 DEF a, G

LEMMA RightEdgeEnds ==
  ASSUME NEW w, NEW L \in Int, NEW p \in Int, p <= L - 1
  PROVE  /\ RightEdge(w, L, p) \in p..L - 1
         /\ EndsUp({t \in Int : GoesRight(w, L, t)}, p, RightEdge(w, L, p))
<1> DEFINE n == L - 1
           G == {t \in Int : GoesRight(w, L, t)}
           Walk(g) == [t \in p..n |-> IF GoesRight(w, L, t) THEN g[t + 1] ELSE t]
           right == CHOOSE g : g = Walk(g)
<1>1. n \notin G /\ n \in Int /\ p \in p..n  BY DEF GoesRight
<1>2. \A g : Walk(g) = Up(G, p, n, g)  BY <1>1 DEF Up
<1>3. RightEdge(w, L, p) = right[p]  BY DEF RightEdge, GoesRight
<1> HIDE DEF Walk, n, G
<1>4. \E f : f = Up(G, p, n, f)  BY <1>1, WalkUp
<1>5. \E f : f = Walk(f)  BY <1>2, <1>4
<1>6. right = Walk(right)  BY <1>5, Zenon
<1> HIDE DEF right
<1>7. right = Up(G, p, n, right)  BY <1>2, <1>6
<1>8. right[p] \in p..n /\ EndsUp(G, p, right[p])  BY <1>1, <1>7, WalkUp
<1>9. QED  BY <1>3, <1>8 DEF n, G

(* One turn of either loop.                                                *)
LEMMA LeftEdgeStep ==
  ASSUME NEW w, NEW L, NEW p \in Int, ScanStart(L) \in Int, ScanStart(L) <= p
  PROVE  /\ LeftEdge(w, L, p) \in ScanStart(L)..p
         /\ GoesLeft(w, L, p) => LeftEdge(w, L, p) = LeftEdge(w, L, p - 1)
         /\ ~GoesLeft(w, L, p) => LeftEdge(w, L, p) = p
<1> DEFINE a == ScanStart(L)
           G == {t \in Int : GoesLeft(w, L, t)}
           x == LeftEdge(w, L, p)
           y == LeftEdge(w, L, p - 1)
<1>1. x \in a..p /\ EndsDown(G, p, x)  BY LeftEdgeEnds
<1>2. ASSUME GoesLeft(w, L, p) PROVE x = y
  <2>1. p - 1 \in Int /\ a <= p - 1  BY <1>2 DEF GoesLeft
  <2>2. y \in a..p - 1 /\ EndsDown(G, p - 1, y)  BY <2>1, LeftEdgeEnds
  <2>3. p \in G  BY <1>2
  <2> HIDE DEF x, y, a, G
  <2>4. \A z \in x + 1..p - 1 : z \in x + 1..p  BY <1>1
  <2>5. x # p  BY <1>1, <2>3 DEF EndsDown
  <2>6. EndsDown(G, p - 1, x) /\ x \in a..p - 1  BY <1>1, <2>4, <2>5 DEF EndsDown
  <2>7. QED  BY <2>2, <2>6 DEF EndsDown
<1>3. ASSUME ~GoesLeft(w, L, p) PROVE x = p
  <2>1. p \notin G  BY <1>3
  <2> HIDE DEF x, a, G
  <2>2. QED  BY <1>1, <2>1 DEF EndsDown
<1>4. QED  BY <1>1, <1>2, <1>3

LEMMA RightEdgeStep ==
  ASSUME NEW w, NEW L \in Int, NEW p \in Int, p <= L - 1
  PROVE  /\ RightEdge(w, L, p) \in p..L - 1
         /\ GoesRight(w, L, p) => RightEdge(w, L, p) = RightEdge(w, L, p + 1)
         /\ ~GoesRight(w, L, p) => RightEdge(w, L, p) = p
<1> DEFINE n == L - 1
           G == {t \in Int : GoesRight(w, L, t)}
           x == RightEdge(w, L, p)
           y == RightEdge(w, L, p + 1)
<1>1. x \in p..n /\ EndsUp(G, p, x)  BY RightEdgeEnds
<1>2. ASSUME GoesRight(w, L, p) PROVE x = y
  <2>1. p + 1 \in Int /\ p + 1 <= L - 1  BY <1>2 DEF GoesRight
  <2>2. y \in p + 1..n /\ EndsUp(G, p + 1, y)  BY <2>1, RightEdgeEnds
  <2>3. p \in G  BY <1>2
  <2> HIDE DEF x, y, n, G
  <2>4. \A z \in p + 1..x - 1 : z \in p..x - 1  BY <1>1
  <2>5. x # p  BY <1>1, <2>3 DEF EndsUp
  <2>6. EndsUp(G, p + 1, x) /\ x \in p + 1..n  BY <1>1, <2>4, <2>5 DEF EndsUp
  <2>7. QED  BY <2>2, <2>6 DEF EndsUp
<1>3. ASSUME ~GoesRight(w, L, p) PROVE x = p
  <2>1. p \notin G  BY <1>3
  <2> HIDE DEF x, n, G
  <2>2. QED  BY <1>1, <2>1 DEF EndsUp
<1>4. QED  BY <1>1, <1>2, <1>3

(* The holes from position p on, all of them, f being those further on.    *)
ScanBody(w, L, f, p) ==
  IF p = L THEN <<>>
  ELSE IF Lost(w, p)
  THEN LET re == RightEdge(w, L, p)
       IN <<[le |-> LeftEdge(w, L, p), re |-> re]>> \o f[re + 1]
  ELSE f[p + 1]
ScanOf(w, L) == CHOOSE f : f = [p \in 0..L |-> ScanBody(w, L, f, p)]

LEMMA StartBelow ==
  ASSUME NEW L \in Nat PROVE ScanStart(L) \in Nat /\ ScanStart(L) <= L
  BY Constants DEF ScanStart

LEMMA ScanUnfolds ==
  ASSUME NEW w, NEW L \in Nat
  PROVE  \A p \in 0..L : ScanOf(w, L)[p] = ScanBody(w, L, ScanOf(w, L), p)
<1> DEFINE Scan(a, f) == [p \in a..L |-> ScanBody(w, L, f, p)]
           S == {k \in Nat : k <= L => \E f : f = Scan(L - k, f)}
<1>1. ASSUME NEW a \in Nat, NEW p \in a..L, NEW f, NEW g, \A q \in p + 1..L : f[q] = g[q]
      PROVE  ScanBody(w, L, f, p) = ScanBody(w, L, g, p)
  <2>1. CASE p = L  BY <2>1 DEF ScanBody
  <2>2. CASE p # L
    <3>1. p \in Int /\ p <= L - 1 /\ L \in Int  BY <2>2
    <3>2. RightEdge(w, L, p) \in p..L - 1  BY <3>1, RightEdgeStep
    <3>3. RightEdge(w, L, p) + 1 \in p + 1..L /\ p + 1 \in p + 1..L  BY <3>1, <3>2
    <3>4. f[RightEdge(w, L, p) + 1] = g[RightEdge(w, L, p) + 1] /\ f[p + 1] = g[p + 1]
      BY <1>1, <3>3
    <3>5. QED  BY <2>2, <3>4 DEF ScanBody
  <2>3. QED  BY <2>1, <2>2
<1>2. 0 \in S
  <2>1. [p \in L..L |-> <<>>] = Scan(L - 0, [p \in L..L |-> <<>>])  BY DEF ScanBody
  <2>2. QED  BY <2>1
<1>3. ASSUME NEW k \in S PROVE k + 1 \in S
  <2>1. SUFFICES ASSUME k + 1 <= L PROVE \E g : g = Scan(L - (k + 1), g)  OBVIOUS
  <2>2. k \in Nat /\ k <= L  BY <2>1
  <2>3. PICK f : f = Scan(L - k, f)  BY <2>2
  <2> DEFINE a == L - (k + 1)
             g == [p \in a..L |-> ScanBody(w, L, f, p)]
  <2>4. a \in Nat /\ a + 1 = L - k  BY <2>1, <2>2
  <2>5. \A p \in a + 1..L : g[p] = f[p]
    <3>1. SUFFICES ASSUME NEW p \in a + 1..L PROVE g[p] = f[p]  OBVIOUS
    <3>2. p \in a..L /\ p \in L - k..L  BY <2>4
    <3>3. g[p] = ScanBody(w, L, f, p)  BY <3>2
    <3>4. f[p] = ScanBody(w, L, f, p)  BY <2>3, <3>2
    <3>5. QED  BY <3>3, <3>4
  <2> HIDE DEF a
  <2>6. \A p \in a..L : ScanBody(w, L, f, p) = ScanBody(w, L, g, p)
    <3>1. SUFFICES ASSUME NEW p \in a..L PROVE ScanBody(w, L, f, p) = ScanBody(w, L, g, p)
      OBVIOUS
    <3>2. \A q \in p + 1..L : q \in a + 1..L  BY <2>4
    <3>3. \A q \in p + 1..L : f[q] = g[q]  BY <2>5, <3>2
    <3> HIDE DEF g
    <3>4. QED  BY <1>1, <2>4, <3>3
  <2>7. g = Scan(a, g)  BY <2>6
  <2>8. QED  BY <2>7 DEF a
<1>4. \E f : f = Scan(0, f)
  <2> HIDE DEF S
  <2>1. Nat \subseteq S  BY <1>2, <1>3, NatSet
  <2>2. L \in S /\ L - L = 0 /\ L <= L  BY <2>1
  <2>3. QED  BY <2>2 DEF S
<1>5. ScanOf(w, L) = Scan(0, ScanOf(w, L))  BY <1>4, Zenon DEF ScanOf
<1> HIDE DEF S
<1>6. QED  BY <1>5

LEMMA HolesOfScan ==
  ASSUME NEW w, NEW L
  PROVE  HolesOf(w, L) =
           LET all == ScanOf(w, L)[ScanStart(L)]
           IN  SubSeq(all, 1, IF Len(all) < HOLES_MAX THEN Len(all) ELSE HOLES_MAX)
  BY DEF HolesOf, ScanOf, ScanBody

(* The list from position p on: it ends at L, skips what was received, and *)
(* goes on after a hole.                                                   *)
LEMMA ScanFrom ==
  ASSUME NEW w, NEW L \in Nat, L <= SeqMod - 1, NEW p \in ScanStart(L)..L
  PROVE  /\ ScanOf(w, L)[p] \in Seq(Hole)
         /\ p = L => ScanOf(w, L)[p] = <<>>
         /\ p < L /\ ~Lost(w, p) => ScanOf(w, L)[p] = ScanOf(w, L)[p + 1]
         /\ p < L /\ Lost(w, p) =>
              ScanOf(w, L)[p] = <<[le |-> LeftEdge(w, L, p), re |-> RightEdge(w, L, p)]>>
                                \o ScanOf(w, L)[RightEdge(w, L, p) + 1]
<1> DEFINE f == ScanOf(w, L)
           a == ScanStart(L)
           S == {k \in Nat : \A q \in a..L : L - k <= q => f[q] \in Seq(Hole)}
<1>1. a \in Nat /\ a <= L /\ L \in Int /\ p \in 0..L  BY StartBelow
<1>2. \A q \in 0..L : f[q] = ScanBody(w, L, f, q)  BY ScanUnfolds
<1> HIDE DEF f
<1>3. <<>> \in Seq(Hole)  OBVIOUS
<1>30. f[L] = <<>>
  <2>1. L \in 0..L  BY <1>1
  <2>2. f[L] = ScanBody(w, L, f, L)  BY <1>2, <2>1
  <2>3. QED  BY <2>2, Zenon DEF ScanBody
<1>4. 0 \in S
  <2>1. f[L] = <<>>  BY <1>30
  <2>2. SUFFICES ASSUME NEW q \in a..L, L - 0 <= q PROVE f[q] \in Seq(Hole)  OBVIOUS
  <2>3. q = L  BY <1>1, <2>2
  <2>4. QED  BY <1>3, <2>1, <2>3
<1>5. ASSUME NEW k \in S PROVE k + 1 \in S
  <2>1. k \in Nat /\ \A q \in a..L : L - k <= q => f[q] \in Seq(Hole)  OBVIOUS
  <2>2. SUFFICES ASSUME NEW q \in a..L, L - (k + 1) <= q PROVE f[q] \in Seq(Hole)  BY <2>1
  <2>3. CASE q = L  BY <1>1, <1>2, <1>3, <2>3 DEF ScanBody
  <2>4. CASE q # L
    <3> DEFINE re == RightEdge(w, L, q)
               le == LeftEdge(w, L, q)
    <3>1. q \in Int /\ q <= L - 1 /\ q \in 0..L /\ a \in Int /\ a <= q  BY <1>1, <2>4
    <3>2. re \in q..L - 1 /\ le \in a..q  BY <1>1, <3>1, RightEdgeStep, LeftEdgeStep
    <3>3. re + 1 \in a..L /\ L - k <= re + 1 /\ q + 1 \in a..L /\ L - k <= q + 1
      BY <1>1, <2>1, <2>2, <3>1, <3>2
    <3>4. f[re + 1] \in Seq(Hole) /\ f[q + 1] \in Seq(Hole)  BY <2>1, <3>3
    <3>5. re \in 0..SeqMod - 1 /\ le \in 0..SeqMod - 1  BY <1>1, <3>1, <3>2, Constants
    <3> HIDE DEF re, le
    <3>6. [le |-> le, re |-> re] \in Hole  BY <3>5 DEF Hole
    <3>7. <<[le |-> le, re |-> re]>> \in Seq(Hole)  BY <3>6
    <3>8. <<[le |-> le, re |-> re]>> \o f[re + 1] \in Seq(Hole)  BY <3>4, <3>7, ConcatProperties
    <3>9. f[q] \in {<<[le |-> le, re |-> re]>> \o f[re + 1], f[q + 1]}
      BY <1>2, <2>4, <3>1 DEF ScanBody, re, le
    <3>10. QED  BY <3>4, <3>8, <3>9
  <2>5. QED  BY <2>3, <2>4
<1>6. f[p] \in Seq(Hole)
  <2> HIDE DEF S
  <2>1. Nat \subseteq S  BY <1>4, <1>5, NatSet
  <2>2. L \in S /\ L - L <= p  BY <1>1, <2>1
  <2>3. QED  BY <2>2 DEF S
<1>7. f[p] = ScanBody(w, L, f, p)  BY <1>1, <1>2
<1>8. p < L => p # L  BY <1>1
<1>9. p < L /\ ~Lost(w, p) => f[p] = f[p + 1]  BY <1>7, <1>8, Zenon DEF ScanBody
<1>10. p < L /\ Lost(w, p) =>
         f[p] = <<[le |-> LeftEdge(w, L, p), re |-> RightEdge(w, L, p)]>>
                \o f[RightEdge(w, L, p) + 1]
  BY <1>7, <1>8, Zenon DEF ScanBody
<1>11. QED  BY <1>6, <1>30, <1>9, <1>10 DEF f

----------------------------------------------------------------------------
(* What an undisturbed scan has found, and what is ahead of it.            *)
Rest(p) == ScanOf(window, lattmp)[p]

Ahead ==
  IF genpc \in {"test", "built"} THEN Rest(i)
  ELSE LET re == RightEdge(window, lattmp, i)
           le == IF genpc = "back" THEN LeftEdge(window, lattmp, tmp) ELSE tmp
       IN <<[le |-> le, re |-> re]>> \o Rest(re + 1)

Found == genpc # "idle" /\ quiet => Rest(ScanStart(lattmp)) = holes \o Ahead

(* The frame before a hole came, so loss counts the frames of the holes.   *)
Counted ==
  genpc # "idle" /\ quiet /\ WordInFrontUnused =>
    /\ InOrder(holes)
    /\ genpc = "test" => i = ScanStart(lattmp) \/ i = lattmp \/ ~Lost(window, i - 1)
    /\ genpc = "back" => tmp = i /\ ~GoesBack
    /\ genpc = "fwd" => \A k \in DOMAIN holes : holes[k].re < tmp
    /\ loss = (Cardinality(Covered(holes)) + IF genpc = "fwd" THEN i - tmp ELSE 0) % LossMod

ExactInv == TypeInv /\ ListSound /\ Found /\ Counted

(* An undisturbed scan goes through the holes one by one.                  *)
LEMMA NextFound == ASSUME TypeInv, Found, [Next]_vars PROVE Found'
<1>1. CASE UNCHANGED vars
  BY <1>1 DEF vars, rxVars, scanVars, Found, Ahead, Rest, lattmp, cur
<1>2. CASE Rx
  <2>1. SUFFICES ASSUME genpc' # "idle", quiet' PROVE Found'  BY DEF Found
  <2>2. /\ UNCHANGED <<genpc, i, tmp, holes, window>> /\ lattmp' = lattmp
        /\ genpc # "idle" /\ quiet
    BY <1>2, <2>1, RxScan
  <2>3. QED  BY <2>2 DEF Found, Ahead, Rest
<1>3. CASE PrepEnd
  BY <1>3 DEF PrepEnd, Found
<1>4. CASE PrepBegin
  <2>1. /\ genpc' = "test" /\ holes' = <<>> /\ i' = ScanStart(lattmp)
        /\ window' = window /\ lattmp' = lattmp
    BY <1>4 DEF PrepBegin, rxVars, lattmp, cur
  <2>2. lattmp' \in Nat /\ lattmp' <= SeqMod - 1
    BY <1>4, <2>1, ScanBounds DEF PrepBegin, TypeInv
  <2>3. ScanStart(lattmp') \in ScanStart(lattmp')..lattmp'  BY <2>2, StartBelow
  <2>4. Rest(i)' \in Seq(Hole)  BY <2>1, <2>2, <2>3, ScanFrom DEF Rest
  <2>5. <<>> \o Rest(i)' = Rest(i)'  BY <2>4, ConcatEmptySeq
  <2>6. QED  BY <2>1, <2>5 DEF Found, Ahead, Rest
<1>5. ASSUME PrepReceived \/ PrepLost \/ PrepBack \/ PrepForward \/ PrepBuilt
      PROVE  Found'
  <2> DEFINE re == RightEdge(window, lattmp, i)
             le == LeftEdge(window, lattmp, i)
             S0 == ScanStart(lattmp)
  <2>1. SUFFICES ASSUME quiet PROVE Found'  BY <1>5, PrepScan DEF Found
  <2>2. /\ UNCHANGED window /\ lattmp' = lattmp
        /\ genpc \in {"test", "back", "fwd"} /\ genpc' \in {"test", "back", "fwd", "built"}
    BY <1>5, PrepScan
  <2>3. /\ lattmp \in Nat /\ lattmp <= SeqMod - 1 /\ S0 \in Nat /\ i \in Nat /\ tmp \in Nat
        /\ S0 <= i /\ i <= lattmp /\ holes \in Seq(Hole)
        /\ genpc \in {"back", "fwd"} => i < lattmp /\ S0 <= tmp /\ tmp <= i
    BY <2>2, PrepPlace
  <2>4. i \in S0..lattmp /\ i \in Int /\ tmp \in Int /\ lattmp \in Int /\ S0 \in Int  BY <2>3
  <2>5. /\ i = lattmp => Rest(i) = <<>>
        /\ i < lattmp /\ ~Lost(window, i) => Rest(i) = Rest(i + 1)
        /\ i < lattmp /\ Lost(window, i) => Rest(i) = <<[le |-> le, re |-> re]>> \o Rest(re + 1)
    BY <2>3, <2>4, ScanFrom DEF Rest
  <2>6. Rest(S0) = holes \o Ahead  BY <2>1, <2>2 DEF Found
  <2>7. \A p : Rest(p)' = Rest(p)  BY <2>2 DEF Rest
  <2>8. SUFFICES Rest(S0) = holes' \o Ahead'
    BY <2>2, <2>7 DEF Found
  <2> HIDE DEF S0
  <2>9. CASE PrepReceived
    <3>1. /\ i < lattmp /\ ~Lost(window, i) /\ i' = i + 1 /\ genpc = "test" /\ genpc' = "test"
          /\ holes' = holes
      BY <2>9 DEF PrepReceived, ScanGoesOn
    <3>2. Ahead' = Ahead  BY <2>5, <2>7, <3>1 DEF Ahead
    <3>3. QED  BY <2>6, <3>1, <3>2
  <2>10. CASE PrepLost
    <3>1. /\ i < lattmp /\ Lost(window, i) /\ tmp' = i /\ genpc = "test" /\ genpc' = "back"
          /\ UNCHANGED <<i, holes>>
      BY <2>10 DEF PrepLost, ScanGoesOn
    <3>2. Ahead = Rest(i)  BY <3>1 DEF Ahead
    <3>3. Ahead' = <<[le |-> le, re |-> re]>> \o Rest(re + 1)
      BY <2>2, <2>7, <3>1 DEF Ahead
    <3>4. QED  BY <2>5, <2>6, <3>1, <3>2, <3>3
  <2>11. CASE PrepBack
    <3>1. /\ genpc = "back" /\ UNCHANGED <<i, holes>>
          /\ \/ GoesBack /\ tmp' = tmp - 1 /\ genpc' = "back"
             \/ ~GoesBack /\ tmp' = tmp /\ genpc' = "fwd"
      BY <2>11 DEF PrepBack
    <3>2. GoesBack <=> GoesLeft(window, lattmp, tmp)  BY DEF GoesBack, GoesLeft
    <3>3. S0 <= tmp  BY <2>3, <3>1
    <3>4. /\ GoesBack => LeftEdge(window, lattmp, tmp) = LeftEdge(window, lattmp, tmp - 1)
          /\ ~GoesBack => LeftEdge(window, lattmp, tmp) = tmp
      BY <2>4, <3>2, <3>3, LeftEdgeStep DEF S0
    <3>5. Ahead = <<[le |-> LeftEdge(window, lattmp, tmp), re |-> re]>> \o Rest(re + 1)
      BY <3>1 DEF Ahead
    <3>6. Ahead' = <<[le |-> IF genpc' = "back" THEN LeftEdge(window, lattmp, tmp') ELSE tmp',
                      re |-> re]>> \o Rest(re + 1)
      BY <2>2, <2>7, <3>1 DEF Ahead
    <3>7. LeftEdge(window, lattmp, tmp) =
            IF genpc' = "back" THEN LeftEdge(window, lattmp, tmp') ELSE tmp'
      BY <3>1, <3>4
    <3>8. QED  BY <2>6, <3>1, <3>5, <3>6, <3>7
  <2>12. CASE PrepForward
    <3>1. /\ genpc = "fwd" /\ i' = i + 1 /\ tmp' = tmp
          /\ \/ GoesRight(window, lattmp, i) /\ UNCHANGED <<genpc, holes>>
             \/ /\ ~GoesRight(window, lattmp, i)
                /\ holes' = Append(holes, [le |-> tmp, re |-> i]) /\ genpc' = "test"
      BY <2>12 DEF PrepForward, GoesRight
    <3>2. i <= lattmp - 1  BY <2>3, <3>1
    <3>3. /\ GoesRight(window, lattmp, i) => re = RightEdge(window, lattmp, i + 1)
          /\ ~GoesRight(window, lattmp, i) => re = i
      BY <2>4, <3>2, RightEdgeStep
    <3>4. Ahead = <<[le |-> tmp, re |-> re]>> \o Rest(re + 1)  BY <3>1 DEF Ahead
    <3>5. CASE GoesRight(window, lattmp, i) /\ UNCHANGED <<genpc, holes>>
      <4>1. RightEdge(window, lattmp, i)' = re  BY <2>2, <3>1, <3>3, <3>5
      <4>2. Ahead' = <<[le |-> tmp, re |-> re]>> \o Rest(re + 1)
        BY <2>2, <2>7, <3>1, <3>5, <4>1 DEF Ahead
      <4>3. QED  BY <2>6, <3>4, <3>5, <4>2
    <3>6. CASE /\ ~GoesRight(window, lattmp, i)
               /\ holes' = Append(holes, [le |-> tmp, re |-> i]) /\ genpc' = "test"
      <4> DEFINE h == [le |-> tmp, re |-> i]
      <4>1. Ahead = <<h>> \o Rest(i + 1)  BY <3>3, <3>4, <3>6
      <4>2. Ahead' = Rest(i + 1)  BY <2>7, <3>1, <3>6 DEF Ahead
      <4>3. Rest(i + 1) \in Seq(Hole)
        <5>1. i + 1 \in ScanStart(lattmp)..lattmp  BY <2>3, <3>2 DEF S0
        <5>2. QED  BY <2>3, <5>1, ScanFrom DEF Rest
      <4>4. h \in Hole
        <5>1. tmp \in 0..SeqMod - 1 /\ i \in 0..SeqMod - 1  BY DEF TypeInv, TypeOK
        <5>2. QED  BY <5>1 DEF Hole
      <4> HIDE DEF h
      <4>5. Append(holes, h) = holes \o <<h>> /\ <<h>> \in Seq(Hole)  BY <2>3, <4>4
      <4>6. (holes \o <<h>>) \o Rest(i + 1) = holes \o (<<h>> \o Rest(i + 1))
        BY <2>3, <4>3, <4>5, ConcatAssociative
      <4>7. holes' = Append(holes, h)  BY <3>6 DEF h
      <4>8. QED  BY <2>6, <4>1, <4>2, <4>5, <4>6, <4>7
    <3>7. QED  BY <3>1, <3>5, <3>6
  <2>13. CASE PrepBuilt
    <3>1. genpc = "test" /\ genpc' = "built" /\ UNCHANGED <<i, holes>>  BY <2>13 DEF PrepBuilt
    <3>2. Ahead' = Ahead  BY <2>7, <3>1 DEF Ahead
    <3>3. QED  BY <2>6, <3>1, <3>2
  <2>14. QED  BY <1>5, <2>9, <2>10, <2>11, <2>12, <2>13
<1>6. QED  BY <1>1, <1>2, <1>3, <1>4, <1>5 DEF Next, Prep

(* One frame more, counted modulo M.                                       *)
LEMMA OneMore ==
  ASSUME NEW M \in Nat \ {0}, NEW x \in Nat
  PROVE  ((x % M) + 1) % M = (x + 1) % M
<1> DEFINE q == x \div M
           r == x % M
<1>1. q \in Nat /\ r \in 0..M - 1 /\ x = M * q + r  BY DivMod
<1> HIDE DEF q, r
<1>2. CASE r + 1 < M
  <2>1. (r + 1) % M = r + 1  BY <1>1, <1>2
  <2>2. x + 1 = M * q + (r + 1) /\ r + 1 \in 0..M - 1  BY <1>1, <1>2
  <2>3. (M * q + (r + 1)) % M = r + 1  BY <1>1, <2>2
  <2>4. QED  BY <2>1, <2>2, <2>3 DEF r
<1>3. CASE r + 1 = M
  <2>1. (r + 1) % M = 0  BY <1>3
  <2>2. x + 1 = M * (q + 1) + 0 /\ q + 1 \in Nat  BY <1>1, <1>3
  <2>3. (M * (q + 1) + 0) % M = 0  BY <2>2
  <2>4. QED  BY <2>1, <2>2, <2>3 DEF r
<1>4. QED  BY <1>1, <1>2, <1>3

(* A hole behind all the others adds the frames it lists.                  *)
LEMMA HoleAdds ==
  ASSUME NEW H, NEW hs \in Seq(H), NEW a \in Int, NEW b \in Int, a <= b,
         \A k \in DOMAIN hs : hs[k].re \in Int /\ hs[k].re < a,
         IsFiniteSet(Covered(hs))
  PROVE  /\ IsFiniteSet(Covered(Append(hs, [le |-> a, re |-> b])))
         /\ Cardinality(Covered(Append(hs, [le |-> a, re |-> b])))
              = Cardinality(Covered(hs)) + (b - a)
<1> DEFINE C == Covered(hs)
           T == a..b - 1
<1>1. Covered(Append(hs, [le |-> a, re |-> b])) = C \cup T  BY CoveredMore
<1>2. C \cap T = {}
  <2>1. \A k \in DOMAIN hs : (hs[k].le .. hs[k].re - 1) \cap T = {}  OBVIOUS
  <2> HIDE DEF T
  <2>2. QED  BY <2>1 DEF Covered
<1>3. IsFiniteSet(T) /\ Cardinality(T) = b - a
  <2>1. b - 1 \in Int  OBVIOUS
  <2>2. IsFiniteSet(T) /\ Cardinality(T) = IF a > b - 1 THEN 0 ELSE (b - 1) - a + 1
    BY <2>1, FS_Interval
  <2> HIDE DEF T
  <2>3. QED  BY <2>2
<1>4. Cardinality(C \cap T) = 0  BY <1>2, FS_EmptySet
<1> HIDE DEF C, T
<1>5. IsFiniteSet(C)  BY DEF C
<1>6. Cardinality(C) \in Nat /\ Cardinality(T) \in Nat  BY <1>3, <1>5, FS_CardinalityType
<1>7. IsFiniteSet(C \cup T)
      /\ Cardinality(C \cup T) = Cardinality(C) + Cardinality(T) - Cardinality(C \cap T)
  BY <1>3, <1>5, FS_Union
<1>8. Cardinality(C \cup T) = Cardinality(C) + (b - a)  BY <1>3, <1>4, <1>6, <1>7
<1>9. QED  BY <1>1, <1>7, <1>8 DEF C

LEMMA CoveredFinite == ASSUME TypeOK PROVE IsFiniteSet(Covered(holes))
<1>1. \A k \in DOMAIN holes : holes[k] \in Hole
  <2>1. holes \in Seq(Hole)  BY DEF TypeOK, Hole
  <2>2. QED  BY <2>1, ElementOfSeq
<1>2. \A k \in DOMAIN holes : holes[k].le .. holes[k].re - 1 \subseteq 0..SeqMod
  BY <1>1, Constants DEF Hole
<1>3. Covered(holes) \in SUBSET (0..SeqMod)  BY <1>2 DEF Covered
<1>4. IsFiniteSet(0..SeqMod)  BY Constants, FS_Interval
<1>5. QED  BY <1>3, <1>4, FS_Subset

(* Without the word in front prepDACK never walks back, so every hole      *)
(* begins behind the one before it.                                        *)
LEMMA NextCounted == ASSUME TypeInv, ListSound, Counted, [Next]_vars PROVE Counted'
<1>1. CASE UNCHANGED vars
  BY <1>1 DEF vars, rxVars, scanVars, Counted, GoesBack, WordInFrontUnused, lattmp, cur
<1>2. CASE Rx
  <2>1. SUFFICES ASSUME genpc' # "idle", quiet' PROVE Counted'  BY DEF Counted
  <2>2. /\ UNCHANGED <<genpc, i, tmp, loss, holes, window>> /\ lattmp' = lattmp
        /\ genpc # "idle" /\ quiet
    BY <1>2, <2>1, RxScan
  <2>3. QED  BY <2>2 DEF Counted, GoesBack, WordInFrontUnused
<1>3. CASE PrepEnd
  BY <1>3 DEF PrepEnd, Counted
<1>4. CASE PrepBegin
  <2>1. /\ genpc' = "test" /\ holes' = <<>> /\ i' = ScanStart(lattmp) /\ loss' = 0
        /\ lattmp' = lattmp
    BY <1>4 DEF PrepBegin, lattmp, cur
  <2>2. Covered(holes') = {} /\ InOrder(holes')  BY <2>1 DEF Covered, InOrder
  <2>3. Cardinality(Covered(holes')) = 0  BY <2>2, FS_EmptySet
  <2>4. (0 + 0) % LossMod = 0  BY Constants
  <2>5. QED  BY <2>1, <2>2, <2>3, <2>4 DEF Counted
<1>5. ASSUME PrepReceived \/ PrepLost \/ PrepBack \/ PrepForward \/ PrepBuilt
      PROVE  Counted'
  <2> DEFINE S0 == ScanStart(lattmp)
             card == Cardinality(Covered(holes))
  <2>1. SUFFICES ASSUME quiet, WordInFrontUnused PROVE Counted'
    BY <1>5, PrepScan DEF Counted, WordInFrontUnused
  <2>2. UNCHANGED window /\ lattmp' = lattmp /\ genpc \in {"test", "back", "fwd"}
    BY <1>5, PrepScan
  <2>3. /\ lattmp \in Nat /\ S0 \in Nat /\ i \in Nat /\ tmp \in Nat
        /\ S0 <= i /\ i <= lattmp /\ holes \in Seq(Hole) /\ Len(holes) \in Nat
        /\ genpc \in {"back", "fwd"} => i < lattmp /\ S0 <= tmp /\ tmp <= i
        /\ \A k \in DOMAIN holes : holes[k].le \in Int /\ holes[k].re \in Int
    BY <2>2, PrepPlace
  <2>4. /\ InOrder(holes)
        /\ genpc = "test" => i = S0 \/ i = lattmp \/ ~Lost(window, i - 1)
        /\ genpc = "back" => tmp = i /\ ~GoesBack
        /\ genpc = "fwd" => \A k \in DOMAIN holes : holes[k].re < tmp
        /\ loss = (card + IF genpc = "fwd" THEN i - tmp ELSE 0) % LossMod
    BY <2>1, <2>2 DEF Counted
  <2>5. IsFiniteSet(Covered(holes)) /\ card \in Nat
    BY CoveredFinite, FS_CardinalityType DEF TypeInv
  <2>6. LossMod \in Nat \ {0}  BY Constants
  <2>7. \A k \in DOMAIN holes : holes[k].re < i  BY <2>2 DEF ListSound
  <2> HIDE DEF S0, card
  <2>8. SUFFICES
      /\ InOrder(holes')
      /\ genpc' = "test" => i' = S0 \/ i' = lattmp \/ ~Lost(window, i' - 1)
      /\ genpc' = "back" => tmp' = i' /\ ~GoesBack'
      /\ genpc' = "fwd" => \A k \in DOMAIN holes' : holes'[k].re < tmp'
      /\ loss' = (Cardinality(Covered(holes')) + IF genpc' = "fwd" THEN i' - tmp' ELSE 0) % LossMod
    BY <2>2 DEF Counted, S0
  <2>9. CASE PrepReceived
    <3>1. /\ ~Lost(window, i) /\ i' = i + 1 /\ genpc = "test" /\ genpc' = "test"
          /\ UNCHANGED <<holes, loss>>
      BY <2>9 DEF PrepReceived
    <3>2. i' - 1 = i  BY <2>3, <3>1
    <3>3. QED  BY <2>4, <3>1, <3>2 DEF card
  <2>10. CASE PrepLost
    <3>1. /\ i < lattmp /\ tmp' = i /\ genpc = "test" /\ genpc' = "back"
          /\ UNCHANGED <<i, holes, loss>>
      BY <2>10 DEF PrepLost, ScanGoesOn
    <3>2. ~(LostBefore(window, i) /\ i > 0 /\ S0 < i - 1)
      <4>1. SUFFICES ASSUME LostBefore(window, i), i > 0, S0 < i - 1 PROVE FALSE  OBVIOUS
      <4>2. ~Lost(window, i - 1)  BY <2>3, <2>4, <3>1, <4>1
      <4>3. i < WINDOW \/ window[-1] # 0
        BY <2>1, <2>3, <3>1, Constants DEF WordInFrontUnused
      <4>4. QED  BY <2>3, <4>1, <4>2, <4>3, SlotBefore
    <3>3. GoesBack' <=> LostBefore(window, i) /\ i > 0 /\ S0 < i - 1
      BY <2>2, <3>1 DEF GoesBack, S0
    <3>4. QED  BY <2>4, <3>1, <3>2, <3>3 DEF card
  <2>11. CASE PrepBack
    <3>1. genpc = "back" /\ tmp = i /\ ~GoesBack  BY <2>4, <2>11 DEF PrepBack
    <3>2. genpc' = "fwd" /\ UNCHANGED <<i, tmp, loss, holes>>  BY <2>11, <3>1 DEF PrepBack
    <3>3. i' - tmp' = 0  BY <2>3, <3>1, <3>2
    <3>4. QED  BY <2>4, <2>7, <3>1, <3>2, <3>3 DEF card
  <2>12. CASE PrepForward
    <3>1. /\ genpc = "fwd" /\ i' = i + 1 /\ tmp' = tmp
          /\ \/ loss' = (loss + 1) % LossMod /\ UNCHANGED <<genpc, holes>>
             \/ /\ ~(Lost(window, i) /\ i < lattmp - 1)
                /\ holes' = Append(holes, [le |-> tmp, re |-> i]) /\ genpc' = "test"
                /\ UNCHANGED loss
      BY <2>12 DEF PrepForward
    <3>2. /\ i < lattmp /\ tmp <= i /\ loss = (card + (i - tmp)) % LossMod
          /\ \A k \in DOMAIN holes : holes[k].re < tmp
      BY <2>3, <2>4, <3>1
    <3>3. CASE loss' = (loss + 1) % LossMod /\ UNCHANGED <<genpc, holes>>
      <4>1. card + (i - tmp) \in Nat  BY <2>3, <2>5, <3>2
      <4>2. loss' = ((card + (i - tmp)) + 1) % LossMod
        BY <2>6, <3>2, <3>3, <4>1, OneMore
      <4>3. (card + (i - tmp)) + 1 = card + (i' - tmp')  BY <2>3, <2>5, <3>1
      <4>4. QED  BY <2>4, <3>1, <3>2, <3>3, <4>2, <4>3 DEF card
    <3>4. CASE /\ ~(Lost(window, i) /\ i < lattmp - 1)
               /\ holes' = Append(holes, [le |-> tmp, re |-> i]) /\ genpc' = "test"
               /\ UNCHANGED loss
      <4>1. /\ DOMAIN holes' = DOMAIN holes \cup {Len(holes) + 1} /\ DOMAIN holes = 1..Len(holes)
            /\ holes'[Len(holes) + 1].le = tmp /\ holes'[Len(holes) + 1].re = i
            /\ \A k \in DOMAIN holes : holes'[k] = holes[k]
        BY <2>3, <3>4
      <4>2. InOrder(holes')
        <5>1. \A k \in DOMAIN holes' : holes'[k].le <= holes'[k].re
          BY <2>4, <3>2, <4>1 DEF InOrder
        <5>2. ASSUME NEW k \in DOMAIN holes' \ {1} PROVE holes'[k - 1].re < holes'[k].le
          <6>1. CASE k = Len(holes) + 1
            <7>1. k - 1 \in DOMAIN holes /\ k - 1 = Len(holes)  BY <2>3, <4>1, <5>2, <6>1
            <7>2. QED  BY <3>2, <4>1, <6>1, <7>1
          <6>2. CASE k \in DOMAIN holes
            <7>1. k - 1 \in DOMAIN holes /\ k \in DOMAIN holes \ {1}  BY <4>1, <5>2, <6>2
            <7>2. QED  BY <2>4, <4>1, <7>1 DEF InOrder
          <6>3. QED  BY <4>1, <6>1, <6>2
        <5>3. QED  BY <5>1, <5>2 DEF InOrder
      <4>3. Cardinality(Covered(holes')) = card + (i - tmp)
        <5>1. tmp \in Int /\ i \in Int /\ tmp <= i  BY <2>3, <3>2
        <5>2. QED  BY <2>3, <2>5, <3>2, <3>4, <5>1, HoleAdds DEF card
      <4>4. i' = lattmp \/ ~Lost(window, i' - 1)
        <5>1. i' - 1 = i /\ (i = lattmp - 1 => i' = lattmp)  BY <2>3, <3>1
        <5>2. i = lattmp - 1 \/ i < lattmp - 1  BY <2>3, <3>2
        <5>3. QED  BY <3>4, <5>1, <5>2
      <4>5. (card + (i - tmp)) + 0 = card + (i - tmp)  BY <2>3, <2>5
      <4>6. QED  BY <3>2, <3>4, <4>2, <4>3, <4>4, <4>5
    <3>5. QED  BY <3>1, <3>3, <3>4
  <2>13. CASE PrepBuilt
    <3>1. genpc = "test" /\ genpc' = "built" /\ UNCHANGED <<holes, loss>>
      BY <2>13 DEF PrepBuilt
    <3>2. QED  BY <2>4, <3>1 DEF card
  <2>14. QED  BY <1>5, <2>9, <2>10, <2>11, <2>12, <2>13
<1>6. QED  BY <1>1, <1>2, <1>3, <1>4, <1>5 DEF Next, Prep

(* A finished report is the list of the holes of the window, as many as    *)
(* fit, unless a frame came in during the scan: whatever was lost, and     *)
(* even when sequence numbers wrap (dack.c:261-283).                       *)
THEOREM ReportExactHolds == Spec => []ReportExact
<1>1. Init => ExactInv
  <2> SUFFICES ASSUME Init PROVE ExactInv  OBVIOUS
  <2>1. genpc = "idle"  BY DEF Init
  <2>2. QED  BY <2>1, InitType DEF ExactInv, ListSound, Found, Counted
<1>2. ExactInv /\ [Next]_vars => ExactInv'
  BY NextType, NextList, NextFound, NextCounted DEF ExactInv
<1>3. ExactInv => ReportExact
  <2> SUFFICES ASSUME ExactInv, genpc = "built", quiet
               PROVE  /\ holes = HolesOf(window, lattmp)
                      /\ WordInFrontUnused =>
                           InOrder(holes) /\ loss = Cardinality(Covered(holes)) % LossMod
    BY DEF ReportExact
  <2>1. TypeInv /\ ListSound /\ Found /\ Counted  BY DEF ExactInv
  <2> DEFINE all == ScanOf(window, lattmp)[ScanStart(lattmp)]
  <2>2. all = holes \o Rest(i)  BY <2>1 DEF Found, Ahead, Rest
  <2>3. /\ lattmp \in Nat /\ lattmp <= SeqMod - 1 /\ i \in ScanStart(lattmp)..lattmp
        /\ holes \in Seq(Hole) /\ Len(holes) \in Nat
    BY <2>1, PrepPlace
  <2>4. Len(holes) <= HOLES_MAX /\ (i = lattmp \/ Len(holes) = HOLES_MAX)
    BY <2>1 DEF ListSound
  <2>5. Rest(i) \in Seq(Hole) /\ (i = lattmp => Rest(i) = <<>>)
    BY <2>3, ScanFrom DEF Rest
  <2>6. Len(all) = Len(holes) + Len(Rest(i)) /\ Len(Rest(i)) \in Nat
    BY <2>2, <2>3, <2>5, ConcatProperties, LenProperties
  <2>7. HOLES_MAX \in Nat \ {0}  BY Constants
  <2>8. (IF Len(all) < HOLES_MAX THEN Len(all) ELSE HOLES_MAX) = Len(holes)
    <3> HIDE DEF all
    <3>1. CASE i = lattmp
      <4>1. Len(Rest(i)) = 0  BY <2>5, <3>1
      <4>2. QED  BY <2>3, <2>4, <2>6, <2>7, <4>1
    <3>2. CASE Len(holes) = HOLES_MAX  BY <2>3, <2>6, <2>7, <3>2
    <3>3. QED  BY <2>4, <3>1, <3>2
  <2>9. SubSeq(all, 1, Len(holes)) = holes
    <3> HIDE DEF all
    <3>1. CASE Len(holes) = 0
      <4>1. holes = <<>>  BY <2>3, <3>1, EmptySeq
      <4>2. QED  BY <3>1, <4>1, SubSeqEmpty
    <3>2. CASE Len(holes) # 0
      <4>1. 1 \in 1..Len(holes) /\ Len(holes) \in 1..Len(holes)  BY <2>3, <3>2
      <4>2. SubSeq(holes \o Rest(i), 1, Len(holes)) = SubSeq(holes, 1, Len(holes))
        BY <2>3, <2>5, <4>1, SubSeqOfConcat1
      <4>3. QED  BY <2>2, <2>3, <4>2, SubSeqFull
    <3>3. QED  BY <3>1, <3>2
  <2>10. HolesOf(window, lattmp) = holes  BY <2>8, <2>9, HolesOfScan
  <2>11. ASSUME WordInFrontUnused
         PROVE  InOrder(holes) /\ loss = Cardinality(Covered(holes)) % LossMod
    <3>1. InOrder(holes) /\ loss = (Cardinality(Covered(holes)) + 0) % LossMod
      BY <2>1, <2>11 DEF Counted
    <3>2. Cardinality(Covered(holes)) \in Nat
      BY <2>1, CoveredFinite, FS_CardinalityType DEF TypeInv
    <3>3. QED  BY <3>1, <3>2
  <2>12. QED  BY <2>10, <2>11
<1>4. QED  BY <1>1, <1>2, <1>3, PTL DEF Spec

(* Both halves of what a report of prepDACK promises (dack.c:256-283).     *)
THEOREM ReportSoundHolds == ASSUME NoWrap, LagFits PROVE Spec => []ReportSound
<1>1. Spec => []ReportCovers /\ []ReportExact  BY ReportCoversHolds, ReportExactHolds
<1>2. QED  BY <1>1, PTL DEF ReportSound
=============================================================================
