--------------------------- MODULE VmacQueueProofs --------------------------
(***************************************************************************)
(* Invariance and refinement proofs for VmacQueue, for any number of frames*)
(* and slots.                                                              *)
(***************************************************************************)
EXTENDS VmacQueue, SequenceTheorems, TLAPS

----------------------------------------------------------------------------
(* Lists and the frames in them.                                           *)

LEMMA FramesAppend ==
  ASSUME NEW S, NEW s \in Seq(S), NEW f \in S
  PROVE  /\ Append(s, f) \in Seq(S) /\ Append(s, f) # <<>>
         /\ Frames(Append(s, f)) = Frames(s) \cup {f}
         /\ s # <<>> => /\ Head(Append(s, f)) = Head(s)
                        /\ Tail(Append(s, f)) = Append(Tail(s), f)
<1>1. /\ Append(s, f) \in Seq(S) /\ Append(s, f) # <<>>
      /\ DOMAIN Append(s, f) = 1..Len(s) + 1 /\ DOMAIN s = 1..Len(s) /\ Len(s) \in Nat
      /\ \A i \in 1..Len(s) : Append(s, f)[i] = s[i]
      /\ Append(s, f)[Len(s) + 1] = f
  BY AppendProperties, LenProperties
<1>2. Frames(Append(s, f)) = Frames(s) \cup {f}  BY <1>1 DEF Frames
<1>3. ASSUME s # <<>>
      PROVE  Head(Append(s, f)) = Head(s) /\ Tail(Append(s, f)) = Append(Tail(s), f)
  <2>1. Len(s) > 0  BY <1>3, <1>1, EmptySeq
  <2>2. Head(Append(s, f)) = Head(s)  BY <2>1, <1>1
  <2>3. Tail(Append(s, f)) = Append(Tail(s), f)  BY <2>1, <1>1
  <2>4. QED  BY <2>2, <2>3
<1>4. QED  BY <1>1, <1>2, <1>3

LEMMA FramesTail ==
  ASSUME NEW S, NEW s \in Seq(S)
  PROVE  /\ Frames(s) \subseteq S
         /\ s = <<>> => Frames(s) = {}
         /\ s # <<>> => /\ Head(s) \in S /\ Tail(s) \in Seq(S)
                        /\ Frames(s) = {Head(s)} \cup Frames(Tail(s))
                        /\ Len(s) = 1 <=> Tail(s) = <<>>
                        /\ Len(s) = 2 <=> Len(Tail(s)) = 1
<1>1. DOMAIN s = 1..Len(s) /\ Len(s) \in Nat /\ \A i \in 1..Len(s) : s[i] \in S
  BY LenProperties, ElementOfSeq
<1>2. Frames(s) \subseteq S  BY <1>1 DEF Frames
<1>3. s = <<>> => Frames(s) = {}  BY DEF Frames
<1>4. ASSUME s # <<>>
      PROVE  /\ Head(s) \in S /\ Tail(s) \in Seq(S)
             /\ Frames(s) = {Head(s)} \cup Frames(Tail(s))
             /\ Len(s) = 1 <=> Tail(s) = <<>>
             /\ Len(s) = 2 <=> Len(Tail(s)) = 1
  <2>1. /\ Head(s) \in S /\ Head(s) = s[1] /\ Tail(s) \in Seq(S) /\ Len(Tail(s)) = Len(s) - 1
        /\ \A i \in 1..Len(Tail(s)) : Tail(s)[i] = s[i + 1]
        /\ Len(s) > 0
    BY <1>4, <1>1, HeadTailProperties, EmptySeq
  <2>2. DOMAIN Tail(s) = 1..Len(s) - 1  BY <2>1, LenProperties
  <2>3. Frames(s) = {Head(s)} \cup Frames(Tail(s))
    <3>1. \A f \in Frames(Tail(s)) : f \in Frames(s)  BY <1>1, <2>1, <2>2 DEF Frames
    <3>2. ASSUME NEW i \in 1..Len(s), i # 1 PROVE s[i] \in Frames(Tail(s))
      <4>1. i - 1 \in 1..Len(s) - 1 /\ Tail(s)[i - 1] = s[i]  BY <3>2, <1>1, <2>1
      <4>2. QED  BY <4>1, <2>2 DEF Frames
    <3>3. \A f \in Frames(s) : f = Head(s) \/ f \in Frames(Tail(s))
      BY <1>1, <2>1, <3>2 DEF Frames
    <3>4. Head(s) \in Frames(s)  BY <1>1, <2>1 DEF Frames
    <3>5. QED  BY <3>1, <3>3, <3>4
  <2>4. Len(s) = 1 <=> Tail(s) = <<>>
    <3>1. Tail(s) = <<>> <=> Len(Tail(s)) = 0  BY <2>1, EmptySeq
    <3>2. QED  BY <3>1, <2>1, <1>1
  <2>5. QED  BY <2>1, <2>3, <2>4, <1>1
<1>5. QED  BY <1>2, <1>3, <1>4

----------------------------------------------------------------------------
(* The inductive invariant of the transmit side.                           *)
MgmtPlaces == {"mstat", "msend", "munlink"}
UserPlaces == {"ustat", "usend", "uunlink"}
MgmtCame == {"mgmt"} \X (1..mcame)
UserCame == {"user"} \X (1..ucame)

TxType ==
  /\ mqueue \in Seq(Mgmt) /\ uqueue \in Seq(User) /\ air \in Seq(Mgmt \cup User)
  /\ mcame \in 0..MaxMgmt /\ ucame \in 0..MaxUser
  /\ pc \in {"sleep"} \cup MgmtPlaces \cup UserPlaces
  /\ {last, local, hw, broke} \subseteq BOOLEAN
  /\ due \in 0..mcame

(* A list is not empty while the thread looks at its first entry, and has  *)
(* a second one unless the thread expects to be at the end.                *)
WalkSound ==
  /\ pc \in MgmtPlaces => mqueue # <<>> /\ (~last => Tail(mqueue) # <<>>)
  /\ pc \in UserPlaces => uqueue # <<>> /\ (~last => Tail(uqueue) # <<>>)

(* The frame under work has been sent before it is unlinked.               *)
SentFirst ==
  /\ pc = "munlink" => Head(mqueue) \in Frames(air)
  /\ pc = "uunlink" => Head(uqueue) \in Frames(air)

(* Every frame anywhere has come.                                          *)
OnlyCame ==
  /\ Frames(mqueue) \subseteq MgmtCame /\ Frames(uqueue) \subseteq UserCame
  /\ Frames(air) \subseteq MgmtCame \cup UserCame

(* A slot that was seen free stays free until the frame is given.          *)
SlotKept == slots \in 0..Slots /\ (pc \in {"msend", "usend"} => slots # 0)

(* When the first walk is at its last entry, what waits behind it came     *)
(* after the turn began; when the walk was not broken off, what was due    *)
(* has been sent before the second walk.                                   *)
DueFirst ==
  /\ pc \in MgmtPlaces /\ last =>
       \A n \in 1..due : <<"mgmt", n>> \notin Frames(Tail(mqueue))
  /\ pc \in UserPlaces /\ ~broke => DueSent

TxKept ==
  /\ \A n \in 1..mcame : <<"mgmt", n>> \in Frames(mqueue) \cup Frames(air) \cup lost
  /\ \A n \in 1..ucame : <<"user", n>> \in Frames(uqueue) \cup Frames(air) \cup lost

TxInv == TxType /\ WalkSound /\ SentFirst /\ OnlyCame /\ SlotKept /\ DueFirst /\ TxKept

(* And of the receive side, where one list of all DACKs, served and not,   *)
(* only grows at its end.                                                  *)
All == served \o Waiting
Rx == {"rx"} \X (1..MaxRx)

RxInv ==
  /\ rxq \in Seq(Rx) /\ served \in Seq(Rx) /\ rxcame \in 0..MaxRx
  /\ rpc \in {"sleep", "unlink"} /\ (rpc = "unlink" => rxq # <<>>)
  /\ All \in Seq(Rx)
  /\ \A i \in DOMAIN All : All[i][2] <= rxcame
  /\ \A n \in 1..rxcame : <<"rx", n>> \in Frames(All) \cup lost
  /\ \A i, j \in DOMAIN All : i < j => All[i][2] < All[j][2]

QueueInv == TxInv /\ RxInv

LEMMA QueueInvSuffices == QueueInv => TypeOK /\ EachOnce /\ MgmtFirstUnlessFull
<1> SUFFICES ASSUME QueueInv PROVE TypeOK /\ EachOnce /\ MgmtFirstUnlessFull  OBVIOUS
<1>1. slots \in Int  BY QueueAssumption DEF QueueInv, TxInv, SlotKept
<1>2. TypeOK
  BY <1>1 DEF QueueInv, TxInv, RxInv, TxType, Rx, MgmtPlaces, UserPlaces, TypeOK
<1>3. EachOnce  BY DEF QueueInv, TxInv, RxInv, TxKept, All, EachOnce
<1>4. MgmtFirstUnlessFull
  BY DEF QueueInv, TxInv, DueFirst, SlotKept, UserPlaces, MgmtFirstUnlessFull
<1>5. QED  BY <1>2, <1>3, <1>4

LEMMA InitQueue == Init => QueueInv
<1> SUFFICES ASSUME Init PROVE QueueInv  OBVIOUS
<1>1. <<>> \in Seq(Mgmt) /\ <<>> \in Seq(User) /\ <<>> \in Seq(Mgmt \cup User) /\ <<>> \in Seq(Rx)
      /\ Frames(<<>>) = {} /\ <<>> \o <<>> = <<>> /\ DOMAIN <<>> = {}
  BY DEF Frames
<1>2. TxInv
  <2>1. TxType /\ SlotKept
    <3>1. {MaxMgmt, MaxUser, Slots} \subseteq Nat  BY QueueAssumption
    <3>2. mcame \in 0..MaxMgmt /\ ucame \in 0..MaxUser /\ due \in 0..mcame
      BY <3>1 DEF Init
    <3>3. SlotKept  BY <3>1 DEF Init, SlotKept
    <3>4. TxType  BY <1>1, <3>2 DEF Init, TxType
    <3>5. QED  BY <3>3, <3>4
  <2>2. WalkSound /\ SentFirst /\ DueFirst
    BY DEF Init, MgmtPlaces, UserPlaces, WalkSound, SentFirst, DueFirst
  <2>3. OnlyCame /\ TxKept  BY <1>1 DEF Init, OnlyCame, TxKept
  <2>4. QED  BY <2>1, <2>2, <2>3 DEF TxInv
<1>3. RxInv  BY <1>1, QueueAssumption DEF Init, RxInv, All, Waiting
<1>4. QED  BY <1>2, <1>3 DEF QueueInv

----------------------------------------------------------------------------
(* The receive side.                                                       *)
LEMMA RxUnchanged ==
  ASSUME RxInv, UNCHANGED rxVars, lost \subseteq lost'
  PROVE  RxInv'
<1>1. All' = All  BY DEF rxVars, All, Waiting
<1>2. QED  BY <1>1 DEF RxInv, rxVars

LEMMA ConcatAppend ==
  ASSUME NEW S, NEW s \in Seq(S), NEW t \in Seq(S), NEW f \in S
  PROVE  /\ s \o Append(t, f) = Append(s \o t, f)
         /\ t # <<>> => Append(s, Head(t)) \o Tail(t) = s \o t
<1>1. s \o Append(t, f) = Append(s \o t, f)  OBVIOUS
<1>2. ASSUME t # <<>> PROVE Append(s, Head(t)) \o Tail(t) = s \o t
  <2> DEFINE u == Append(s, Head(t))
  <2>1. Head(t) \in S /\ Head(t) = t[1] /\ Tail(t) \in Seq(S) /\ Len(Tail(t)) = Len(t) - 1
        /\ \A i \in 1..Len(Tail(t)) : Tail(t)[i] = t[i + 1]
    BY <1>2, HeadTailProperties, EmptySeq
  <2>2. /\ u \in Seq(S) /\ Len(u) = Len(s) + 1 /\ u[Len(s) + 1] = t[1]
        /\ \A i \in 1..Len(s) : u[i] = s[i]
    BY <2>1, AppendProperties
  <2>3. Len(t) \in Nat \ {0} /\ Len(s) \in Nat  BY <1>2, EmptySeq, LenProperties
  <2> HIDE DEF u
  <2>4. /\ u \o Tail(t) \in Seq(S) /\ Len(u \o Tail(t)) = Len(s) + Len(t)
        /\ \A i \in 1..Len(s) + Len(t) : (u \o Tail(t))[i] =
             IF i <= Len(s) + 1 THEN u[i] ELSE Tail(t)[i - (Len(s) + 1)]
    <3>1. /\ u \o Tail(t) \in Seq(S) /\ Len(u \o Tail(t)) = Len(u) + Len(Tail(t))
          /\ \A i \in 1..Len(u) + Len(Tail(t)) : (u \o Tail(t))[i] =
               IF i <= Len(u) THEN u[i] ELSE Tail(t)[i - Len(u)]
      BY <2>1, <2>2, ConcatProperties
    <3>2. Len(u) + Len(Tail(t)) = Len(s) + Len(t)  BY <2>1, <2>2, <2>3
    <3>3. QED  BY <2>2, <3>1, <3>2
  <2>5. /\ s \o t \in Seq(S) /\ Len(s \o t) = Len(s) + Len(t)
        /\ \A i \in 1..Len(s) + Len(t) : (s \o t)[i] = IF i <= Len(s) THEN s[i] ELSE t[i - Len(s)]
    BY ConcatProperties
  <2>6. ASSUME NEW i \in 1..Len(s) + Len(t) PROVE (u \o Tail(t))[i] = (s \o t)[i]
    <3>1. CASE i \in 1..Len(s)  BY <2>2, <2>3, <2>4, <2>5, <3>1
    <3>2. CASE i = Len(s) + 1  BY <2>2, <2>3, <2>4, <2>5, <3>2
    <3>3. CASE i > Len(s) + 1
      <4>1. i - (Len(s) + 1) \in 1..Len(t) - 1  BY <2>3, <3>3
      <4>2. Tail(t)[i - (Len(s) + 1)] = t[i - Len(s)]  BY <2>1, <2>3, <4>1
      <4>3. QED  BY <2>3, <2>4, <2>5, <3>3, <4>2
    <3>4. i \in 1..Len(s) \/ i = Len(s) + 1 \/ i > Len(s) + 1  BY <2>3
    <3>5. QED  BY <3>1, <3>2, <3>3, <3>4
  <2>7. QED  BY <2>4, <2>5, <2>6, SeqEqual DEF u
<1>3. QED  BY <1>1, <1>2

LEMMA ServeRx == ASSUME RxInv, RqueueThread PROVE RxInv'
<1>1. All' = All
  <2>1. CASE RxServe
    BY <2>1, ConcatAppend DEF RxServe, RxInv, All, Waiting
  <2>2. CASE RxUnlink
    BY <2>2 DEF RxUnlink, RxInv, All, Waiting
  <2>3. QED  BY <2>1, <2>2 DEF RqueueThread
<1>2. rxcame' = rxcame /\ lost' = lost  BY DEF RqueueThread, RxServe, RxUnlink
<1>3. /\ rxq' \in Seq(Rx) /\ served' \in Seq(Rx) /\ rpc' \in {"sleep", "unlink"}
      /\ rpc' = "unlink" => rxq' # <<>>
  <2>1. CASE RxServe
    BY <2>1, FramesTail, AppendProperties DEF RxServe, RxInv
  <2>2. CASE RxUnlink  BY <2>2, FramesTail DEF RxUnlink, RxInv
  <2>3. QED  BY <2>1, <2>2 DEF RqueueThread
<1>4. QED  BY <1>1, <1>2, <1>3 DEF RxInv

LEMMA AddRx == ASSUME RxInv, AddMgmt PROVE RxInv'
<1> DEFINE f == <<"rx", rxcame + 1>>
<1>1. f \in Rx /\ rxcame \in Nat /\ rxcame' = rxcame + 1 /\ rxcame' \in 0..MaxRx
      /\ served' = served /\ rpc' = rpc
  BY QueueAssumption DEF AddMgmt, RxInv, Rx
<1>2. CASE rxq' = rxq /\ lost' = lost \cup {f}
  <2>1. All' = All  BY <1>1, <1>2 DEF All, Waiting
  <2>2. \A n \in 1..rxcame' : n \in 1..rxcame \/ n = rxcame + 1  BY <1>1
  <2>3. \A i \in DOMAIN All : All[i][2] <= rxcame'
    <3>1. \A i \in DOMAIN All : All[i] \in Rx  BY LenProperties, ElementOfSeq DEF RxInv
    <3>2. QED  BY <1>1, <3>1 DEF RxInv, Rx
  <2>4. \A n \in 1..rxcame' : <<"rx", n>> \in Frames(All) \cup lost'
    BY <1>2, <2>2 DEF RxInv
  <2>5. QED  BY <1>1, <1>2, <2>1, <2>3, <2>4 DEF RxInv
<1>3. CASE rxq' = Append(rxq, f) /\ lost' = lost
  <2>1. rxq' \in Seq(Rx) /\ rxq' # <<>>  BY <1>1, <1>3, FramesAppend DEF RxInv
  <2>2. All' = Append(All, f)
    <3>1. Waiting' = Append(Waiting, f) /\ Waiting \in Seq(Rx)
      BY <1>1, <1>3, FramesAppend, FramesTail DEF Waiting, RxInv
    <3>2. QED  BY <1>1, <3>1, ConcatAppend DEF All, RxInv
  <2>3. /\ All' \in Seq(Rx) /\ Frames(All') = Frames(All) \cup {f}
        /\ Len(All) \in Nat /\ DOMAIN All = 1..Len(All) /\ DOMAIN All' = 1..Len(All) + 1
        /\ \A i \in 1..Len(All) : All'[i] = All[i] /\ All[i] \in Rx
        /\ All'[Len(All) + 1] = f
    <3>1. All \in Seq(Rx)  BY DEF RxInv
    <3> HIDE DEF f
    <3>2. All' \in Seq(Rx) /\ Frames(All') = Frames(All) \cup {f}
      BY <1>1, <2>2, <3>1, FramesAppend
    <3>3. Len(All) \in Nat /\ DOMAIN All = 1..Len(All) /\ \A i \in 1..Len(All) : All[i] \in Rx
      BY <3>1, LenProperties, ElementOfSeq
    <3>4. /\ Len(All') = Len(All) + 1 /\ All'[Len(All) + 1] = f
          /\ \A i \in 1..Len(All) : All'[i] = All[i]
      BY <1>1, <2>2, <3>1, AppendProperties
    <3>5. DOMAIN All' = 1..Len(All')  BY <3>2, LenProperties
    <3>6. QED  BY <3>2, <3>3, <3>4, <3>5
  <2>4. \A n \in 1..rxcame' : n \in 1..rxcame \/ n = rxcame + 1  BY <1>1
  <2>5. \A n \in 1..rxcame' : <<"rx", n>> \in Frames(All') \cup lost'
    BY <1>3, <2>3, <2>4 DEF RxInv
  <2> DEFINE N == Len(All)
             v(i) == All[i][2]
  <2>6. /\ \A i \in 1..N : v(i) \in Nat /\ v(i) <= rxcame /\ All'[i][2] = v(i)
        /\ \A i, j \in 1..N : i < j => v(i) < v(j)
        /\ All'[N + 1][2] = rxcame + 1
    <3>1. \A i \in 1..N : All[i] \in Rx /\ All'[i] = All[i]  BY <2>3
    <3>2. \A i \in 1..N : v(i) \in Nat  BY <3>1 DEF Rx
    <3>3. (\A i \in 1..N : v(i) <= rxcame) /\ \A i, j \in 1..N : i < j => v(i) < v(j)
      BY <2>3 DEF RxInv
    <3>4. All'[N + 1][2] = rxcame + 1  BY <2>3
    <3>5. QED  BY <3>1, <3>2, <3>3, <3>4
  <2> HIDE DEF N, v
  <2>7. \A i \in 1..N + 1 : i \in 1..N \/ i = N + 1  BY <2>3 DEF N
  <2>8. \A i \in 1..N + 1 : All'[i][2] <= rxcame'  BY <1>1, <2>6, <2>7
  <2>9. \A i, j \in 1..N + 1 : i < j => All'[i][2] < All'[j][2]
    <3> SUFFICES ASSUME NEW i \in 1..N + 1, NEW j \in 1..N + 1, i < j
                 PROVE  All'[i][2] < All'[j][2]
      OBVIOUS
    <3>1. i \in 1..N  BY <2>3, <2>7 DEF N
    <3>2. CASE j \in 1..N  BY <2>6, <3>1, <3>2
    <3>3. CASE j = N + 1  BY <1>1, <2>6, <3>1, <3>3
    <3>4. QED  BY <2>7, <3>2, <3>3
  <2>10. QED
    BY <1>1, <2>1, <2>3, <2>5, <2>8, <2>9 DEF RxInv, N
<1>4. QED  BY <1>2, <1>3 DEF AddMgmt

----------------------------------------------------------------------------
(* The transmit side: steps that leave the lists and the frames given      *)
(* alone, and go nowhere that something new is expected of.                *)
LEMMA QuietTx ==
  ASSUME TxInv, UNCHANGED <<mqueue, uqueue, mcame, ucame, air, due, lost, last, broke>>,
         {local', hw'} \subseteq BOOLEAN, slots' \in 0..Slots,
         \/ pc' = pc /\ (pc \in {"msend", "usend"} => slots' # 0)
         \/ pc' = "sleep"
         \/ pc = "mstat" /\ pc' = "msend" /\ slots' # 0
         \/ pc = "ustat" /\ pc' = "usend" /\ slots' # 0
  PROVE  TxInv'
<1> USE DEF TxInv, MgmtPlaces, UserPlaces
<1>1. TxType'  BY DEF TxType
<1>2. WalkSound'  BY DEF WalkSound
<1>3. SentFirst'  BY DEF SentFirst
<1>4. OnlyCame'  BY DEF OnlyCame, MgmtCame, UserCame
<1>5. SlotKept'  BY DEF SlotKept
<1>6. DueFirst'  BY DEF DueFirst, DueSent
<1>7. TxKept'  BY DEF TxKept
<1>8. QED  BY <1>1, <1>2, <1>3, <1>4, <1>5, <1>6, <1>7

(* A frame comes for either list, or is lost.                              *)
LEMMA MgmtComes == ASSUME TxInv, EnqMgmt PROVE TxInv'
<1> DEFINE f == <<"mgmt", mcame + 1>>
<1> USE DEF TxInv
<1>1. /\ f \in Mgmt /\ mcame \in Nat /\ mcame' = mcame + 1 /\ mcame' \in 0..MaxMgmt
      /\ due \in 0..mcame
  BY QueueAssumption DEF EnqMgmt, TxType, Mgmt
<1>2. UNCHANGED <<uqueue, ucame, pc, last, local, hw, slots, air, due, broke>>
  BY DEF EnqMgmt
<1>3. /\ mqueue' \in Seq(Mgmt) /\ Frames(mqueue) \subseteq Frames(mqueue')
      /\ Frames(mqueue') \subseteq Frames(mqueue) \cup {f}
      /\ f \in Frames(mqueue') \cup lost' /\ lost \subseteq lost'
      /\ mqueue # <<>> => /\ mqueue' # <<>> /\ Head(mqueue') = Head(mqueue)
                          /\ Tail(mqueue) # <<>> => Tail(mqueue') # <<>>
                          /\ Frames(Tail(mqueue')) \subseteq Frames(Tail(mqueue)) \cup {f}
  <2>1. CASE mqueue' = mqueue /\ lost' = lost \cup {f}  BY <2>1 DEF TxType
  <2>2. CASE mqueue' = Append(mqueue, f) /\ lost' = lost
    <3> HIDE DEF f
    <3>0. mqueue \in Seq(Mgmt) /\ f \in Mgmt  BY <1>1 DEF TxType
    <3>1. /\ mqueue' \in Seq(Mgmt) /\ mqueue' # <<>> /\ Frames(mqueue') = Frames(mqueue) \cup {f}
          /\ mqueue # <<>> => Head(mqueue') = Head(mqueue) /\ Tail(mqueue') = Append(Tail(mqueue), f)
      BY <2>2, <3>0, FramesAppend
    <3>2. ASSUME mqueue # <<>>
          PROVE  /\ Append(Tail(mqueue), f) # <<>>
                 /\ Frames(Append(Tail(mqueue), f)) = Frames(Tail(mqueue)) \cup {f}
      <4> DEFINE t == Tail(mqueue)
      <4>1. t \in Seq(Mgmt)  BY <3>0, <3>2, FramesTail
      <4> HIDE DEF t
      <4>2. Append(t, f) # <<>> /\ Frames(Append(t, f)) = Frames(t) \cup {f}
        BY <3>0, <4>1, FramesAppend
      <4>3. QED  BY <4>2 DEF t
    <3>3. QED  BY <2>2, <3>1, <3>2
  <2>3. QED  BY <2>1, <2>2 DEF EnqMgmt
<1>4. TxType'
  <2>1. due \in 0..mcame'  BY <1>1
  <2>2. QED  BY <1>1, <1>2, <1>3, <2>1 DEF TxType
<1>5. MgmtCame' = MgmtCame \cup {f}
  <2>1. \A n : n \in 1..mcame + 1 <=> n \in 1..mcame \/ n = mcame + 1  BY <1>1
  <2>2. QED  BY <1>1, <2>1 DEF MgmtCame
<1>6. OnlyCame'  BY <1>2, <1>3, <1>5 DEF OnlyCame, UserCame
<1>7. WalkSound'  BY <1>2, <1>3 DEF WalkSound
<1>8. SentFirst'  BY <1>2, <1>3 DEF SentFirst, WalkSound, MgmtPlaces
<1>9. SlotKept'  BY <1>2 DEF SlotKept
<1>10. DueFirst'
  <2>1. \A n \in 1..due : <<"mgmt", n>> # f  BY <1>1
  <2>2. DueSent => DueSent'  BY <1>2, <1>3 DEF DueSent
  <2>3. QED  BY <1>2, <1>3, <2>1, <2>2 DEF DueFirst, WalkSound
<1>11. TxKept'
  <2>1. \A n \in 1..mcame' : n \in 1..mcame \/ n = mcame + 1  BY <1>1
  <2>2. QED  BY <1>2, <1>3, <2>1 DEF TxKept
<1>12. QED  BY <1>4, <1>6, <1>7, <1>8, <1>9, <1>10, <1>11

LEMMA UserComes == ASSUME TxInv, EnqUser PROVE TxInv'
<1> DEFINE f == <<"user", ucame + 1>>
<1> USE DEF TxInv
<1>1. f \in User /\ ucame \in Nat /\ ucame' = ucame + 1 /\ ucame' \in 0..MaxUser
  BY QueueAssumption DEF EnqUser, TxType, User
<1>2. UNCHANGED <<mqueue, mcame, pc, last, local, hw, slots, air, due, broke>>
  BY DEF EnqUser
<1>3. /\ uqueue' \in Seq(User) /\ Frames(uqueue) \subseteq Frames(uqueue')
      /\ Frames(uqueue') \subseteq Frames(uqueue) \cup {f}
      /\ f \in Frames(uqueue') \cup lost' /\ lost \subseteq lost'
      /\ uqueue # <<>> => /\ uqueue' # <<>> /\ Head(uqueue') = Head(uqueue)
                          /\ Tail(uqueue) # <<>> => Tail(uqueue') # <<>>
  <2>1. CASE uqueue' = uqueue /\ lost' = lost \cup {f}  BY <2>1 DEF TxType
  <2>2. CASE uqueue' = Append(uqueue, f) /\ lost' = lost
    <3> HIDE DEF f
    <3>0. uqueue \in Seq(User) /\ f \in User  BY <1>1 DEF TxType
    <3>1. /\ uqueue' \in Seq(User) /\ uqueue' # <<>> /\ Frames(uqueue') = Frames(uqueue) \cup {f}
          /\ uqueue # <<>> => Head(uqueue') = Head(uqueue) /\ Tail(uqueue') = Append(Tail(uqueue), f)
      BY <2>2, <3>0, FramesAppend
    <3>2. uqueue # <<>> => Append(Tail(uqueue), f) # <<>>
      <4>1. uqueue # <<>> => Tail(uqueue) \in Seq(User)  BY <3>0, FramesTail
      <4>2. QED  BY <3>0, <4>1, FramesAppend
    <3>3. QED  BY <2>2, <3>1, <3>2
  <2>3. QED  BY <2>1, <2>2 DEF EnqUser
<1>4. TxType'  BY <1>1, <1>2, <1>3 DEF TxType
<1>5. UserCame' = UserCame \cup {f}
  <2>1. \A n : n \in 1..ucame + 1 <=> n \in 1..ucame \/ n = ucame + 1  BY <1>1
  <2>2. QED  BY <1>1, <2>1 DEF UserCame
<1>6. OnlyCame'  BY <1>2, <1>3, <1>5 DEF OnlyCame, MgmtCame
<1>7. WalkSound'  BY <1>2, <1>3 DEF WalkSound
<1>8. SentFirst'  BY <1>2, <1>3 DEF SentFirst, WalkSound, UserPlaces
<1>9. SlotKept'  BY <1>2 DEF SlotKept
<1>10. DueFirst'  BY <1>2, <1>3 DEF DueFirst, DueSent
<1>11. TxKept'
  <2>1. \A n \in 1..ucame' : n \in 1..ucame \/ n = ucame + 1  BY <1>1
  <2>2. QED  BY <1>2, <1>3, <2>1 DEF TxKept
<1>12. QED  BY <1>4, <1>6, <1>7, <1>8, <1>9, <1>10, <1>11

(* The steps of queuethread. What WalkUser does, once the frames that were *)
(* due are sent or the first walk was broken off.                          *)
LEMMA ToUsers ==
  ASSUME TxType, WalkUser
  PROVE  /\ pc' \in {"sleep", "ustat"} /\ last' \in BOOLEAN
         /\ pc' = "ustat" => uqueue # <<>> /\ (~last' => Tail(uqueue) # <<>>)
<1>1. uqueue # <<>> => (Len(uqueue) = 1 <=> Tail(uqueue) = <<>>)
  BY FramesTail DEF TxType
<1>2. QED  BY <1>1 DEF WalkUser, TxType

LEMMA WakeTx == ASSUME TxInv, Wake PROVE TxInv'
<1> USE DEF TxInv, MgmtPlaces, UserPlaces
<1>1. UNCHANGED <<mqueue, uqueue, mcame, ucame, hw, slots, air, lost>>
      /\ local' = hw /\ due' = mcame /\ broke' = FALSE
  BY DEF Wake
<1>2. CASE mqueue = <<>> /\ WalkUser
  <2>1. /\ pc' \in {"sleep", "ustat"} /\ last' \in BOOLEAN
        /\ pc' = "ustat" => uqueue # <<>> /\ (~last' => Tail(uqueue) # <<>>)
    BY <1>2, ToUsers
  <2>2. DueSent'
    <3>1. Frames(mqueue) = {}  BY <1>2, FramesTail DEF TxType
    <3>2. QED  BY <1>1, <3>1 DEF DueSent, TxKept
  <2>3. TxType'
    <3>1. due' \in 0..mcame'  BY <1>1, QueueAssumption DEF TxType
    <3>2. QED  BY <1>1, <2>1, <3>1 DEF TxType
  <2>4. WalkSound' /\ SentFirst' /\ SlotKept' /\ DueFirst'
    BY <1>1, <2>1, <2>2 DEF WalkSound, SentFirst, SlotKept, DueFirst
  <2>5. OnlyCame' /\ TxKept'  BY <1>1 DEF OnlyCame, MgmtCame, UserCame, TxKept
  <2>6. QED  BY <2>3, <2>4, <2>5
<1>3. CASE mqueue # <<>> /\ pc' = "mstat" /\ last' = (Len(mqueue) = 1)
  <2>1. last' \in BOOLEAN /\ (last' <=> Tail(mqueue) = <<>>)
    <3>1. Len(mqueue) = 1 <=> Tail(mqueue) = <<>>  BY <1>3, FramesTail DEF TxType
    <3>2. QED  BY <1>3, <3>1
  <2>2. last' => Frames(Tail(mqueue)) = {}
    <3>1. Tail(mqueue) \in Seq(Mgmt)  BY <1>3, FramesTail DEF TxType
    <3>2. QED  BY <2>1, <3>1, FramesTail
  <2>3. TxType'
    <3>1. due' \in 0..mcame'  BY <1>1, QueueAssumption DEF TxType
    <3>2. QED  BY <1>1, <1>3, <2>1, <3>1 DEF TxType
  <2>4. WalkSound' /\ SentFirst' /\ SlotKept' /\ DueFirst'
    BY <1>1, <1>3, <2>1, <2>2 DEF WalkSound, SentFirst, SlotKept, DueFirst
  <2>5. OnlyCame' /\ TxKept'  BY <1>1 DEF OnlyCame, MgmtCame, UserCame, TxKept
  <2>6. QED  BY <2>3, <2>4, <2>5
<1>4. QED  BY <1>2, <1>3 DEF Wake

LEMMA MgmtNoSlotTx == ASSUME TxInv, MgmtNoSlot PROVE TxInv'
<1> USE DEF TxInv, MgmtPlaces, UserPlaces
<1>1. UNCHANGED <<mqueue, uqueue, mcame, ucame, local, hw, slots, air, due, lost>>
      /\ broke' = TRUE /\ WalkUser
  BY DEF MgmtNoSlot
<1>2. /\ pc' \in {"sleep", "ustat"} /\ last' \in BOOLEAN
      /\ pc' = "ustat" => uqueue # <<>> /\ (~last' => Tail(uqueue) # <<>>)
  BY <1>1, ToUsers
<1>3. TxType'  BY <1>1, <1>2 DEF TxType
<1>4. WalkSound' /\ SentFirst' /\ SlotKept' /\ DueFirst'
  BY <1>1, <1>2 DEF WalkSound, SentFirst, SlotKept, DueFirst
<1>5. OnlyCame' /\ TxKept'  BY <1>1 DEF OnlyCame, MgmtCame, UserCame, TxKept
<1>6. QED  BY <1>3, <1>4, <1>5

(* A frame goes to the driver; its entry stays.                            *)
LEMMA SendTx == ASSUME TxInv, MgmtSend \/ UserSend PROVE TxInv'
<1> USE DEF TxInv, MgmtPlaces, UserPlaces
<1>1. /\ UNCHANGED <<mqueue, uqueue, mcame, ucame, last, local, hw, due, broke, lost>>
      /\ slots' = slots - 1 /\ pc \in {"msend", "usend"}
  BY DEF MgmtSend, UserSend
<1>2. slots' \in 0..Slots  BY <1>1, QueueAssumption DEF SlotKept
<1>3. PICK f : /\ air' = Append(air, f)
               /\ \/ pc = "msend" /\ pc' = "munlink" /\ f = Head(mqueue)
                  \/ pc = "usend" /\ pc' = "uunlink" /\ f = Head(uqueue)
  BY DEF MgmtSend, UserSend
<1>4. /\ pc = "msend" => Head(mqueue) \in Mgmt /\ Head(mqueue) \in MgmtCame
      /\ pc = "usend" => Head(uqueue) \in User /\ Head(uqueue) \in UserCame
  BY FramesTail DEF TxType, WalkSound, OnlyCame
<1>5. air' \in Seq(Mgmt \cup User) /\ Frames(air') = Frames(air) \cup {f}
  <2>1. f \in Mgmt \cup User  BY <1>3, <1>4
  <2>2. QED  BY <1>3, <2>1, FramesAppend DEF TxType
<1>6. TxType'  BY <1>1, <1>3, <1>5 DEF TxType
<1>7. WalkSound'  BY <1>1, <1>3 DEF WalkSound
<1>8. SentFirst'  BY <1>1, <1>3, <1>5 DEF SentFirst
<1>9. SlotKept'  BY <1>2, <1>3 DEF SlotKept
<1>10. DueFirst'  BY <1>1, <1>3, <1>5 DEF DueFirst, DueSent
<1>11. OnlyCame' /\ TxKept'  BY <1>1, <1>3, <1>4, <1>5 DEF OnlyCame, MgmtCame, UserCame, TxKept
<1>12. QED  BY <1>6, <1>7, <1>8, <1>9, <1>10, <1>11

(* The entry is unlinked and the walk goes on, or goes to the users.       *)
LEMMA MgmtUnlinkTx == ASSUME TxInv, MgmtUnlink PROVE TxInv'
<1> USE DEF TxInv, MgmtPlaces, UserPlaces
<1>1. /\ UNCHANGED <<uqueue, mcame, ucame, local, hw, slots, air, due, broke, lost>>
      /\ pc = "munlink" /\ mqueue' = Tail(mqueue)
  BY DEF MgmtUnlink
<1>2. /\ Tail(mqueue) \in Seq(Mgmt) /\ Frames(mqueue) = {Head(mqueue)} \cup Frames(Tail(mqueue))
      /\ Len(mqueue) = 2 <=> Len(Tail(mqueue)) = 1
      /\ Head(mqueue) \in Frames(air)
  BY <1>1, FramesTail DEF TxType, WalkSound, SentFirst
<1>3. OnlyCame' /\ TxKept'  BY <1>1, <1>2 DEF OnlyCame, MgmtCame, UserCame, TxKept
<1>4. SlotKept' /\ TxType' /\ WalkSound' /\ SentFirst' /\ DueFirst'
  <2>1. CASE last /\ WalkUser
    <3>1. /\ pc' \in {"sleep", "ustat"} /\ last' \in BOOLEAN
          /\ pc' = "ustat" => uqueue # <<>> /\ (~last' => Tail(uqueue) # <<>>)
      BY <2>1, ToUsers
    <3>2. DueSent'
      <4>1. \A n \in 1..due : <<"mgmt", n>> \in {Head(mqueue)} \cup Frames(air) \cup lost
        <5>1. \A n \in 1..due : n \in 1..mcame  BY QueueAssumption DEF TxType
        <5>2. QED  BY <1>1, <1>2, <2>1, <5>1 DEF TxKept, DueFirst
      <4>2. QED  BY <1>1, <1>2, <4>1 DEF DueSent
    <3>3. TxType'  BY <1>1, <1>2, <3>1 DEF TxType
    <3>4. QED  BY <1>1, <3>1, <3>2, <3>3 DEF SlotKept, WalkSound, SentFirst, DueFirst
  <2>2. CASE ~last /\ pc' = "mstat" /\ last' = (Len(mqueue) = 2)
    <3>1. mqueue' # <<>>  BY <1>1, <2>2 DEF WalkSound
    <3>2. last' \in BOOLEAN /\ (last' <=> Tail(mqueue') = <<>>)
      BY <1>1, <1>2, <2>2, <3>1, FramesTail
    <3>3. last' => Frames(Tail(mqueue')) = {}
      <4>1. Tail(mqueue') \in Seq(Mgmt)  BY <1>1, <1>2, <3>1, FramesTail
      <4>2. QED  BY <3>2, <4>1, FramesTail
    <3>4. TxType'  BY <1>1, <1>2, <2>2, <3>2 DEF TxType
    <3>5. QED  BY <1>1, <2>2, <3>1, <3>2, <3>3, <3>4 DEF SlotKept, WalkSound, SentFirst, DueFirst
  <2>3. QED  BY <2>1, <2>2 DEF MgmtUnlink
<1>5. QED  BY <1>3, <1>4

LEMMA UserUnlinkTx == ASSUME TxInv, UserUnlink PROVE TxInv'
<1> USE DEF TxInv, MgmtPlaces, UserPlaces
<1>1. /\ UNCHANGED <<mqueue, mcame, ucame, local, hw, slots, air, due, broke, lost>>
      /\ pc = "uunlink" /\ uqueue' = Tail(uqueue)
  BY DEF UserUnlink
<1>2. /\ Tail(uqueue) \in Seq(User) /\ Frames(uqueue) = {Head(uqueue)} \cup Frames(Tail(uqueue))
      /\ Len(uqueue) = 2 <=> Len(Tail(uqueue)) = 1
      /\ Head(uqueue) \in Frames(air)
  BY <1>1, FramesTail DEF TxType, WalkSound, SentFirst
<1>3. OnlyCame' /\ TxKept'  BY <1>1, <1>2 DEF OnlyCame, MgmtCame, UserCame, TxKept
<1>4. SlotKept' /\ TxType' /\ WalkSound' /\ SentFirst' /\ DueFirst'
  <2>1. CASE last /\ pc' = "sleep" /\ last' = last
    <3>1. TxType'  BY <1>1, <1>2, <2>1 DEF TxType
    <3>2. QED  BY <1>1, <2>1, <3>1 DEF SlotKept, WalkSound, SentFirst, DueFirst
  <2>2. CASE ~last /\ pc' = "ustat" /\ last' = (Len(uqueue) = 2)
    <3>1. uqueue' # <<>>  BY <1>1, <2>2 DEF WalkSound
    <3>2. last' \in BOOLEAN /\ (last' <=> Tail(uqueue') = <<>>)
      BY <1>1, <1>2, <2>2, <3>1, FramesTail
    <3>3. TxType'  BY <1>1, <1>2, <2>2, <3>2 DEF TxType
    <3>4. WalkSound' /\ SentFirst' /\ SlotKept'
      BY <1>1, <2>2, <3>1, <3>2 DEF SlotKept, WalkSound, SentFirst
    <3>5. DueFirst'  BY <1>1, <2>2 DEF DueFirst, DueSent
    <3>6. QED  BY <3>3, <3>4, <3>5
  <2>3. QED  BY <2>1, <2>2 DEF UserUnlink
<1>5. QED  BY <1>3, <1>4

LEMMA NextQueue == QueueInv /\ [Next]_vars => QueueInv'
<1> SUFFICES ASSUME QueueInv, [Next]_vars PROVE QueueInv'  OBVIOUS
<1> USE DEF QueueInv
<1>1. CASE UNCHANGED vars
  <2>1. TxInv'  BY <1>1 DEF vars, txVars, TxInv, TxType, WalkSound, SentFirst, OnlyCame,
                     MgmtCame, UserCame, SlotKept, DueFirst, DueSent, TxKept
  <2>2. RxInv'  BY <1>1, RxUnchanged DEF vars
  <2>3. QED  BY <2>1, <2>2
<1>2. CASE EnqMgmt \/ EnqUser
  BY <1>2, MgmtComes, UserComes, RxUnchanged DEF EnqMgmt, EnqUser
<1>3. CASE AddMgmt \/ RqueueThread
  <2>1. UNCHANGED txVars /\ lost \subseteq lost'
    BY <1>3 DEF AddMgmt, RqueueThread, RxServe, RxUnlink
  <2>2. TxInv'  BY <2>1 DEF txVars, TxInv, TxType, WalkSound, SentFirst, OnlyCame,
                     MgmtCame, UserCame, SlotKept, DueFirst, DueSent, TxKept
  <2>3. QED  BY <1>3, <2>2, AddRx, ServeRx
<1>4. CASE RegisterHw \/ HwDone
  <2>1. slots' \in 0..Slots /\ (pc \in {"msend", "usend"} => slots' # 0)
    BY <1>4, QueueAssumption DEF RegisterHw, HwDone, TxInv, SlotKept
  <2>2. {local', hw'} \subseteq BOOLEAN  BY <1>4 DEF RegisterHw, HwDone, TxInv, TxType
  <2>3. QED  BY <1>4, <2>1, <2>2, QuietTx, RxUnchanged DEF RegisterHw, HwDone
<1>5. CASE MgmtStat \/ UserNoSlot \/ UserStat
  <2>1. slots' = slots /\ slots \in 0..Slots /\ {local', hw'} \subseteq BOOLEAN
    BY <1>5 DEF MgmtStat, UserNoSlot, UserStat, TxInv, TxType, SlotKept
  <2>2. QED  BY <1>5, <2>1, QuietTx, RxUnchanged DEF MgmtStat, UserNoSlot, UserStat
<1>6. CASE Wake  BY <1>6, WakeTx, RxUnchanged DEF Wake
<1>7. CASE MgmtNoSlot  BY <1>7, MgmtNoSlotTx, RxUnchanged DEF MgmtNoSlot
<1>8. CASE MgmtSend \/ UserSend  BY <1>8, SendTx, RxUnchanged DEF MgmtSend, UserSend
<1>9. CASE MgmtUnlink \/ UserUnlink
  BY <1>9, MgmtUnlinkTx, UserUnlinkTx, RxUnchanged DEF MgmtUnlink, UserUnlink
<1>10. QED
  BY <1>1, <1>2, <1>3, <1>4, <1>5, <1>6, <1>7, <1>8, <1>9 DEF Next, QueueThread

----------------------------------------------------------------------------
(* Types, and the places of the two threads.                               *)
THEOREM QueueTypeCorrect == Spec => []TypeOK
  BY InitQueue, NextQueue, QueueInvSuffices, PTL DEF Spec

(* The slot that get_stats reported is there when the frame is given; and  *)
(* no user frame overtakes a DACK or retransmission that was waiting when  *)
(* the turn began, unless the driver was full (queue.c:246-282).           *)
THEOREM MgmtFirstHolds == Spec => []MgmtFirstUnlessFull
  BY InitQueue, NextQueue, QueueInvSuffices, PTL DEF Spec

(* Every frame waits, has been given or was lost for want of memory, and   *)
(* vmac_rx gets the DACKs once, in order (queue.c:143-363).                *)
THEOREM EachOnceHolds == Spec => []EachOnce
  BY InitQueue, NextQueue, QueueInvSuffices, PTL DEF Spec

----------------------------------------------------------------------------
(* Refinement: the lists less the entry that was sent and not yet unlinked.*)
AirMgmt == IF pc = "munlink" THEN Tail(mqueue) ELSE mqueue
AirUser == IF pc = "uunlink" THEN Tail(uqueue) ELSE uqueue

(* A frame that comes is in no list and has not been given.                *)
LEMMA FreshFrame ==
  ASSUME TxInv
  PROVE  /\ Air!Fresh(<<"mgmt", mcame + 1>>) /\ Air!Fresh(<<"user", ucame + 1>>)
<1>1. /\ Air!Frames(AirMgmt) \subseteq MgmtCame /\ Air!Frames(AirUser) \subseteq UserCame
      /\ Air!Frames(air) \subseteq MgmtCame \cup UserCame
  <2>1. \A t : Air!Frames(t) = Frames(t)  BY DEF Air!Frames, Frames
  <2>2. Frames(AirMgmt) \subseteq Frames(mqueue) /\ Frames(AirUser) \subseteq Frames(uqueue)
    BY FramesTail DEF AirMgmt, AirUser, TxInv, TxType, WalkSound, MgmtPlaces, UserPlaces
  <2>3. QED  BY <2>1, <2>2 DEF TxInv, OnlyCame
<1>2. mcame \in Nat /\ ucame \in Nat  BY QueueAssumption DEF TxInv, TxType
<1>3. <<"mgmt", mcame + 1>> \notin MgmtCame \cup UserCame
      /\ <<"user", ucame + 1>> \notin MgmtCame \cup UserCame
  BY <1>2 DEF MgmtCame, UserCame
<1>4. QED  BY <1>1, <1>3 DEF Air!Fresh, AirMgmt, AirUser

LEMMA StepRefines == TxInv /\ [Next]_vars => [Air!Next]_Air!vars
<1> SUFFICES ASSUME TxInv, [Next]_vars PROVE [Air!Next]_Air!vars  OBVIOUS
<1> USE DEF TxInv
<1>1. CASE EnqMgmt
  <2> DEFINE f == <<"mgmt", mcame + 1>>
  <2>1. f \in Mgmt  BY <1>1, QueueAssumption DEF EnqMgmt, TxType, Mgmt
  <2>2. air' = air /\ AirUser' = AirUser  BY <1>1 DEF EnqMgmt, AirUser
  <2>3. AirMgmt' = Append(AirMgmt, f) \/ AirMgmt' = AirMgmt
    <3>1. pc' = pc /\ (mqueue' = Append(mqueue, f) \/ mqueue' = mqueue)  BY <1>1 DEF EnqMgmt
    <3> HIDE DEF f
    <3>2. pc = "munlink" => Tail(Append(mqueue, f)) = Append(Tail(mqueue), f)
      BY <2>1, FramesAppend DEF TxType, WalkSound, MgmtPlaces
    <3>3. QED  BY <3>1, <3>2 DEF AirMgmt
  <2>4. QED
    BY <2>1, <2>2, <2>3, FreshFrame DEF Air!Next, Air!AcceptMgmt, Air!vars, AirMgmt, AirUser
<1>2. CASE EnqUser
  <2> DEFINE f == <<"user", ucame + 1>>
  <2>1. f \in User  BY <1>2, QueueAssumption DEF EnqUser, TxType, User
  <2>2. air' = air /\ AirMgmt' = AirMgmt  BY <1>2 DEF EnqUser, AirMgmt
  <2>3. AirUser' = Append(AirUser, f) \/ AirUser' = AirUser
    <3>1. pc' = pc /\ (uqueue' = Append(uqueue, f) \/ uqueue' = uqueue)  BY <1>2 DEF EnqUser
    <3> HIDE DEF f
    <3>2. pc = "uunlink" => Tail(Append(uqueue, f)) = Append(Tail(uqueue), f)
      BY <2>1, FramesAppend DEF TxType, WalkSound, UserPlaces
    <3>3. QED  BY <3>1, <3>2 DEF AirUser
  <2>4. QED
    BY <2>1, <2>2, <2>3, FreshFrame DEF Air!Next, Air!AcceptUser, Air!vars, AirMgmt, AirUser
<1>3. CASE MgmtSend
  <2>1. AirMgmt = mqueue /\ AirMgmt' = Tail(mqueue) /\ AirUser' = AirUser /\ mqueue # <<>>
        /\ air' = Append(air, Head(mqueue))
    BY <1>3 DEF MgmtSend, AirMgmt, AirUser, WalkSound, MgmtPlaces
  <2>2. QED  BY <2>1 DEF Air!Next, Air!SendMgmt, AirMgmt, AirUser
<1>4. CASE UserSend
  <2>1. AirUser = uqueue /\ AirUser' = Tail(uqueue) /\ AirMgmt' = AirMgmt /\ uqueue # <<>>
        /\ air' = Append(air, Head(uqueue))
    BY <1>4 DEF UserSend, AirMgmt, AirUser, WalkSound, UserPlaces
  <2>2. QED  BY <2>1 DEF Air!Next, Air!SendUser, AirMgmt, AirUser
<1>5. CASE \/ Wake \/ MgmtNoSlot \/ MgmtStat \/ MgmtUnlink \/ UserNoSlot \/ UserStat
           \/ UserUnlink \/ AddMgmt \/ RegisterHw \/ HwDone \/ RqueueThread \/ UNCHANGED vars
  <2>1. AirMgmt' = AirMgmt /\ AirUser' = AirUser /\ air' = air
    BY <1>5 DEF Wake, MgmtNoSlot, MgmtStat, MgmtUnlink, UserNoSlot, UserStat, UserUnlink,
       WalkUser, AddMgmt, RegisterHw, HwDone, RqueueThread, RxServe, RxUnlink, vars, txVars,
       AirMgmt, AirUser
  <2>2. QED  BY <2>1 DEF Air!vars, AirMgmt, AirUser
<1>6. QED  BY <1>1, <1>2, <1>3, <1>4, <1>5 DEF Next, QueueThread

(* The queues keep the promise of VmacAir: frames of either class leave in *)
(* the order they came, once, and only if they were queued (queue.c:246-   *)
(* 286).                                                                   *)
THEOREM AirRefined == Spec => AirSpec
<1>1. Init => Air!Init
  BY DEF Init, Air!Init
<1>2. QueueInv => TxInv  BY DEF QueueInv
<1>3. QED
  BY <1>1, <1>2, InitQueue, NextQueue, StepRefines, PTL DEF Spec, AirSpec, Air!Spec
=============================================================================
