--------------------------- MODULE VmacDackProofs ---------------------------
(***************************************************************************)
(* Invariance proofs for VmacDack, for every set of encodings and every    *)
(* bound on the rounds.                                                    *)
(***************************************************************************)
EXTENDS VmacDack, SequenceTheorems, TLAPS

(* dackgen works on the oldest request until it takes it off the list.     *)
Serving == genpc # "idle" => dqueue # <<>>

(* prepDACK's frame is the request's, and only while it is being built and *)
(* installed; its ptr is a frame of the same encoding after a replacement. *)
SkbLocal == skb = IF genpc \in {"built", "locked"} THEN cur ELSE NULL
PtrLocal ==
  /\ ptr # NULL => ptr \in {cur[1]} \X Round
  /\ ptr # NULL => genpc \in {"installed", "unlocked"}

(* __sendDACK's ptr is a frame of its encoding exactly between taking it   *)
(* and adding it to the management queue.                                  *)
HandlerLocal ==
  \A e \in Enc : IF tpc[e] \in {"took", "add"}
                 THEN tptr[e] \in {e} \X Round
                 ELSE tptr[e] = NULL

(* What the entry's dack is when send is not set.                          *)
NothingPending == \A e \in Enc : send[e] = 0 => dack[e] \in {NULL, Junk}

Control ==
  /\ TypeOK
  /\ Serving
  /\ SkbLocal
  /\ PtrLocal
  /\ HandlerLocal
  /\ SendMeansDack
  /\ NothingPending
  /\ LockDiscipline
  /\ PendingHasDeadline
  /\ OnlyFramesLeave

(* The facts about the request list that the steps need.                   *)
LEMMA RequestInSkb ==
  ASSUME TypeOK, dqueue # <<>>
  PROVE  cur \in Skb /\ cur[1] \in Enc /\ cur[2] \in Round
<1>1. cur \in Skb  BY HeadTailProperties DEF TypeOK, cur
<1>2. QED  BY <1>1 DEF Skb

(* A new request does not change which one is being served.                *)
LEMMA AppendKeepsHead ==
  ASSUME NEW x \in Skb, dqueue \in Seq(Skb)
  PROVE  /\ Append(dqueue, x) \in Seq(Skb)
         /\ Append(dqueue, x) # <<>>
         /\ dqueue # <<>> => Head(Append(dqueue, x)) = Head(dqueue)
BY AppendProperties

(* The invariant holds initially.                                          *)
LEMMA InitControl == Init => Control
<1> SUFFICES ASSUME Init PROVE Control  OBVIOUS
<1> USE MaxRoundAssumption, PointerAssumption
<1>1. TypeOK  BY DEF Init, TypeOK, GenStates, TimerStates, Skb, Round
<1>2. Serving /\ SkbLocal /\ PtrLocal /\ HandlerLocal
  BY DEF Init, Serving, SkbLocal, PtrLocal, HandlerLocal
<1>3. SendMeansDack /\ NothingPending
  <2>1. ASSUME NEW e \in Enc PROVE dack[e] \notin {e} \X Round
    BY DEF Init, Skb
  <2>2. QED  BY <2>1 DEF Init, SendMeansDack, NothingPending
<1>4. LockDiscipline /\ PendingHasDeadline /\ OnlyFramesLeave
  BY DEF Init, LockDiscipline, PendingHasDeadline, OnlyFramesLeave
<1>5. QED  BY <1>1, <1>2, <1>3, <1>4 DEF Control

(***************************************************************************)
(* Every step keeps the invariant: one step per action.                    *)
(***************************************************************************)
LEMMA RequestControl ==
  ASSUME Control, NEW e \in Enc, RequestDACK(e)
  PROVE  Control'
<1> USE MaxRoundAssumption, PointerAssumption
<1> PICK r \in Round :
      /\ asked' = [asked EXCEPT ![e] = r]
      /\ \/ dqueue' = Append(dqueue, <<e, r>>) /\ dackreqnum' = dackreqnum + 1
         \/ UNCHANGED <<dqueue, dackreqnum>>
  BY DEF RequestDACK
<1> UNCHANGED <<entryVars, genVars, timerVars, fateVars>>  BY DEF RequestDACK
<1>1. <<e, r>> \in Skb /\ dqueue \in Seq(Skb)  BY DEF Skb, Control, TypeOK
<1>2. dqueue' \in Seq(Skb) /\ (dqueue # <<>> => dqueue' # <<>> /\ cur' = cur)
  <2>1. CASE dqueue' = Append(dqueue, <<e, r>>)
    <3>1. dqueue' \in Seq(Skb) /\ dqueue' # <<>> /\ (dqueue # <<>> => Head(dqueue') = Head(dqueue))
      BY <1>1, <2>1, AppendKeepsHead
    <3>2. QED  BY <3>1 DEF cur
  <2>2. CASE UNCHANGED dqueue  BY <1>1, <2>2 DEF cur
  <2>3. QED  BY <2>1, <2>2
<1>3. TypeOK'
  <2>1. asked \in [Enc -> 0..MaxRound] /\ dackreqnum \in Int  BY DEF Control, TypeOK
  <2>2. asked' \in [Enc -> 0..MaxRound]  BY <2>1 DEF Round
  <2>3. dackreqnum' \in Int  BY <2>1
  <2>4. QED
    BY <1>2, <2>2, <2>3 DEF Control, TypeOK, entryVars, genVars, timerVars, fateVars
<1>4. Serving' /\ SkbLocal' /\ PtrLocal' /\ HandlerLocal'
  BY <1>2 DEF Control, Serving, SkbLocal, PtrLocal, HandlerLocal,
              genVars, timerVars
<1>5. SendMeansDack' /\ NothingPending' /\ PendingHasDeadline' /\ OnlyFramesLeave'
  BY DEF Control, SendMeansDack, NothingPending, PendingHasDeadline,
         OnlyFramesLeave, entryVars, timerVars, fateVars
<1>6. LockDiscipline'
  BY <1>2 DEF Control, Serving, LockDiscipline, entryVars, genVars, timerVars
<1>7. QED  BY <1>3, <1>4, <1>5, <1>6 DEF Control

(* The steps of dackgen and prepDACK, one by one.                          *)
LEMMA GenControl ==
  ASSUME Control, Gen
  PROVE  Control'
<1> USE MaxRoundAssumption, PointerAssumption
<1> USE DEF entryVars, genVars, timerVars, reqVars, fateVars
<1>1. dqueue # <<>> => cur \in Skb /\ cur[1] \in Enc /\ cur[2] \in Round
                       /\ cur \in {cur[1]} \X Round
  BY RequestInSkb DEF Control, Skb
<1>2. dqueue # <<>>
  BY DEF Gen, GenBuild, GenTrylock, GenTrylockFails, GenReplace, GenInstall,
         GenUnlock, GenFree, GenDequeue, Control, Serving
<1>3. CASE GenBuild
  <2>1. cur' = cur /\ dqueue' = dqueue  BY <1>3 DEF GenBuild, cur
  <2>2. TypeOK'
    BY <2>1, <1>1, <1>2, <1>3 DEF GenBuild, Control, TypeOK, GenStates
  <2>3. Serving' /\ SkbLocal' /\ PtrLocal' /\ HandlerLocal'
    BY <2>1, <1>1, <1>2, <1>3 DEF GenBuild, Control, TypeOK, Serving, SkbLocal, PtrLocal,
       HandlerLocal, SendMeansDack
  <2>4. SendMeansDack' /\ NothingPending' /\ PendingHasDeadline'
    BY <2>1, <1>1, <1>2, <1>3 DEF GenBuild, Control, TypeOK, SkbLocal, SendMeansDack,
       NothingPending, PendingHasDeadline
  <2>5. OnlyFramesLeave'
    BY <2>1, <1>1, <1>2, <1>3 DEF GenBuild, Control, OnlyFramesLeave, SkbLocal, PtrLocal, Skb
  <2>6. LockDiscipline'
    BY <2>1, <1>1, <1>2, <1>3 DEF GenBuild, Control, TypeOK, LockDiscipline
  <2>7. QED  BY <2>2, <2>3, <2>4, <2>5, <2>6 DEF Control
<1>4. CASE GenTrylock
  <2>1. cur' = cur /\ dqueue' = dqueue  BY <1>4 DEF GenTrylock, cur
  <2>2. TypeOK'
    BY <2>1, <1>1, <1>2, <1>4 DEF GenTrylock, Control, TypeOK, GenStates
  <2>3. Serving' /\ SkbLocal' /\ PtrLocal' /\ HandlerLocal'
    BY <2>1, <1>1, <1>2, <1>4 DEF GenTrylock, Control, TypeOK, Serving, SkbLocal, PtrLocal,
       HandlerLocal, SendMeansDack
  <2>4. SendMeansDack' /\ NothingPending' /\ PendingHasDeadline'
    BY <2>1, <1>1, <1>2, <1>4 DEF GenTrylock, Control, TypeOK, SkbLocal, SendMeansDack,
       NothingPending, PendingHasDeadline
  <2>5. OnlyFramesLeave'
    BY <2>1, <1>1, <1>2, <1>4 DEF GenTrylock, Control, OnlyFramesLeave, SkbLocal, PtrLocal, Skb
  <2>6. LockDiscipline'
    BY <2>1, <1>1, <1>2, <1>4 DEF GenTrylock, Control, TypeOK, LockDiscipline
  <2>7. QED  BY <2>2, <2>3, <2>4, <2>5, <2>6 DEF Control
<1>5. CASE GenTrylockFails
  <2>1. cur' = cur /\ dqueue' = dqueue  BY <1>5 DEF GenTrylockFails, cur
  <2>2. TypeOK'
    BY <2>1, <1>1, <1>2, <1>5 DEF GenTrylockFails, Control, TypeOK, GenStates
  <2>3. Serving' /\ SkbLocal' /\ PtrLocal' /\ HandlerLocal'
    BY <2>1, <1>1, <1>2, <1>5 DEF GenTrylockFails, Control, TypeOK, Serving, SkbLocal, PtrLocal,
       HandlerLocal, SendMeansDack
  <2>4. SendMeansDack' /\ NothingPending' /\ PendingHasDeadline'
    BY <2>1, <1>1, <1>2, <1>5 DEF GenTrylockFails, Control, TypeOK, SkbLocal, SendMeansDack,
       NothingPending, PendingHasDeadline
  <2>5. OnlyFramesLeave'
    BY <2>1, <1>1, <1>2, <1>5 DEF GenTrylockFails, Control, OnlyFramesLeave, SkbLocal, PtrLocal, Skb
  <2>6. LockDiscipline'
    BY <2>1, <1>1, <1>2, <1>5 DEF GenTrylockFails, Control, TypeOK, LockDiscipline
  <2>7. QED  BY <2>2, <2>3, <2>4, <2>5, <2>6 DEF Control
<1>6. CASE GenReplace
  <2>1. cur' = cur /\ dqueue' = dqueue  BY <1>6 DEF GenReplace, cur
  <2>2. TypeOK'
    BY <2>1, <1>1, <1>2, <1>6 DEF GenReplace, Control, TypeOK, GenStates
  <2>3. Serving' /\ SkbLocal' /\ PtrLocal' /\ HandlerLocal'
    BY <2>1, <1>1, <1>2, <1>6 DEF GenReplace, Control, TypeOK, Serving, SkbLocal, PtrLocal,
       HandlerLocal, SendMeansDack
  <2>4. SendMeansDack' /\ NothingPending' /\ PendingHasDeadline'
    BY <2>1, <1>1, <1>2, <1>6 DEF GenReplace, Control, TypeOK, SkbLocal, SendMeansDack,
       NothingPending, PendingHasDeadline
  <2>5. OnlyFramesLeave'
    BY <2>1, <1>1, <1>2, <1>6 DEF GenReplace, Control, OnlyFramesLeave, SkbLocal, PtrLocal, Skb
  <2>6. LockDiscipline'
    BY <2>1, <1>1, <1>2, <1>6 DEF GenReplace, Control, TypeOK, LockDiscipline
  <2>7. QED  BY <2>2, <2>3, <2>4, <2>5, <2>6 DEF Control
<1>7. CASE GenInstall
  <2>1. cur' = cur /\ dqueue' = dqueue  BY <1>7 DEF GenInstall, cur
  <2>2. TypeOK'
    BY <2>1, <1>1, <1>2, <1>7 DEF GenInstall, Control, TypeOK, GenStates
  <2>3. Serving' /\ SkbLocal' /\ PtrLocal' /\ HandlerLocal'
    BY <2>1, <1>1, <1>2, <1>7 DEF GenInstall, Control, TypeOK, Serving, SkbLocal, PtrLocal,
       HandlerLocal, SendMeansDack
  <2>4. SendMeansDack' /\ NothingPending' /\ PendingHasDeadline'
    BY <2>1, <1>1, <1>2, <1>7 DEF GenInstall, Control, TypeOK, SkbLocal, SendMeansDack,
       NothingPending, PendingHasDeadline
  <2>5. OnlyFramesLeave'
    BY <2>1, <1>1, <1>2, <1>7 DEF GenInstall, Control, OnlyFramesLeave, SkbLocal, PtrLocal, Skb
  <2>6. LockDiscipline'
    BY <2>1, <1>1, <1>2, <1>7 DEF GenInstall, Control, TypeOK, LockDiscipline
  <2>7. QED  BY <2>2, <2>3, <2>4, <2>5, <2>6 DEF Control
<1>8. CASE GenUnlock
  <2>1. cur' = cur /\ dqueue' = dqueue  BY <1>8 DEF GenUnlock, cur
  <2>2. TypeOK'
    BY <2>1, <1>1, <1>2, <1>8 DEF GenUnlock, Control, TypeOK, GenStates
  <2>3. Serving' /\ SkbLocal' /\ PtrLocal' /\ HandlerLocal'
    BY <2>1, <1>1, <1>2, <1>8 DEF GenUnlock, Control, TypeOK, Serving, SkbLocal, PtrLocal,
       HandlerLocal, SendMeansDack
  <2>4. SendMeansDack' /\ NothingPending' /\ PendingHasDeadline'
    BY <2>1, <1>1, <1>2, <1>8 DEF GenUnlock, Control, TypeOK, SkbLocal, SendMeansDack,
       NothingPending, PendingHasDeadline
  <2>5. OnlyFramesLeave'
    BY <2>1, <1>1, <1>2, <1>8 DEF GenUnlock, Control, OnlyFramesLeave, SkbLocal, PtrLocal, Skb
  <2>6. LockDiscipline'
    BY <2>1, <1>1, <1>2, <1>8 DEF GenUnlock, Control, TypeOK, LockDiscipline
  <2>7. QED  BY <2>2, <2>3, <2>4, <2>5, <2>6 DEF Control
<1>9. CASE GenFree
  <2>1. cur' = cur /\ dqueue' = dqueue  BY <1>9 DEF GenFree, cur
  <2>2. TypeOK'
    BY <2>1, <1>1, <1>2, <1>9 DEF GenFree, Control, TypeOK, GenStates
  <2>3. Serving' /\ SkbLocal' /\ PtrLocal' /\ HandlerLocal'
    BY <2>1, <1>1, <1>2, <1>9 DEF GenFree, Control, TypeOK, Serving, SkbLocal, PtrLocal,
       HandlerLocal, SendMeansDack
  <2>4. SendMeansDack' /\ NothingPending' /\ PendingHasDeadline'
    BY <2>1, <1>1, <1>2, <1>9 DEF GenFree, Control, TypeOK, SkbLocal, SendMeansDack,
       NothingPending, PendingHasDeadline
  <2>5. OnlyFramesLeave'
    BY <2>1, <1>1, <1>2, <1>9 DEF GenFree, Control, OnlyFramesLeave, SkbLocal, PtrLocal, Skb
  <2>6. LockDiscipline'
    BY <2>1, <1>1, <1>2, <1>9 DEF GenFree, Control, TypeOK, LockDiscipline
  <2>7. QED  BY <2>2, <2>3, <2>4, <2>5, <2>6 DEF Control
<1>10. CASE GenDequeue
  <2>1. dqueue' \in Seq(Skb)
    BY <1>2, <1>10, HeadTailProperties DEF GenDequeue, Control, TypeOK
  <2>2. TypeOK'
    BY <2>1, <1>1, <1>2, <1>10 DEF GenDequeue, Control, TypeOK, GenStates
  <2>3. Serving' /\ SkbLocal' /\ PtrLocal' /\ HandlerLocal'
    BY <2>1, <1>1, <1>2, <1>10 DEF GenDequeue, Control, TypeOK, Serving, SkbLocal, PtrLocal,
       HandlerLocal, SendMeansDack
  <2>4. SendMeansDack' /\ NothingPending' /\ PendingHasDeadline'
    BY <2>1, <1>1, <1>2, <1>10 DEF GenDequeue, Control, TypeOK, SkbLocal, SendMeansDack,
       NothingPending, PendingHasDeadline
  <2>5. OnlyFramesLeave'
    BY <2>1, <1>1, <1>2, <1>10 DEF GenDequeue, Control, OnlyFramesLeave, SkbLocal, PtrLocal, Skb
  <2>6. LockDiscipline'
    BY <2>1, <1>1, <1>2, <1>10 DEF GenDequeue, Control, TypeOK, LockDiscipline
  <2>7. QED  BY <2>2, <2>3, <2>4, <2>5, <2>6 DEF Control
<1>11. QED  BY <1>3, <1>4, <1>5, <1>6, <1>7, <1>8, <1>9, <1>10 DEF Gen

(* The steps of a timer and its handler, one by one.                       *)
LEMMA TimerControl ==
  ASSUME Control, NEW e \in Enc, Timer(e)
  PROVE  Control'
<1> USE MaxRoundAssumption, PointerAssumption
<1> USE DEF entryVars, genVars, timerVars, reqVars, fateVars
<1>1. cur' = cur /\ dqueue' = dqueue
  BY DEF Timer, TimerFire, TimerTrylock, TimerTrylockFails, TimerTake,
         TimerNothing, TimerUnlock, TimerAdd, cur
<1>2. CASE TimerFire(e)
  <2>1. TypeOK'
    BY <1>1, <1>2 DEF TimerFire, Control, TypeOK, TimerStates
  <2>2. Serving' /\ SkbLocal' /\ PtrLocal'
    BY <1>1, <1>2 DEF TimerFire, Control, Serving, SkbLocal, PtrLocal
  <2>3. HandlerLocal'
    BY <1>1, <1>2 DEF TimerFire, Control, TypeOK, HandlerLocal, SendMeansDack
  <2>4. SendMeansDack' /\ NothingPending' /\ PendingHasDeadline'
    BY <1>1, <1>2 DEF TimerFire, Control, TypeOK, Skb, SendMeansDack, NothingPending,
       PendingHasDeadline
  <2>5. OnlyFramesLeave'
    BY <1>1, <1>2 DEF TimerFire, Control, OnlyFramesLeave, HandlerLocal, Skb
  <2>6. LockDiscipline'
    BY <1>1, <1>2 DEF TimerFire, Control, TypeOK, LockDiscipline
  <2>7. QED  BY <2>1, <2>2, <2>3, <2>4, <2>5, <2>6 DEF Control
<1>3. CASE TimerTrylock(e)
  <2>1. TypeOK'
    BY <1>1, <1>3 DEF TimerTrylock, Control, TypeOK, TimerStates
  <2>2. Serving' /\ SkbLocal' /\ PtrLocal'
    BY <1>1, <1>3 DEF TimerTrylock, Control, Serving, SkbLocal, PtrLocal
  <2>3. HandlerLocal'
    BY <1>1, <1>3 DEF TimerTrylock, Control, TypeOK, HandlerLocal, SendMeansDack
  <2>4. SendMeansDack' /\ NothingPending' /\ PendingHasDeadline'
    BY <1>1, <1>3 DEF TimerTrylock, Control, TypeOK, Skb, SendMeansDack, NothingPending,
       PendingHasDeadline
  <2>5. OnlyFramesLeave'
    BY <1>1, <1>3 DEF TimerTrylock, Control, OnlyFramesLeave, HandlerLocal, Skb
  <2>6. LockDiscipline'
    BY <1>1, <1>3 DEF TimerTrylock, Control, TypeOK, LockDiscipline
  <2>7. QED  BY <2>1, <2>2, <2>3, <2>4, <2>5, <2>6 DEF Control
<1>4. CASE TimerTrylockFails(e)
  <2>1. TypeOK'
    BY <1>1, <1>4 DEF TimerTrylockFails, Control, TypeOK, TimerStates
  <2>2. Serving' /\ SkbLocal' /\ PtrLocal'
    BY <1>1, <1>4 DEF TimerTrylockFails, Control, Serving, SkbLocal, PtrLocal
  <2>3. HandlerLocal'
    BY <1>1, <1>4 DEF TimerTrylockFails, Control, TypeOK, HandlerLocal, SendMeansDack
  <2>4. SendMeansDack' /\ NothingPending' /\ PendingHasDeadline'
    BY <1>1, <1>4 DEF TimerTrylockFails, Control, TypeOK, Skb, SendMeansDack, NothingPending,
       PendingHasDeadline
  <2>5. OnlyFramesLeave'
    BY <1>1, <1>4 DEF TimerTrylockFails, Control, OnlyFramesLeave, HandlerLocal, Skb
  <2>6. LockDiscipline'
    BY <1>1, <1>4 DEF TimerTrylockFails, Control, TypeOK, LockDiscipline
  <2>7. QED  BY <2>1, <2>2, <2>3, <2>4, <2>5, <2>6 DEF Control
<1>5. CASE TimerTake(e)
  <2>1. TypeOK'
    BY <1>1, <1>5 DEF TimerTake, Control, TypeOK, TimerStates
  <2>2. Serving' /\ SkbLocal' /\ PtrLocal'
    BY <1>1, <1>5 DEF TimerTake, Control, Serving, SkbLocal, PtrLocal
  <2>3. HandlerLocal'
    BY <1>1, <1>5 DEF TimerTake, Control, TypeOK, HandlerLocal, SendMeansDack
  <2>4. SendMeansDack' /\ NothingPending' /\ PendingHasDeadline'
    BY <1>1, <1>5 DEF TimerTake, Control, TypeOK, Skb, SendMeansDack, NothingPending,
       PendingHasDeadline
  <2>5. OnlyFramesLeave'
    BY <1>1, <1>5 DEF TimerTake, Control, OnlyFramesLeave, HandlerLocal, Skb
  <2>6. LockDiscipline'
    BY <1>1, <1>5 DEF TimerTake, Control, TypeOK, LockDiscipline
  <2>7. QED  BY <2>1, <2>2, <2>3, <2>4, <2>5, <2>6 DEF Control
<1>6. CASE TimerNothing(e)
  <2>1. TypeOK'
    BY <1>1, <1>6 DEF TimerNothing, Control, TypeOK, TimerStates
  <2>2. Serving' /\ SkbLocal' /\ PtrLocal'
    BY <1>1, <1>6 DEF TimerNothing, Control, Serving, SkbLocal, PtrLocal
  <2>3. HandlerLocal'
    BY <1>1, <1>6 DEF TimerNothing, Control, TypeOK, HandlerLocal, SendMeansDack
  <2>4. SendMeansDack' /\ NothingPending' /\ PendingHasDeadline'
    BY <1>1, <1>6 DEF TimerNothing, Control, TypeOK, Skb, SendMeansDack, NothingPending,
       PendingHasDeadline
  <2>5. OnlyFramesLeave'
    BY <1>1, <1>6 DEF TimerNothing, Control, OnlyFramesLeave, HandlerLocal, Skb
  <2>6. LockDiscipline'
    BY <1>1, <1>6 DEF TimerNothing, Control, TypeOK, LockDiscipline
  <2>7. QED  BY <2>1, <2>2, <2>3, <2>4, <2>5, <2>6 DEF Control
<1>7. CASE TimerUnlock(e)
  <2>1. TypeOK'
    BY <1>1, <1>7 DEF TimerUnlock, Control, TypeOK, TimerStates
  <2>2. Serving' /\ SkbLocal' /\ PtrLocal'
    BY <1>1, <1>7 DEF TimerUnlock, Control, Serving, SkbLocal, PtrLocal
  <2>3. HandlerLocal'
    BY <1>1, <1>7 DEF TimerUnlock, Control, TypeOK, HandlerLocal, SendMeansDack
  <2>4. SendMeansDack' /\ NothingPending' /\ PendingHasDeadline'
    BY <1>1, <1>7 DEF TimerUnlock, Control, TypeOK, Skb, SendMeansDack, NothingPending,
       PendingHasDeadline
  <2>5. OnlyFramesLeave'
    BY <1>1, <1>7 DEF TimerUnlock, Control, OnlyFramesLeave, HandlerLocal, Skb
  <2>6. LockDiscipline'
    BY <1>1, <1>7 DEF TimerUnlock, Control, TypeOK, LockDiscipline
  <2>7. QED  BY <2>1, <2>2, <2>3, <2>4, <2>5, <2>6 DEF Control
<1>8. CASE TimerAdd(e)
  <2>1. TypeOK'
    BY <1>1, <1>8 DEF TimerAdd, Control, TypeOK, TimerStates
  <2>2. Serving' /\ SkbLocal' /\ PtrLocal'
    BY <1>1, <1>8 DEF TimerAdd, Control, Serving, SkbLocal, PtrLocal
  <2>3. HandlerLocal'
    BY <1>1, <1>8 DEF TimerAdd, Control, TypeOK, HandlerLocal, SendMeansDack
  <2>4. SendMeansDack' /\ NothingPending' /\ PendingHasDeadline'
    BY <1>1, <1>8 DEF TimerAdd, Control, TypeOK, Skb, SendMeansDack, NothingPending,
       PendingHasDeadline
  <2>5. OnlyFramesLeave'
    BY <1>1, <1>8 DEF TimerAdd, Control, OnlyFramesLeave, HandlerLocal, Skb
  <2>6. LockDiscipline'
    BY <1>1, <1>8 DEF TimerAdd, Control, TypeOK, LockDiscipline
  <2>7. QED  BY <2>1, <2>2, <2>3, <2>4, <2>5, <2>6 DEF Control
<1>9. QED  BY <1>2, <1>3, <1>4, <1>5, <1>6, <1>7, <1>8 DEF Timer

(* Control is inductive: RequestControl, GenControl and TimerControl.      *)
LEMMA StepControl == Control /\ [Next]_vars => Control'
<1> SUFFICES ASSUME Control, [Next]_vars PROVE Control'  OBVIOUS
<1>1. CASE Gen  BY <1>1, GenControl
<1>2. ASSUME NEW e \in Enc, RequestDACK(e) PROVE Control'
  BY <1>2, RequestControl
<1>3. ASSUME NEW e \in Enc, Timer(e) PROVE Control'  BY <1>3, TimerControl
<1>4. CASE UNCHANGED vars
  BY <1>4 DEF vars, entryVars, genVars, timerVars, reqVars, fateVars, Control,
     TypeOK, Serving, SkbLocal, PtrLocal, HandlerLocal, SendMeansDack,
     NothingPending, LockDiscipline, PendingHasDeadline, OnlyFramesLeave, cur
<1>5. QED  BY <1>1, <1>2, <1>3, <1>4 DEF Next

(* The control part of the entry is invariant in every behaviour.          *)
THEOREM ControlInvariant == Spec => []Control
<1>1. Init => Control  BY InitControl
<1>2. Control /\ [Next]_vars => Control'  BY StepControl
<1>3. QED  BY <1>1, <1>2, PTL DEF Spec

(***************************************************************************)
(* Ownership. A request that waits names a frame nobody holds yet, because *)
(* the rounds of an encoding only grow; the waiting requests exclude the   *)
(* one that dackgen is serving.                                            *)
(***************************************************************************)
Waits(i) == i \in 1..Len(dqueue) /\ (i > 1 \/ genpc = "idle")

RequestsGrow ==
  \A i, j \in 1..Len(dqueue) :
    i < j /\ dqueue[i][1] = dqueue[j][1] => dqueue[i][2] < dqueue[j][2]

RequestsAsked == \A i \in 1..Len(dqueue) : dqueue[i][2] <= asked[dqueue[i][1]]

HeldAsked == \A s \in Skb : Held(s) => s[2] <= asked[s[1]]

HeldBeforeWaiting ==
  \A s \in Skb : Held(s) =>
    \A i \in 1..Len(dqueue) :
      Waits(i) /\ dqueue[i][1] = s[1] => s[2] < dqueue[i][2]

(* Frames of one encoding get older on their way out: queued ones are older*)
(* than the handler's, this one than the entry's, this one than prepDACK's.*)
Stage(h) == CASE h = "skb" -> 4 [] h = "entry" -> 3 [] h = "handler" -> 2
              [] h = "mqueue" -> 1 [] OTHER -> 0

OlderOnTheWayOut ==
  \A s, t \in Skb : \A h, k \in Holders :
    /\ HeldBy(h, s) /\ HeldBy(k, t) /\ s[1] = t[1]
    /\ 0 < Stage(h) /\ Stage(h) < Stage(k)
    => s[2] < t[2]

Ownership ==
  /\ Control
  /\ RequestsGrow
  /\ RequestsAsked
  /\ HeldAsked
  /\ HeldBeforeWaiting
  /\ OneHolder
  /\ OlderOnTheWayOut

(* Two ways a step treats the holders: it leaves them all, or it moves one *)
(* frame, that of name f, to the holder k.                                 *)
SameHolders ==
  \A s \in Skb : \A h \in Holders : HeldBy(h, s)' <=> HeldBy(h, s)

MovedTo(f, k) ==
  \A s \in Skb : \A h \in Holders :
    HeldBy(h, s)' <=> IF s = f THEN h = k ELSE HeldBy(h, s)

(* A step that moves no frame and adds no request keeps Ownership.         *)
LEMMA SameHoldersOwnership ==
  ASSUME Ownership, Control', SameHolders, UNCHANGED <<asked, dqueue>>,
         genpc' = "idle" => genpc = "idle"
  PROVE  Ownership'
<1>1. \A s \in Skb : Held(s)' <=> Held(s)  BY DEF Held, SameHolders
<1>2. \A i : Waits(i)' => Waits(i)  BY DEF Waits
<1>3. RequestsGrow' /\ RequestsAsked'
  BY DEF Ownership, RequestsGrow, RequestsAsked
<1>4. HeldAsked' /\ HeldBeforeWaiting'
  BY <1>1, <1>2 DEF Ownership, HeldAsked, HeldBeforeWaiting
<1>5. OneHolder'  BY DEF Ownership, OneHolder, SameHolders
<1>6. OlderOnTheWayOut'
  BY DEF Ownership, OlderOnTheWayOut, SameHolders, Stage
<1>7. QED  BY <1>3, <1>4, <1>5, <1>6 DEF Ownership

(* A frame may move to the next stage on its way out when it was the only  *)
(* one of its encoding at its stage, or leave the way out altogether.      *)
LEMMA MovedOwnership ==
  ASSUME Ownership, Control', UNCHANGED <<asked, dqueue>>,
         genpc' = "idle" => genpc = "idle",
         NEW f \in Skb, NEW h0 \in Holders, NEW k0 \in Holders,
         HeldBy(h0, f), MovedTo(f, k0),
         \/ Stage(k0) = 0
         \/ /\ Stage(k0) + 1 = Stage(h0)
            /\ \A t \in Skb : HeldBy(h0, t) /\ t[1] = f[1] => t = f
  PROVE  Ownership'
<1>1. \A s \in Skb : Held(s)' => Held(s)  BY DEF Held, MovedTo
<1>2. \A i : Waits(i)' => Waits(i)  BY DEF Waits
<1>3. RequestsGrow' /\ RequestsAsked'
  BY DEF Ownership, RequestsGrow, RequestsAsked
<1>4. HeldAsked' /\ HeldBeforeWaiting'
  BY <1>1, <1>2 DEF Ownership, HeldAsked, HeldBeforeWaiting
<1>5. OneHolder'  BY DEF Ownership, OneHolder, MovedTo
<1>6. OlderOnTheWayOut'
  <2> SUFFICES ASSUME NEW s \in Skb, NEW t \in Skb,
                      NEW h \in Holders, NEW k \in Holders,
                      HeldBy(h, s)', HeldBy(k, t)', s[1] = t[1],
                      0 < Stage(h), Stage(h) < Stage(k)
               PROVE  s[2] < t[2]
    BY DEF OlderOnTheWayOut, Stage
  <2>1. CASE s # f /\ t # f
    BY <2>1 DEF Ownership, OlderOnTheWayOut, MovedTo
  <2>2. CASE s = f /\ t = f  BY <2>2 DEF MovedTo, Stage, Holders
  <2>3. CASE s = f /\ t # f
    <3>1. h = k0 /\ HeldBy(k, t)  BY <2>3 DEF MovedTo
    <3>2. k # h0  BY <2>3, <3>1
    <3>3. Stage(h0) < Stage(k)  BY <3>1, <3>2 DEF Stage, Holders
    <3>4. 0 < Stage(h0)  BY <3>1 DEF Stage, Holders
    <3>5. QED  BY <2>3, <3>1, <3>3, <3>4 DEF Ownership, OlderOnTheWayOut
  <2>4. CASE s # f /\ t = f
    <3>1. k = k0 /\ HeldBy(h, s)  BY <2>4 DEF MovedTo
    <3>2. Stage(h) < Stage(h0)  BY <3>1 DEF Stage, Holders
    <3>3. QED  BY <2>4, <3>1, <3>2 DEF Ownership, OlderOnTheWayOut
  <2>5. QED  BY <2>1, <2>2, <2>3, <2>4
<1>7. QED  BY <1>3, <1>4, <1>5, <1>6 DEF Ownership

(* No frame exists initially.                                              *)
LEMMA InitOwnership == Init => Ownership
<1> SUFFICES ASSUME Init PROVE Ownership  OBVIOUS
<1>1. Control  BY InitControl
<1>2. \A s \in Skb : ~Held(s)
  BY PointerAssumption DEF Init, Held, HeldBy, Skb
<1>3. \A s \in Skb : \A h \in Holders : ~HeldBy(h, s)  BY <1>2 DEF Held
<1>4. RequestsGrow /\ RequestsAsked  BY DEF Init, RequestsGrow, RequestsAsked
<1>5. HeldAsked /\ HeldBeforeWaiting  BY <1>2 DEF HeldAsked, HeldBeforeWaiting
<1>6. OneHolder /\ OlderOnTheWayOut  BY <1>3 DEF OneHolder, OlderOnTheWayOut
<1>7. QED  BY <1>1, <1>4, <1>5, <1>6 DEF Ownership

(* A new request names a round later than all the frames and requests of   *)
(* its encoding.                                                           *)
LEMMA RequestOwnership ==
  ASSUME Ownership, Control', NEW e \in Enc, RequestDACK(e)
  PROVE  Ownership'
<1> USE MaxRoundAssumption, PointerAssumption
<1>0. dqueue \in Seq(Skb) /\ asked \in [Enc -> 0..MaxRound]
  BY DEF Ownership, Control, TypeOK
<1> PICK r \in Round :
      /\ r > asked[e]
      /\ asked' = [asked EXCEPT ![e] = r]
      /\ \/ dqueue' = Append(dqueue, <<e, r>>)
         \/ UNCHANGED dqueue
  BY DEF RequestDACK
<1>1. SameHolders /\ UNCHANGED <<genpc>>
  BY DEF RequestDACK, SameHolders, HeldBy, entryVars, genVars, timerVars, fateVars
<1>2. \A s \in Skb : Held(s)' <=> Held(s)  BY <1>1 DEF Held, SameHolders
<1>3. \A d \in Enc : asked[d] <= asked'[d]  BY <1>0 DEF Round
<1>4. <<e, r>> \in Skb  BY DEF Skb
<1>5. \A s \in Skb : s[1] \in Enc /\ s[2] \in Round  BY DEF Skb
<1>6. HeldAsked'
  <2> SUFFICES ASSUME NEW s \in Skb, Held(s)' PROVE s[2] <= asked'[s[1]]
    BY DEF HeldAsked
  <2>1. s[2] <= asked[s[1]]  BY <1>2 DEF Ownership, HeldAsked
  <2>2. QED  BY <2>1, <1>0, <1>3, <1>5 DEF Round
<1>7. OneHolder' /\ OlderOnTheWayOut'
  BY <1>1 DEF Ownership, OneHolder, OlderOnTheWayOut, SameHolders, Stage
<1>8. \A i \in 1..Len(dqueue) : dqueue[i] \in Skb  BY <1>0
<1>9. CASE UNCHANGED dqueue
  <2>1. RequestsGrow'  BY <1>9 DEF Ownership, RequestsGrow
  <2>2. RequestsAsked'
    BY <1>9, <1>0, <1>3, <1>5, <1>8 DEF Ownership, RequestsAsked, Round
  <2>3. HeldBeforeWaiting'
    BY <1>9, <1>1, <1>2 DEF Ownership, HeldBeforeWaiting, Waits
  <2>4. QED  BY <2>1, <2>2, <2>3, <1>6, <1>7 DEF Ownership
<1>10. CASE dqueue' = Append(dqueue, <<e, r>>)
  <2>1. /\ Len(dqueue) \in Nat
        /\ Len(dqueue') = Len(dqueue) + 1
        /\ \A i \in 1..Len(dqueue) : dqueue'[i] = dqueue[i]
        /\ dqueue'[Len(dqueue) + 1] = <<e, r>>
    BY <1>0, <1>4, <1>10, AppendProperties
  <2>2. \A i \in 1..Len(dqueue) : dqueue[i][1] = e => dqueue[i][2] < r
    BY <1>0, <1>5, <1>8 DEF Ownership, RequestsAsked, Round
  <2>3. RequestsGrow'
    <3> SUFFICES ASSUME NEW i \in 1..Len(dqueue'), NEW j \in 1..Len(dqueue'), i < j,
                        dqueue'[i][1] = dqueue'[j][1]
                 PROVE  dqueue'[i][2] < dqueue'[j][2]
      BY DEF RequestsGrow
    <3>1. i \in 1..Len(dqueue) /\ dqueue'[i] = dqueue[i]  BY <2>1
    <3>2. CASE j = Len(dqueue) + 1
      <4>1. dqueue'[j] = <<e, r>>  BY <2>1, <3>2
      <4>2. dqueue[i][1] = e  BY <3>1, <4>1
      <4>3. dqueue[i][2] < r  BY <2>2, <3>1, <4>2
      <4>4. QED  BY <3>1, <4>1, <4>3
    <3>3. CASE j \in 1..Len(dqueue)
      <4>1. dqueue'[j] = dqueue[j]  BY <2>1, <3>3
      <4>2. dqueue[i][1] = dqueue[j][1]  BY <3>1, <4>1
      <4>3. dqueue[i][2] < dqueue[j][2]
        BY <3>1, <3>3, <4>2 DEF Ownership, RequestsGrow
      <4>4. QED  BY <3>1, <4>1, <4>3
    <3>4. QED  BY <3>2, <3>3, <2>1
  <2>4. RequestsAsked'
    BY <2>1, <1>0, <1>3, <1>5, <1>8 DEF Ownership, RequestsAsked, Round
  <2>5. \A s \in Skb : Held(s) /\ s[1] = e => s[2] < r
    BY <1>0, <1>5 DEF Ownership, HeldAsked, Round
  <2>6. HeldBeforeWaiting'
    BY <2>1, <2>5, <1>1, <1>2 DEF Ownership, HeldBeforeWaiting, Waits
  <2>7. QED  BY <2>3, <2>4, <2>6, <1>6, <1>7 DEF Ownership
<1>11. QED  BY <1>9, <1>10

(* prepDACK allocates the frame of the oldest request; it is the youngest  *)
(* frame of its encoding.                                                  *)
LEMMA BuildOwnership ==
  ASSUME Ownership, Control', GenBuild
  PROVE  Ownership'
<1> USE MaxRoundAssumption, PointerAssumption
<1>0. dqueue \in Seq(Skb) /\ dqueue # <<>> /\ skb = NULL /\ ptr = NULL
  BY DEF Ownership, Control, TypeOK, GenBuild, SkbLocal, PtrLocal
<1>1. UNCHANGED <<asked, dqueue>> /\ genpc = "idle" /\ genpc' # "idle"
  BY DEF GenBuild, reqVars
<1>2. CASE skb' = NULL
  <2>1. SameHolders
    BY <1>0, <1>2 DEF GenBuild, SameHolders, HeldBy, entryVars, timerVars, fateVars
  <2>2. QED  BY <2>1, <1>1, SameHoldersOwnership
<1>3. CASE skb' = cur
  <2>1. cur \in Skb /\ cur = dqueue[1] /\ Len(dqueue) > 0 /\ Waits(1)
    BY <1>0, <1>1, HeadTailProperties, EmptySeq DEF cur, Waits
  <2>2. \A s \in Skb : \A h \in Holders :
          HeldBy(h, s)' <=> HeldBy(h, s) \/ (h = "skb" /\ s = cur)
    BY <1>0, <1>3, <2>1 DEF GenBuild, HeldBy, Holders, entryVars, timerVars, fateVars
  <2>3. \A s \in Skb : Held(s) /\ s[1] = cur[1] => s[2] < cur[2]
    BY <2>1 DEF Ownership, HeldBeforeWaiting
  <2>4. cur[2] \in Nat /\ ~ Held(cur)  BY <2>1, <2>3 DEF Skb, Round
  <2>5. \A s \in Skb : Held(s)' <=> Held(s) \/ s = cur
    BY <2>2 DEF Held, Holders
  <2>6. RequestsGrow' /\ RequestsAsked'
    BY <1>1 DEF Ownership, RequestsGrow, RequestsAsked
  <2>7. HeldAsked'
    BY <1>1, <2>1, <2>5 DEF Ownership, HeldAsked, RequestsAsked
  <2>8. HeldBeforeWaiting'
    <3> SUFFICES ASSUME NEW s \in Skb, Held(s)', NEW i \in 1..Len(dqueue),
                        i > 1, dqueue[i][1] = s[1]
                 PROVE  s[2] < dqueue[i][2]
      BY <1>1 DEF HeldBeforeWaiting, Waits
    <3>1. CASE s = cur  BY <3>1, <2>1 DEF Ownership, RequestsGrow
    <3>2. CASE Held(s)
      BY <3>2, <1>1 DEF Ownership, HeldBeforeWaiting, Waits
    <3>3. QED  BY <3>1, <3>2, <2>5
  <2>9. OneHolder'
    BY <2>2, <2>4 DEF Ownership, OneHolder, Held
  <2>10. OlderOnTheWayOut'
    <3> SUFFICES ASSUME NEW s \in Skb, NEW t \in Skb,
                        NEW h \in Holders, NEW k \in Holders,
                        HeldBy(h, s)', HeldBy(k, t)', s[1] = t[1],
                        0 < Stage(h), Stage(h) < Stage(k)
                 PROVE  s[2] < t[2]
      BY DEF OlderOnTheWayOut, Stage
    <3>1. HeldBy(h, s) /\ Held(s)  BY <2>2 DEF Stage, Holders, Held
    <3>2. CASE t = cur  BY <3>1, <3>2, <2>3
    <3>3. CASE HeldBy(k, t)  BY <3>1, <3>3 DEF Ownership, OlderOnTheWayOut
    <3>4. QED  BY <3>2, <3>3, <2>2
  <2>11. QED  BY <2>6, <2>7, <2>8, <2>9, <2>10 DEF Ownership
<1>4. QED  BY <1>2, <1>3 DEF GenBuild

(* The new frame enters the entry, the one it replaces leaves the way out. *)
LEMMA ReplaceOwnership ==
  ASSUME Ownership, Control', GenReplace
  PROVE  Ownership'
<1> USE MaxRoundAssumption, PointerAssumption
<1>0. dqueue # <<>> /\ cur \in Skb /\ cur[1] \in Enc
  BY RequestInSkb DEF Ownership, Control, Serving, GenReplace
<1>1. /\ UNCHANGED <<asked, dqueue>> /\ (genpc' = "idle" => genpc = "idle")
      /\ skb = cur /\ ptr = NULL
      /\ dack[cur[1]] \in Skb /\ dack[cur[1]][1] = cur[1]
  BY <1>0 DEF GenReplace, reqVars, Ownership, Control, SkbLocal, PtrLocal,
     SendMeansDack, Skb
<1> DEFINE old == dack[cur[1]]
<1>2. HeldBy("skb", cur) /\ HeldBy("entry", old)  BY <1>1 DEF HeldBy
<1>3. old # cur
  BY <1>0, <1>1, <1>2 DEF Ownership, OneHolder, Holders
<1>4. \A s \in Skb : \A h \in Holders :
        HeldBy(h, s)' <=> CASE s = cur -> h = "entry"
                            [] s = old -> h = "ptr"
                            [] OTHER -> HeldBy(h, s)
  <2> SUFFICES ASSUME NEW s \in Skb, NEW h \in Holders
               PROVE  HeldBy(h, s)' <=> CASE s = cur -> h = "entry"
                                          [] s = old -> h = "ptr"
                                          [] OTHER -> HeldBy(h, s)
    OBVIOUS
  <2>1. /\ skb' = NULL /\ ptr' = old
        /\ dack' = [dack EXCEPT ![cur[1]] = cur] /\ dack \in [Enc -> Skb \cup {NULL, Junk}]
        /\ UNCHANGED <<tptr, mqueued, freed, lost>>
    BY <1>1 DEF GenReplace, timerVars, fateVars, Ownership, Control, TypeOK
  <2>2. s[1] \in Enc  BY DEF Skb
  <2>3. CASE s = cur
    <3>1. h # "skb" => ~HeldBy(h, cur)
      BY <1>0, <1>2 DEF Ownership, OneHolder, Holders
    <3>2. QED  BY <3>1, <2>1, <2>3, <1>0, <1>1, <1>3 DEF HeldBy, Holders
  <2>4. CASE s = old
    <3>1. h # "entry" => ~HeldBy(h, old)
      BY <1>1, <1>2 DEF Ownership, OneHolder, Holders
    <3>2. QED  BY <3>1, <2>1, <2>4, <1>0, <1>1, <1>3 DEF HeldBy, Holders
  <2>5. CASE s # old /\ s # cur
    BY <2>1, <2>2, <2>5, <1>0, <1>1 DEF HeldBy, Holders
  <2>6. QED  BY <2>3, <2>4, <2>5
<1>5. \A s \in Skb : Held(s)' => Held(s)
  BY <1>2, <1>4 DEF Held, Holders
<1>6. RequestsGrow' /\ RequestsAsked'
  BY <1>1 DEF Ownership, RequestsGrow, RequestsAsked
<1>7. HeldAsked' /\ HeldBeforeWaiting'
  BY <1>1, <1>5 DEF Ownership, HeldAsked, HeldBeforeWaiting, Waits
<1>8. OneHolder'  BY <1>3, <1>4 DEF Ownership, OneHolder
<1>9. OlderOnTheWayOut'
  <2> SUFFICES ASSUME NEW s \in Skb, NEW t \in Skb,
                      NEW h \in Holders, NEW k \in Holders,
                      HeldBy(h, s)', HeldBy(k, t)', s[1] = t[1],
                      0 < Stage(h), Stage(h) < Stage(k)
               PROVE  s[2] < t[2]
    BY DEF OlderOnTheWayOut, Stage
  <2>1. k # "ptr" /\ h # "ptr"  BY DEF Stage, Holders
  <2>2. s # old /\ t # old  BY <2>1, <1>3, <1>4
  <2>3. CASE t = cur
    <3>1. k = "entry" /\ HeldBy(h, s)
      BY <2>2, <2>3, <1>4 DEF Stage, Holders
    <3>2. Stage(h) < Stage("skb")  BY <3>1 DEF Stage, Holders
    <3>3. QED  BY <3>1, <3>2, <2>3, <1>2 DEF Ownership, OlderOnTheWayOut, Holders
  <2>4. CASE s = cur
    <3>1. h = "entry" /\ t # cur /\ HeldBy(k, t)
      BY <2>2, <2>4, <1>4 DEF Stage, Holders
    <3>2. k = "skb"  BY <3>1 DEF Stage, Holders
    <3>3. QED  BY <3>1, <3>2, <1>1 DEF HeldBy
  <2>5. CASE s # cur /\ t # cur
    BY <2>2, <2>5, <1>4 DEF Ownership, OlderOnTheWayOut
  <2>6. QED  BY <2>3, <2>4, <2>5
<1>10. QED  BY <1>6, <1>7, <1>8, <1>9 DEF Ownership

(* The served request leaves the list; the ones behind it move up.         *)
LEMMA DequeueOwnership ==
  ASSUME Ownership, Control', GenDequeue
  PROVE  Ownership'
<1>0. dqueue \in Seq(Skb) /\ dqueue # <<>>
  BY DEF Ownership, Control, TypeOK, Serving, GenDequeue
<1>1. UNCHANGED asked /\ genpc = "done" /\ dqueue' = Tail(dqueue)
  BY DEF GenDequeue
<1>2. SameHolders
  BY DEF GenDequeue, SameHolders, HeldBy, entryVars, timerVars, fateVars
<1>3. \A s \in Skb : Held(s)' <=> Held(s)  BY <1>2 DEF Held, SameHolders
<1>4. /\ Len(dqueue) \in Nat /\ Len(dqueue') = Len(dqueue) - 1
      /\ \A i \in 1..Len(dqueue') : dqueue'[i] = dqueue[i + 1]
  BY <1>0, <1>1, HeadTailProperties
<1>5. RequestsGrow'
  <2> SUFFICES ASSUME NEW i \in 1..Len(dqueue'), NEW j \in 1..Len(dqueue'),
                      i < j, dqueue'[i][1] = dqueue'[j][1]
               PROVE  dqueue'[i][2] < dqueue'[j][2]
    BY DEF RequestsGrow
  <2>1. i + 1 \in 1..Len(dqueue) /\ j + 1 \in 1..Len(dqueue) /\ i + 1 < j + 1
    BY <1>4
  <2>2. dqueue'[i] = dqueue[i + 1] /\ dqueue'[j] = dqueue[j + 1]  BY <1>4
  <2>3. QED  BY <2>1, <2>2 DEF Ownership, RequestsGrow
<1>6. RequestsAsked'
  <2> SUFFICES ASSUME NEW i \in 1..Len(dqueue')
               PROVE  dqueue'[i][2] <= asked'[dqueue'[i][1]]
    BY DEF RequestsAsked
  <2>1. i + 1 \in 1..Len(dqueue) /\ dqueue'[i] = dqueue[i + 1]  BY <1>4
  <2>2. QED  BY <2>1, <1>1 DEF Ownership, RequestsAsked
<1>7. HeldAsked'  BY <1>1, <1>3 DEF Ownership, HeldAsked
<1>8. HeldBeforeWaiting'
  <2> SUFFICES ASSUME NEW s \in Skb, Held(s)', NEW i \in 1..Len(dqueue'),
                      dqueue'[i][1] = s[1]
               PROVE  s[2] < dqueue'[i][2]
    BY DEF HeldBeforeWaiting
  <2>1. i + 1 \in 1..Len(dqueue) /\ dqueue'[i] = dqueue[i + 1] /\ i + 1 > 1
    BY <1>4
  <2>2. QED  BY <2>1, <1>3 DEF Ownership, HeldBeforeWaiting, Waits
<1>9. OneHolder' /\ OlderOnTheWayOut'
  BY <1>2 DEF Ownership, OneHolder, OlderOnTheWayOut, SameHolders, Stage
<1>10. QED  BY <1>5, <1>6, <1>7, <1>8, <1>9 DEF Ownership

(* The steps of dackgen and prepDACK move the frame they serve, or none.   *)
LEMMA GenOwnership ==
  ASSUME Ownership, Control', Gen
  PROVE  Ownership'
<1> USE MaxRoundAssumption, PointerAssumption
<1> USE DEF entryVars, genVars, timerVars, reqVars, fateVars
<1>0. /\ dqueue # <<>> => cur \in Skb /\ cur[1] \in Enc
      /\ Control
  BY RequestInSkb DEF Ownership, Control
<1>1. CASE GenBuild  BY <1>1, BuildOwnership
<1>2. CASE GenTrylock
  <2>1. SameHolders  BY <1>2 DEF GenTrylock, SameHolders, HeldBy
  <2>2. QED  BY <2>1, <1>2, SameHoldersOwnership DEF GenTrylock
<1>3. CASE GenTrylockFails
  <2>1. skb \in Skb /\ HeldBy("skb", skb)
    BY <1>0, <1>3 DEF GenTrylockFails, Control, Serving, SkbLocal, HeldBy
  <2>2. MovedTo(skb, "freed")
    <3> SUFFICES ASSUME NEW s \in Skb, NEW h \in Holders
                 PROVE  HeldBy(h, s)' <=> IF s = skb THEN h = "freed" ELSE HeldBy(h, s)
      BY DEF MovedTo
    <3>1. s = skb /\ h # "skb" => ~HeldBy(h, s)
      BY <2>1 DEF Ownership, OneHolder, Holders
    <3>2. QED  BY <3>1, <2>1, <1>3 DEF GenTrylockFails, HeldBy, Holders
  <2>3. QED
    BY <2>1, <2>2, <1>3, MovedOwnership DEF GenTrylockFails, Holders, Stage
<1>4. CASE GenReplace  BY <1>4, ReplaceOwnership
<1>5. CASE GenInstall
  <2>1. /\ skb = cur /\ skb \in Skb /\ skb[1] \in Enc /\ HeldBy("skb", skb)
        /\ dack[cur[1]] \notin Skb /\ dack \in [Enc -> Skb \cup {NULL, Junk}]
    <3>1. skb = cur /\ skb \in Skb /\ skb[1] \in Enc
      BY <1>0, <1>5 DEF GenInstall, Control, Serving, SkbLocal
    <3>2. send[cur[1]] = 0 /\ dack \in [Enc -> Skb \cup {NULL, Junk}]
      BY <3>1, <1>0, <1>5 DEF GenInstall, Control, TypeOK
    <3>3. dack[cur[1]] \notin Skb
      BY <3>1, <3>2, <1>0 DEF Control, NothingPending
    <3>4. QED  BY <3>1, <3>2, <3>3 DEF HeldBy
  <2>2. MovedTo(skb, "entry")
    <3> SUFFICES ASSUME NEW s \in Skb, NEW h \in Holders
                 PROVE  HeldBy(h, s)' <=> IF s = skb THEN h = "entry" ELSE HeldBy(h, s)
      BY DEF MovedTo
    <3>1. s = skb /\ h # "skb" => ~HeldBy(h, s)
      BY <2>1 DEF Ownership, OneHolder, Holders
    <3>2. s[1] \in Enc  BY DEF Skb
    <3>3. QED  BY <3>1, <3>2, <2>1, <1>5 DEF GenInstall, HeldBy, Holders
  <2>3. \A t \in Skb : HeldBy("skb", t) => t = skb  BY DEF HeldBy
  <2>4. QED
    BY <2>1, <2>2, <2>3, <1>5, MovedOwnership DEF GenInstall, Holders, Stage
<1>6. CASE GenUnlock
  <2>1. SameHolders  BY <1>6 DEF GenUnlock, SameHolders, HeldBy
  <2>2. QED  BY <2>1, <1>6, SameHoldersOwnership DEF GenUnlock
<1>7. CASE GenFree
  <2>1. CASE ptr = NULL
    <3>1. SameHolders  BY <2>1, <1>7 DEF GenFree, SameHolders, HeldBy
    <3>2. QED  BY <3>1, <1>7, SameHoldersOwnership DEF GenFree
  <2>2. CASE ptr # NULL
    <3>1. ptr \in Skb /\ HeldBy("ptr", ptr)
      BY <1>0, <1>7, <2>2 DEF GenFree, Control, Serving, PtrLocal, HeldBy, Skb
    <3>2. MovedTo(ptr, "freed")
      <4> SUFFICES ASSUME NEW s \in Skb, NEW h \in Holders
                   PROVE  HeldBy(h, s)' <=> IF s = ptr THEN h = "freed" ELSE HeldBy(h, s)
        BY DEF MovedTo
      <4>1. s = ptr /\ h # "ptr" => ~HeldBy(h, s)
        BY <3>1 DEF Ownership, OneHolder, Holders
      <4>2. QED  BY <4>1, <3>1, <1>7 DEF GenFree, HeldBy, Holders
    <3>3. QED
      BY <3>1, <3>2, <1>7, MovedOwnership DEF GenFree, Holders, Stage
  <2>3. QED  BY <2>1, <2>2
<1>8. CASE GenDequeue  BY <1>8, DequeueOwnership
<1>9. QED  BY <1>1, <1>2, <1>3, <1>4, <1>5, <1>6, <1>7, <1>8 DEF Gen

(* The steps of a handler move the frame of its entry, or none.            *)
LEMMA TimerOwnership ==
  ASSUME Ownership, Control', NEW e \in Enc, Timer(e)
  PROVE  Ownership'
<1> USE MaxRoundAssumption, PointerAssumption
<1> USE DEF entryVars, genVars, timerVars, reqVars, fateVars
<1>0. Control  BY DEF Ownership
<1>1. CASE TimerFire(e) \/ TimerTrylock(e) \/ TimerTrylockFails(e)
           \/ TimerNothing(e) \/ TimerUnlock(e)
  <2> USE DEF TimerFire, TimerTrylock, TimerTrylockFails, TimerNothing, TimerUnlock
  <2>1. SameHolders  BY <1>1 DEF SameHolders, HeldBy
  <2>2. UNCHANGED <<asked, dqueue, genpc>>  BY <1>1
  <2>3. QED  BY <2>1, <2>2, SameHoldersOwnership
<1>2. CASE TimerTake(e)
  <2> DEFINE f == dack[e]
  <2>1. /\ f \in Skb /\ f[1] = e /\ HeldBy("entry", f)
        /\ dack \in [Enc -> Skb \cup {NULL, Junk}]
        /\ tptr \in [Enc -> Skb \cup {NULL, Junk}] /\ tptr[e] = NULL
    BY <1>0, <1>2 DEF TimerTake, Control, TypeOK, SendMeansDack, HandlerLocal, HeldBy, Skb
  <2>2. MovedTo(f, "handler")
    <3> SUFFICES ASSUME NEW s \in Skb, NEW h \in Holders
                 PROVE  HeldBy(h, s)' <=> IF s = f THEN h = "handler" ELSE HeldBy(h, s)
      BY DEF MovedTo
    <3>1. s = f /\ h # "entry" => ~HeldBy(h, s)
      BY <2>1 DEF Ownership, OneHolder, Holders
    <3>2. s[1] \in Enc  BY DEF Skb
    <3>3. QED  BY <3>1, <3>2, <2>1, <1>2 DEF TimerTake, HeldBy, Holders
  <2>3. \A t \in Skb : HeldBy("entry", t) /\ t[1] = f[1] => t = f
    BY <2>1 DEF HeldBy
  <2>4. UNCHANGED <<asked, dqueue, genpc>>  BY <1>2 DEF TimerTake
  <2> HIDE DEF f
  <2>5. QED  BY <2>1, <2>2, <2>3, <2>4, MovedOwnership DEF Holders, Stage
<1>3. CASE TimerAdd(e)
  <2> DEFINE f == tptr[e]
  <2>1. /\ f \in Skb /\ f[1] = e /\ HeldBy("handler", f)
        /\ tptr \in [Enc -> Skb \cup {NULL, Junk}]
    BY <1>0, <1>3 DEF TimerAdd, Control, TypeOK, HandlerLocal, HeldBy, Skb
  <2>2. \E k \in {"mqueue", "lost"} : MovedTo(f, k)
    <3>1. \A s \in Skb : \A h \in Holders : s = f /\ h # "handler" => ~HeldBy(h, s)
      BY <2>1 DEF Ownership, OneHolder, Holders
    <3>2. \A s \in Skb : s[1] \in Enc  BY DEF Skb
    <3>3. CASE mqueued' = mqueued \cup {tptr[e]} /\ UNCHANGED lost
      <4>1. MovedTo(f, "mqueue")
        BY <3>1, <3>2, <3>3, <2>1, <1>3 DEF TimerAdd, MovedTo, HeldBy, Holders
      <4>2. QED  BY <4>1
    <3>4. CASE lost' = lost \cup {tptr[e]} /\ UNCHANGED mqueued
      <4>1. MovedTo(f, "lost")
        BY <3>1, <3>2, <3>4, <2>1, <1>3 DEF TimerAdd, MovedTo, HeldBy, Holders
      <4>2. QED  BY <4>1
    <3>5. QED  BY <3>3, <3>4, <1>3 DEF TimerAdd
  <2>3. \A t \in Skb : HeldBy("handler", t) /\ t[1] = f[1] => t = f
    BY <2>1 DEF HeldBy
  <2>4. UNCHANGED <<asked, dqueue, genpc>>  BY <1>3 DEF TimerAdd
  <2> HIDE DEF f
  <2>5. QED  BY <2>1, <2>2, <2>3, <2>4, MovedOwnership DEF Holders, Stage
<1>4. QED  BY <1>1, <1>2, <1>3 DEF Timer

(* Ownership is inductive.                                                 *)
LEMMA StepOwnership == Ownership /\ [Next]_vars => Ownership'
<1> SUFFICES ASSUME Ownership, [Next]_vars PROVE Ownership'  OBVIOUS
<1>1. Control'  BY StepControl DEF Ownership
<1>2. CASE Gen  BY <1>1, <1>2, GenOwnership
<1>3. ASSUME NEW e \in Enc, RequestDACK(e) PROVE Ownership'
  BY <1>1, <1>3, RequestOwnership
<1>4. ASSUME NEW e \in Enc, Timer(e) PROVE Ownership'
  BY <1>1, <1>4, TimerOwnership
<1>5. CASE UNCHANGED vars
  <2>1. SameHolders /\ UNCHANGED <<asked, dqueue, genpc>>
    BY <1>5 DEF vars, entryVars, genVars, timerVars, reqVars, fateVars,
       SameHolders, HeldBy
  <2>2. QED  BY <1>1, <2>1, SameHoldersOwnership
<1>6. QED  BY <1>2, <1>3, <1>4, <1>5 DEF Next

(* Ownership is invariant: it is the inductive strengthening of OneHolder. *)
THEOREM OwnershipInvariant == Spec => []Ownership
<1>1. Init => Ownership  BY InitOwnership
<1>2. Ownership /\ [Next]_vars => Ownership'  BY StepOwnership
<1>3. QED  BY <1>1, <1>2, PTL DEF Spec

(***************************************************************************)
(* The properties of VmacDack that follow.                                 *)
(***************************************************************************)

(* Every variable keeps its type.                                          *)
THEOREM TypeCorrect == Spec => []TypeOK
<1>1. Control => TypeOK  BY DEF Control
<1>2. QED  BY <1>1, ControlInvariant, PTL

(* Whoever finds send = 1 finds a frame of the encoding in dack, although  *)
(* the entry is created with dack unset (tx.c:118-139, dack.c:119-128).    *)
THEOREM SendMeansDackHolds == Spec => []SendMeansDack
<1>1. Control => SendMeansDack  BY DEF Control
<1>2. QED  BY <1>1, ControlInvariant, PTL

(* A pending DACK has a timer or a handler on its way (dack.c:331-344).    *)
THEOREM PendingHasDeadlineHolds == Spec => []PendingHasDeadline
<1>1. Control => PendingHasDeadline  BY DEF Control
<1>2. QED  BY <1>1, ControlInvariant, PTL

(* dacklok excludes prepDACK and __sendDACK from each other's critical     *)
(* sections (dack.c:114-130, 325-360).                                     *)
THEOREM LockDisciplineHolds == Spec => []LockDiscipline
<1>1. Control => LockDiscipline  BY DEF Control
<1>2. QED  BY <1>1, ControlInvariant, PTL

(* Only allocated frames are queued or freed (dack.c:128, 327, 363).       *)
THEOREM OnlyFramesLeaveHolds == Spec => []OnlyFramesLeave
<1>1. Control => OnlyFramesLeave  BY DEF Control
<1>2. QED  BY <1>1, ControlInvariant, PTL

(* No DACK frame is queued twice, freed twice, or both (dack.c:121-128,    *)
(* 331-364).                                                               *)
THEOREM OneHolderHolds == Spec => []OneHolder
<1>1. Ownership => OneHolder  BY DEF Ownership
<1>2. QED  BY <1>1, OwnershipInvariant, PTL

(* No step overwrites the last pointer to a frame (dack.c:336, 343, 347,   *)
(* 122-123): every step moves each frame to a holder or leaves it.         *)
LEMMA StepKeepsHeld ==
  ASSUME Control, [Next]_vars, NEW s \in Skb, Held(s)
  PROVE  Held(s)'
<1> USE MaxRoundAssumption, PointerAssumption
<1> USE DEF entryVars, genVars, timerVars, reqVars, fateVars
<1>0. PICK h \in Holders : HeldBy(h, s)  BY DEF Held
<1>1. SUFFICES \E k \in Holders : HeldBy(k, s)'  BY DEF Held
<1>2. s[1] \in Enc  BY DEF Skb
<1>3. CASE Gen
  <2>0. dqueue # <<>> => cur \in Skb /\ cur[1] \in Enc
    BY RequestInSkb DEF Control
  <2>1. CASE h = "skb"
    <3>1. skb = s /\ s = cur /\ genpc \in {"built", "locked"}
      BY <2>1, <1>0 DEF HeldBy, Control, SkbLocal
    <3>2. CASE GenTrylock
      BY <3>1, <3>2 DEF GenTrylock, HeldBy, Holders
    <3>3. CASE GenTrylockFails
      BY <3>1, <3>3 DEF GenTrylockFails, HeldBy, Holders
    <3>4. CASE GenReplace \/ GenInstall
      <4>1. dack'[s[1]] = s
        BY <3>1, <3>4, <1>2 DEF GenReplace, GenInstall, Control, TypeOK
      <4>2. QED  BY <4>1 DEF HeldBy, Holders
    <3>5. QED
      BY <3>1, <3>2, <3>3, <3>4, <1>3
         DEF Gen, GenBuild, GenUnlock, GenFree, GenDequeue
  <2>2. CASE h = "ptr"
    <3>1. ptr = s /\ genpc \in {"installed", "unlocked"}
      BY <2>2, <1>0 DEF HeldBy, Control, PtrLocal
    <3>2. CASE GenUnlock  BY <3>1, <3>2 DEF GenUnlock, HeldBy, Holders
    <3>3. CASE GenFree  BY <3>1, <3>3 DEF GenFree, HeldBy, Holders
    <3>4. QED
      BY <3>1, <3>2, <3>3, <1>3 DEF Gen, GenBuild, GenTrylock, GenTrylockFails,
         GenReplace, GenInstall, GenDequeue
  <2>3. CASE h = "entry"
    <3>1. dack[s[1]] = s /\ dack \in [Enc -> Skb \cup {NULL, Junk}]
      BY <2>3, <1>0 DEF HeldBy, Control, TypeOK
    <3>2. send[s[1]] = 1
      BY <3>1, <1>2 DEF Control, TypeOK, NothingPending
    <3>3. CASE GenReplace
      <4>1. ptr' = s \/ dack'[s[1]] = s  BY <3>1, <3>3, <1>2 DEF GenReplace
      <4>2. QED  BY <4>1 DEF HeldBy, Holders
    <3>4. CASE GenInstall
      <4>1. dack'[s[1]] = s  BY <3>1, <3>2, <3>4, <1>2 DEF GenInstall
      <4>2. QED  BY <4>1 DEF HeldBy, Holders
    <3>5. CASE UNCHANGED dack  BY <3>1, <3>5 DEF HeldBy, Holders
    <3>6. QED
      BY <3>3, <3>4, <3>5, <1>3 DEF Gen, GenBuild, GenTrylock, GenTrylockFails,
         GenUnlock, GenFree, GenDequeue
  <2>4. CASE h \in {"handler", "mqueue", "freed", "lost"}
    BY <2>4, <1>0, <1>3 DEF HeldBy, Holders, Gen, GenBuild, GenTrylock,
       GenTrylockFails, GenReplace, GenInstall, GenUnlock, GenFree, GenDequeue
  <2>5. QED  BY <2>1, <2>2, <2>3, <2>4 DEF Holders
<1>4. ASSUME NEW e \in Enc, RequestDACK(e)
      PROVE  \E k \in Holders : HeldBy(k, s)'
  BY <1>4, <1>0 DEF RequestDACK, HeldBy
<1>5. ASSUME NEW e \in Enc, Timer(e)
      PROVE  \E k \in Holders : HeldBy(k, s)'
  <2>1. CASE TimerFire(e) \/ TimerTrylock(e) \/ TimerTrylockFails(e)
             \/ TimerNothing(e) \/ TimerUnlock(e)
    BY <2>1, <1>0 DEF TimerFire, TimerTrylock, TimerTrylockFails, TimerNothing,
       TimerUnlock, HeldBy
  <2>2. CASE TimerTake(e)
    <3>1. h = "entry" /\ s[1] = e => tptr'[s[1]] = s
      BY <2>2, <1>0, <1>2 DEF TimerTake, HeldBy, Control, TypeOK
    <3>2. tptr[e] = NULL  BY <2>2, <1>5 DEF TimerTake, Control, HandlerLocal
    <3>3. h = "handler" => tptr'[s[1]] = s
      BY <2>2, <3>2, <1>0, <1>2 DEF TimerTake, HeldBy, Control, TypeOK
    <3>4. h = "entry" /\ s[1] # e => dack'[s[1]] = s
      BY <2>2, <1>0, <1>2 DEF TimerTake, HeldBy, Control, TypeOK
    <3>5. QED
      BY <2>2, <3>1, <3>3, <3>4, <1>0 DEF TimerTake, HeldBy, Holders
  <2>3. CASE TimerAdd(e)
    <3>1. h = "handler" => s \in mqueued' \/ s \in lost' \/ tptr'[s[1]] = s
      BY <2>3, <1>0, <1>2 DEF TimerAdd, HeldBy, Control, TypeOK
    <3>2. QED  BY <2>3, <3>1, <1>0 DEF TimerAdd, HeldBy, Holders
  <2>4. QED  BY <2>1, <2>2, <2>3, <1>5 DEF Timer
<1>6. CASE UNCHANGED vars  BY <1>6, <1>0 DEF vars, HeldBy
<1>7. QED  BY <1>3, <1>4, <1>5, <1>6 DEF Next

(* A frame that is held stays held until freed, queued or dropped by       *)
(* add_DACK: no leak through prepDACK or the timer handler.                *)
THEOREM NoFrameForgottenHolds == Spec => NoFrameForgotten
<1>1. Control /\ [Next]_vars => \A s \in Skb : Held(s) => Held(s)'
  BY StepKeepsHeld
<1>2. QED  BY <1>1, ControlInvariant, PTL DEF Spec, NoFrameForgotten

(* Reports of an encoding reach the management queue in the order of their *)
(* rounds (dack.c:124-128, 336-343): what the handler adds is younger than *)
(* all that was queued.                                                    *)
THEOREM QueuedInOrderHolds == Spec => QueuedInOrder
<1> DEFINE InOrder ==
      \A s \in mqueued' \ mqueued :
        \A q \in OfEntry(mqueued, s[1]) : q[2] < s[2]
<1>1. ASSUME Ownership, [Next]_vars PROVE InOrder
  <2> SUFFICES ASSUME NEW s \in mqueued' \ mqueued,
                      NEW q \in OfEntry(mqueued, s[1])
               PROVE  q[2] < s[2]
    OBVIOUS
  <2>1. PICK e \in Enc : TimerAdd(e) /\ s = tptr[e]
    BY <1>1 DEF Next, vars, Gen, Timer, RequestDACK, GenBuild, GenTrylock,
       GenTrylockFails, GenReplace, GenInstall, GenUnlock, GenFree, GenDequeue,
       TimerFire, TimerTrylock, TimerTrylockFails, TimerTake, TimerNothing,
       TimerUnlock, TimerAdd, fateVars
  <2>2. s \in Skb /\ s[1] = e
    BY <2>1, <1>1 DEF TimerAdd, Ownership, Control, HandlerLocal, Skb
  <2>3. HeldBy("handler", s)  BY <2>1, <2>2 DEF HeldBy
  <2>4. q \in Skb /\ q[1] = s[1] /\ HeldBy("mqueue", q)
    BY <1>1 DEF OfEntry, HeldBy, Ownership, Control, OnlyFramesLeave
  <2>5. QED
    BY <2>2, <2>3, <2>4, <1>1 DEF Ownership, OlderOnTheWayOut, Stage, Holders
<1>2. QED  BY <1>1, OwnershipInvariant, PTL DEF Spec, QueuedInOrder

(***************************************************************************)
(* The entry of an encoding is a mailbox for one report.                   *)
(***************************************************************************)
BoxOf == [e \in Enc |-> RoundOf(dack[e])]
HandOf == [e \in Enc |-> RoundOf(tptr[e])]

(* The frame prepDACK is about to install is the youngest of its encoding  *)
(* and was asked for: the rounds in the entry, with the handler and in the *)
(* management queue are older.                                             *)
LEMMA PostedIsYoungest ==
  ASSUME Ownership, genpc = "locked"
  PROVE  /\ skb = cur /\ cur \in Skb /\ cur[1] \in Enc /\ cur[2] \in Round
         /\ cur[2] <= asked[cur[1]]
         /\ BoxOf[cur[1]] < cur[2] /\ HandOf[cur[1]] < cur[2]
         /\ \A q \in mqueued : q[1] = cur[1] => q[2] < cur[2]
<1>1. dqueue # <<>> /\ cur \in Skb /\ cur[1] \in Enc /\ cur[2] \in Round /\ skb = cur
  BY RequestInSkb DEF Ownership, Control, Serving, SkbLocal
<1>2. HeldBy("skb", cur)  BY <1>1 DEF HeldBy
<1>3. cur[2] <= asked[cur[1]]
  BY <1>1, <1>2 DEF Ownership, HeldAsked, Held, Holders
<1>4. ASSUME NEW s \in Skb, s[1] = cur[1],
             NEW h \in {"entry", "handler", "mqueue"}, HeldBy(h, s)
      PROVE  s[2] < cur[2]
  <2>1. 0 < Stage(h) /\ Stage(h) < Stage("skb")  BY DEF Stage
  <2>2. QED
    BY <1>1, <1>2, <1>4, <2>1 DEF Ownership, OlderOnTheWayOut, Holders
<1>5. 0 < cur[2]  BY <1>1 DEF Round
<1>6. BoxOf[cur[1]] < cur[2]
  <2>1. CASE dack[cur[1]] \in Skb
    <3>1. dack[cur[1]][1] = cur[1]
      <4>1. send[cur[1]] # 0
        BY <1>1, <2>1, PointerAssumption DEF Ownership, Control, NothingPending
      <4>2. send[cur[1]] = 1  BY <1>1, <4>1 DEF Ownership, Control, TypeOK
      <4>3. QED  BY <1>1, <4>2 DEF Ownership, Control, SendMeansDack
    <3>2. HeldBy("entry", dack[cur[1]])  BY <3>1 DEF HeldBy
    <3>3. QED  BY <1>1, <1>4, <2>1, <3>1, <3>2 DEF BoxOf, RoundOf
  <2>2. QED  BY <1>1, <1>5, <2>1 DEF BoxOf, RoundOf
<1>7. HandOf[cur[1]] < cur[2]
  <2>1. CASE tptr[cur[1]] \in Skb
    <3>1. tptr[cur[1]][1] = cur[1]
      BY <1>1, <2>1, PointerAssumption DEF Ownership, Control, HandlerLocal, Skb
    <3>2. HeldBy("handler", tptr[cur[1]])  BY <3>1 DEF HeldBy
    <3>3. QED  BY <1>1, <1>4, <2>1, <3>1, <3>2 DEF HandOf, RoundOf
  <2>2. QED  BY <1>1, <1>5, <2>1 DEF HandOf, RoundOf
<1>8. ASSUME NEW q \in mqueued, q[1] = cur[1] PROVE q[2] < cur[2]
  <2>1. q \in Skb /\ HeldBy("mqueue", q)
    BY DEF Ownership, Control, OnlyFramesLeave, HeldBy
  <2>2. QED  BY <1>4, <1>8, <2>1
<1>9. QED  BY <1>1, <1>3, <1>6, <1>7, <1>8

(* A step is a step of the mailbox of its encoding, or changes no mailbox. *)
LEMMA StepMails ==
  ASSUME Ownership, [Next]_vars
  PROVE  [Mailbox!Next]_Mailbox!vars
<1> USE PointerAssumption
<1> USE DEF entryVars, genVars, timerVars, reqVars, fateVars
<1>1. ASSUME NEW e \in Enc, RequestDACK(e) PROVE Mailbox!Ask(e)
  <2>1. UNCHANGED <<BoxOf, HandOf, mqueued>>
    BY <1>1 DEF RequestDACK, BoxOf, HandOf, RoundOf
  <2>2. QED  BY <1>1, <2>1 DEF RequestDACK, Mailbox!Ask, BoxOf, HandOf
<1>2. CASE GenReplace \/ GenInstall
  <2>1. /\ genpc = "locked" /\ dack' = [dack EXCEPT ![cur[1]] = skb]
        /\ UNCHANGED <<asked, tptr, mqueued>>
    BY <1>2 DEF GenReplace, GenInstall
  <2>2. /\ skb = cur /\ cur \in Skb /\ cur[1] \in Enc /\ cur[2] \in Round
        /\ cur[2] <= asked[cur[1]]
        /\ BoxOf[cur[1]] < cur[2] /\ HandOf[cur[1]] < cur[2]
        /\ \A q \in mqueued : q[1] = cur[1] => q[2] < cur[2]
    BY <2>1, PostedIsYoungest
  <2>3. dack \in [Enc -> Skb \cup {NULL, Junk}]  BY DEF Ownership, Control, TypeOK
  <2>4. BoxOf' = [BoxOf EXCEPT ![cur[1]] = cur[2]] /\ HandOf' = HandOf
    BY <2>1, <2>2, <2>3 DEF BoxOf, HandOf, RoundOf
  <2>5. Mailbox!Youngest(cur[1], cur[2])
    BY <2>2 DEF Mailbox!Youngest, BoxOf, HandOf
  <2>6. Mailbox!Post(cur[1])
    BY <2>1, <2>2, <2>4, <2>5 DEF Mailbox!Post, BoxOf, HandOf
  <2>7. QED  BY <2>2, <2>6 DEF Mailbox!Next
<1>3. ASSUME NEW e \in Enc, TimerTake(e) PROVE Mailbox!Collect(e)
  <2>1. /\ dack[e] \in Skb /\ tptr[e] = NULL
        /\ dack \in [Enc -> Skb \cup {NULL, Junk}]
        /\ tptr \in [Enc -> Skb \cup {NULL, Junk}]
    BY <1>3 DEF TimerTake, Ownership, Control, SendMeansDack, HandlerLocal, TypeOK, Skb
  <2>2. BoxOf[e] # 0 /\ HandOf[e] = 0
    BY <2>1 DEF BoxOf, HandOf, RoundOf, Skb, Round
  <2>3. BoxOf' = [BoxOf EXCEPT ![e] = 0] /\ HandOf' = [HandOf EXCEPT ![e] = BoxOf[e]]
    BY <1>3, <2>1 DEF TimerTake, BoxOf, HandOf, RoundOf
  <2>4. QED  BY <1>3, <2>2, <2>3 DEF TimerTake, Mailbox!Collect, BoxOf, HandOf
<1>4. ASSUME NEW e \in Enc, TimerAdd(e) PROVE Mailbox!GoOut(e) \/ Mailbox!Lose(e)
  <2>1. /\ tptr[e] \in {e} \X Round
        /\ tptr \in [Enc -> Skb \cup {NULL, Junk}]
    BY <1>4 DEF TimerAdd, Ownership, Control, HandlerLocal, TypeOK
  <2>2. tptr[e] \in Skb /\ tptr[e] = <<e, HandOf[e]>> /\ HandOf[e] # 0
    BY <2>1 DEF HandOf, RoundOf, Skb, Round
  <2>3. BoxOf' = BoxOf /\ HandOf' = [HandOf EXCEPT ![e] = 0]
    BY <1>4, <2>1 DEF TimerAdd, BoxOf, HandOf, RoundOf
  <2>4. QED
    BY <1>4, <2>2, <2>3 DEF TimerAdd, Mailbox!GoOut, Mailbox!Lose, BoxOf, HandOf
<1>5. CASE UNCHANGED <<asked, dack, tptr, mqueued>>
  <2>1. BoxOf' = BoxOf /\ HandOf' = HandOf  BY <1>5 DEF BoxOf, HandOf, RoundOf
  <2>2. UNCHANGED <<asked, BoxOf, HandOf, mqueued>>  BY <1>5, <2>1
  <2>3. QED  BY <2>2 DEF Mailbox!vars, BoxOf, HandOf
<1>6. CASE Gen
  BY <1>2, <1>5, <1>6 DEF Gen, GenBuild, GenTrylock, GenTrylockFails, GenUnlock,
     GenFree, GenDequeue
<1>7. ASSUME NEW e \in Enc, Timer(e) PROVE [Mailbox!Next]_Mailbox!vars
  <2>1. CASE TimerTake(e) \/ TimerAdd(e)  BY <1>3, <1>4, <2>1 DEF Mailbox!Next
  <2>2. CASE ~(TimerTake(e) \/ TimerAdd(e))
    BY <1>5, <1>7, <2>2 DEF Timer, TimerFire, TimerTrylock, TimerTrylockFails,
       TimerNothing, TimerUnlock
  <2>3. QED  BY <2>1, <2>2
<1>8. CASE UNCHANGED vars  BY <1>5, <1>8 DEF vars
<1>9. QED  BY <1>1, <1>6, <1>7, <1>8 DEF Next, Mailbox!Next

(* The DACK life cycle implements the mailbox: a report of an encoding is  *)
(* given up only for a younger one, collected once, and goes out or is lost*)
(* (dack.c:112-130, 325-364, queue.c:165-177).                             *)
THEOREM MailboxRefined == Spec => MailboxSpec
<1>1. Init => Mailbox!Init
  BY PointerAssumption DEF Init, Mailbox!Init, Mailbox!None, RoundOf, Skb
<1>2. Ownership /\ [Next]_vars => [Mailbox!Next]_Mailbox!vars  BY StepMails
<1>3. QED
  BY <1>1, <1>2, OwnershipInvariant, PTL DEF Spec, MailboxSpec, Mailbox!Spec
=============================================================================
