--------------------------- MODULE VmacSpareProofs ---------------------------
(***************************************************************************)
(* Invariance proofs for the two components that this tree has and does    *)
(* not use yet: rate adaptation (VmacRate) and the keys of mac80211        *)
(* (VmacKey).  Nothing relates the two; their proofs follow one another.   *)
(*                                                                         *)
(* Rates, for tables of any length, any indices to start from, any number  *)
(* of encodings and senders: that the indices are in their tables, and     *)
(* that a copy of them is whole, holds by RateInv, which adds the lock.    *)
(*                                                                         *)
(* Keys, for any interfaces, stations, keys, readers and bounds.  The      *)
(* invariant, KInv, says of an operation under key_mtx where it may stand  *)
(* (Course) and with which keys (Works, Flags, Swap, Emptied).  From that  *)
(* it says, between any two steps, what is exact only when nobody holds    *)
(* the mutex: which keys are in their place and in their list (Placed,     *)
(* Listed), which the tailroom counters have counted (InCount), whom the   *)
(* grace period of a key on its way out still waits for (Awaited, Doomed), *)
(* and why who looked at a counter has the room that a key needs           *)
(* (RoomCounted, RoomPlaced).                                              *)
(***************************************************************************)
EXTENDS VmacRate, VmacKey, SequenceTheorems, FiniteSetTheorems, TLAPS

(***************************************************************************)
(* Rates.                                                                  *)
(***************************************************************************)

(* Three indices that are each in a table, apart and in order, or two of   *)
(* them at Top.                                                            *)
Indices == [1..3 -> 0..Top \cup {Wide}]
Ordered(g) ==
  /\ g \in Indices
  /\ g[1] < g[2]
  /\ g[2] < g[3] \/ (g[2] = g[3] /\ g[3] = Top)

Rounds == [1..3 -> 0..MaxRound]

(* Who is in rate_c or copyrate has the lock.                              *)
LockHeld == \A x \in Enc \cup Copiers : pc[x] # "out" => lock = x

(* copyrate reads three indices.                                           *)
ReadsThree == \A c \in Copiers : Len(copy[c]) <= 3

(* Neither conjunct is inductive alone: that a neighbour is in its table   *)
(* needs the order, and that a copy stays whole needs the lock.            *)
RateInv == RateTypeOK /\ InOrder /\ LockHeld /\ ReadsThree /\ CopyWhole

(* One index lowered, between the neighbour test and the jump.             *)
LEMMA LowerOrdered ==
  ASSUME NEW e \in Enc, NEW i \in 1..3, round[e] \in 0..MaxRound,
         NEW g, Ordered(g), NEW t \in Rounds
  PROVE  LET s == Lower(e, [idx |-> g, at |-> t], i) IN
           /\ s = [idx |-> s.idx, at |-> s.at]
           /\ Ordered(s.idx) /\ s.at \in Rounds
<1> DEFINE s == Lower(e, [idx |-> g, at |-> t], i)
<1> SUFFICES /\ s = [idx |-> s.idx, at |-> s.at]
             /\ Ordered(s.idx) /\ s.at \in Rounds
  OBVIOUS
<1>1. CASE s = [idx |-> g, at |-> t]  BY <1>1
<1>2. CASE /\ MayFall(g, i)
           /\ s = [idx |-> [g EXCEPT ![i] = Below(i, @)], at |-> [t EXCEPT ![i] = round[e]]]
  <2>1. [t EXCEPT ![i] = round[e]] \in Rounds  BY DEF Rounds
  <2>2. Ordered([g EXCEPT ![i] = Below(i, @)])
    <3>1. CASE i = 1
      BY <1>2, <3>1, RateAssumption DEF MayFall, Below, Ordered, Indices
    <3>2. CASE i = 2
      BY <1>2, <3>2, RateAssumption DEF MayFall, Below, Ordered, Indices
    <3>3. CASE i = 3
      BY <1>2, <3>3, RateAssumption DEF MayFall, Below, Ordered, Indices
    <3>4. QED  BY <3>1, <3>2, <3>3
  <2>3. QED  BY <1>2, <2>1, <2>2
<1>3. QED  BY <1>1, <1>2 DEF Lower

(* The same for one index raised.                                          *)
LEMMA RaiseOrdered ==
  ASSUME NEW e \in Enc, NEW i \in 1..3, round[e] \in 0..MaxRound,
         NEW g, Ordered(g), NEW t \in Rounds
  PROVE  LET s == Raise(e, [idx |-> g, at |-> t], i) IN
           /\ s = [idx |-> s.idx, at |-> s.at]
           /\ Ordered(s.idx) /\ s.at \in Rounds
<1> DEFINE s == Raise(e, [idx |-> g, at |-> t], i)
<1> SUFFICES /\ s = [idx |-> s.idx, at |-> s.at]
             /\ Ordered(s.idx) /\ s.at \in Rounds
  OBVIOUS
<1>1. CASE s = [idx |-> g, at |-> t]  BY <1>1
<1>2. CASE /\ MayRise(g, i)
           /\ s = [idx |-> [g EXCEPT ![i] = Above(i, @)], at |-> [t EXCEPT ![i] = round[e]]]
  <2>1. [t EXCEPT ![i] = round[e]] \in Rounds  BY DEF Rounds
  <2>2. Ordered([g EXCEPT ![i] = Above(i, @)])
    <3>1. CASE i = 1
      BY <1>2, <3>1, RateAssumption DEF MayRise, Above, Ordered, Indices
    <3>2. CASE i = 2
      BY <1>2, <3>2, RateAssumption DEF MayRise, Above, Ordered, Indices
    <3>3. CASE i = 3
      BY <1>2, <3>3, RateAssumption DEF MayRise, Above, Ordered, Indices
    <3>4. QED  BY <3>1, <3>2, <3>3
  <2>3. QED  BY <1>2, <2>1, <2>2
<1>3. QED  BY <1>1, <1>2 DEF Raise

LEMMA InitRate == RateInit => RateInv
<1> SUFFICES ASSUME RateInit PROVE RateInv  OBVIOUS
<1>1. RateTypeOK
  <2>1. <<0, 0, 0>> \in [1..3 -> 0..MaxRound]  BY RateAssumption
  <2>2. <<>> \in Seq(0..Top \cup {Wide})  OBVIOUS
  <2>3. QED  BY <2>1, <2>2, RateAssumption DEF RateInit, RateTypeOK
<1>2. InOrder  BY RateAssumption DEF RateInit, InOrder
<1>3. LockHeld /\ ReadsThree /\ CopyWhole  BY DEF RateInit, LockHeld, ReadsThree, CopyWhole
<1>4. QED  BY <1>1, <1>2, <1>3 DEF RateInv

(* rate_c takes the lock; the first half lowers, the second half raises.   *)
LEMMA BeginRate ==
  ASSUME RateInv, NEW e \in Enc, NEW r \in 0..MaxRound, RateBegin(e, r)
  PROVE  RateInv'
<1> USE RateAssumption DEF RateInv
<1>1. PICK l \in [1..3 -> {0, r \div 2 + 1, r}] : lost' = [lost EXCEPT ![e] = l]
  BY DEF RateBegin
<1>2. r \div 2 + 1 \in 0..MaxRound
  <2>1. r \in Nat /\ r <= MaxRound /\ MaxRound \in Nat /\ MaxRound >= 1  OBVIOUS
  <2>2. r \div 2 \in Nat /\ (r = 0 \/ r \div 2 + 1 <= r \/ r = 1) /\ (r <= 1 => r \div 2 = 0)
    BY <2>1, SMT
  <2>3. QED  BY <2>1, <2>2
<1>3. RateTypeOK'
  <2>1. l \in [1..3 -> 0..MaxRound]  BY <1>2
  <2>2. lost' \in [Enc -> [1..3 -> 0..MaxRound]] /\ round' \in [Enc -> 0..MaxRound]
    BY <1>1, <2>1 DEF RateTypeOK, RateBegin
  <2>3. /\ lock' \in Enc \cup Copiers \cup {Nobody}
        /\ pc' \in [Enc \cup Copiers -> {"out", "lower", "raise", "copy"}]
    BY DEF RateTypeOK, RateBegin, Take
  <2>4. QED  BY <2>2, <2>3 DEF RateTypeOK, RateBegin
<1>4. InOrder' /\ LockHeld' /\ ReadsThree' /\ CopyWhole'
  BY DEF RateTypeOK, RateBegin, Take, InOrder, LockHeld, ReadsThree, CopyWhole
<1>5. QED  BY <1>3, <1>4

LEMMA LowerRate ==
  ASSUME RateInv, NEW e \in Enc, RateLower(e)
  PROVE  RateInv'
<1> USE RateAssumption
<1> DEFINE s1 == Lower(e, [idx |-> idx, at |-> dec[e]], 1)
           s2 == Lower(e, s1, 2)
           s3 == Lower(e, s2, 3)
<1>1. round[e] \in 0..MaxRound /\ Ordered(idx) /\ dec[e] \in Rounds
  BY DEF RateInv, RateTypeOK, InOrder, Ordered, Indices, Rounds
<1>2. s1 = [idx |-> s1.idx, at |-> s1.at] /\ Ordered(s1.idx) /\ s1.at \in Rounds
  BY <1>1, LowerOrdered
<1> HIDE DEF s1
<1>3. s2 = [idx |-> s2.idx, at |-> s2.at] /\ Ordered(s2.idx) /\ s2.at \in Rounds
  <2>1. LET s == Lower(e, [idx |-> s1.idx, at |-> s1.at], 2) IN
          s = [idx |-> s.idx, at |-> s.at] /\ Ordered(s.idx) /\ s.at \in Rounds
    BY <1>1, <1>2, LowerOrdered
  <2>2. QED  BY <2>1, <1>2
<1> HIDE DEF s2
<1>4. Ordered(s3.idx) /\ s3.at \in Rounds
  <2>1. LET s == Lower(e, [idx |-> s2.idx, at |-> s2.at], 3) IN
          s = [idx |-> s.idx, at |-> s.at] /\ Ordered(s.idx) /\ s.at \in Rounds
    BY <1>1, <1>3, LowerOrdered
  <2>2. QED  BY <2>1, <1>3
<1>5. idx' = s3.idx /\ dec' = [dec EXCEPT ![e] = s3.at]  BY DEF RateLower, s1, s2
<1> HIDE DEF s3
<1>6. RateTypeOK'
  BY <1>4, <1>5 DEF RateInv, RateTypeOK, Ordered, Indices, Rounds, RateLower
<1>7. InOrder'
  BY <1>4, <1>5 DEF InOrder, Ordered
<1>8. lock = e /\ \A c \in Copiers : pc[c] # "copy" /\ c # e /\ pc'[c] = pc[c]
  BY DEF RateInv, LockHeld, RateLower, RateTypeOK
<1>9. LockHeld' /\ ReadsThree' /\ CopyWhole'
  <2>1. LockHeld'  BY <1>8 DEF RateInv, LockHeld, RateLower, RateTypeOK
  <2>2. ReadsThree'  BY DEF RateInv, ReadsThree, RateLower
  <2>3. CopyWhole'  BY <1>8 DEF CopyWhole
  <2>4. QED  BY <2>1, <2>2, <2>3
<1>10. QED  BY <1>6, <1>7, <1>9 DEF RateInv

LEMMA RaiseRate ==
  ASSUME RateInv, NEW e \in Enc, RateRaise(e)
  PROVE  RateInv'
<1> USE RateAssumption
<1> DEFINE s1 == Raise(e, [idx |-> idx, at |-> inc[e]], 3)
           s2 == Raise(e, s1, 2)
           s3 == Raise(e, s2, 1)
<1>1. round[e] \in 0..MaxRound /\ Ordered(idx) /\ inc[e] \in Rounds
  BY DEF RateInv, RateTypeOK, InOrder, Ordered, Indices, Rounds
<1>2. s1 = [idx |-> s1.idx, at |-> s1.at] /\ Ordered(s1.idx) /\ s1.at \in Rounds
  BY <1>1, RaiseOrdered
<1> HIDE DEF s1
<1>3. s2 = [idx |-> s2.idx, at |-> s2.at] /\ Ordered(s2.idx) /\ s2.at \in Rounds
  <2>1. LET s == Raise(e, [idx |-> s1.idx, at |-> s1.at], 2) IN
          s = [idx |-> s.idx, at |-> s.at] /\ Ordered(s.idx) /\ s.at \in Rounds
    BY <1>1, <1>2, RaiseOrdered
  <2>2. QED  BY <2>1, <1>2
<1> HIDE DEF s2
<1>4. Ordered(s3.idx) /\ s3.at \in Rounds
  <2>1. LET s == Raise(e, [idx |-> s2.idx, at |-> s2.at], 1) IN
          s = [idx |-> s.idx, at |-> s.at] /\ Ordered(s.idx) /\ s.at \in Rounds
    BY <1>1, <1>3, RaiseOrdered
  <2>2. QED  BY <2>1, <1>3
<1>5. idx' = s3.idx /\ inc' = [inc EXCEPT ![e] = s3.at]  BY DEF RateRaise, s1, s2
<1> HIDE DEF s3
<1>6. RateTypeOK'
  BY <1>4, <1>5 DEF RateInv, RateTypeOK, Ordered, Indices, Rounds, RateRaise, Release
<1>7. InOrder'
  BY <1>4, <1>5 DEF InOrder, Ordered
<1>8. lock = e /\ \A c \in Copiers : pc[c] # "copy" /\ c # e /\ pc'[c] = pc[c]
  BY DEF RateInv, LockHeld, RateRaise, Release, RateTypeOK
<1>9. LockHeld' /\ ReadsThree' /\ CopyWhole'
  <2>1. LockHeld'  BY <1>8 DEF RateInv, LockHeld, RateRaise, Release, RateTypeOK
  <2>2. ReadsThree'  BY DEF RateInv, ReadsThree, RateRaise, Release
  <2>3. CopyWhole'  BY <1>8 DEF CopyWhole
  <2>4. QED  BY <2>1, <2>2, <2>3
<1>10. QED  BY <1>6, <1>7, <1>9 DEF RateInv

(* copyrate, one read at a time.                                           *)
LEMMA CopyRate ==
  ASSUME RateInv, NEW c \in Copiers, CopyBegin(c) \/ CopyRead(c) \/ CopyEnd(c)
  PROVE  RateInv'
<1> USE RateAssumption DEF RateInv
<1>1. CASE CopyBegin(c)
  <2>1. <<>> \in Seq(0..Top \cup {Wide}) /\ Len(<<>>) = 0 /\ DOMAIN <<>> = {}  OBVIOUS
  <2>2. RateTypeOK'  BY <1>1, <2>1 DEF CopyBegin, Take, RateTypeOK
  <2>3. InOrder'  BY <1>1 DEF CopyBegin, InOrder
  <2>4. /\ copy'[c] = <<>> /\ \A d \in Copiers \ {c} : copy'[d] = copy[d]
        /\ \A x \in Enc \cup Copiers : x # c => pc[x] = "out" /\ pc'[x] = "out"
    BY <1>1 DEF CopyBegin, Take, RateTypeOK, LockHeld
  <2>5. LockHeld'  BY <1>1, <2>4 DEF CopyBegin, Take, LockHeld
  <2>6. ReadsThree'  BY <2>1, <2>4 DEF ReadsThree
  <2>7. CopyWhole'  BY <2>1, <2>4 DEF CopyWhole
  <2>8. QED  BY <2>2, <2>3, <2>5, <2>6, <2>7
<1>2. CASE CopyRead(c)
  <2> DEFINE n == Len(copy[c]) + 1
  <2>1. copy[c] \in Seq(0..Top \cup {Wide}) /\ n \in 1..3
    BY <1>2, LenProperties DEF CopyRead, RateTypeOK
  <2>2. idx[n] \in 0..Top \cup {Wide}  BY <2>1 DEF RateTypeOK
  <2>3. /\ Append(copy[c], idx[n]) \in Seq(0..Top \cup {Wide})
        /\ Len(Append(copy[c], idx[n])) = n
        /\ DOMAIN Append(copy[c], idx[n]) = 1..n
        /\ \A i \in 1..n : Append(copy[c], idx[n])[i] = IF i = n THEN idx[n] ELSE copy[c][i]
    BY <2>1, <2>2, AppendProperties, LenProperties
  <2>4. copy' = [copy EXCEPT ![c] = Append(copy[c], idx[n])]  BY <1>2 DEF CopyRead
  <2>5. RateTypeOK' /\ InOrder' /\ LockHeld'
    <3>1. copy' \in [Copiers -> Seq(0..Top \cup {Wide})]  BY <2>3, <2>4 DEF RateTypeOK
    <3>2. RateTypeOK'  BY <1>2, <3>1 DEF CopyRead, RateTypeOK
    <3>3. InOrder' /\ LockHeld'  BY <1>2 DEF CopyRead, InOrder, LockHeld
    <3>4. QED  BY <3>2, <3>3
  <2>6. ReadsThree'  BY <1>2, <2>1, <2>3, <2>4 DEF CopyRead, RateTypeOK, ReadsThree
  <2>7. CopyWhole'
    <3>1. \A i \in 1..n : copy'[c][i] = idx'[i]
      BY <1>2, <2>1, <2>3, <2>4, LenProperties DEF CopyRead, RateTypeOK, CopyWhole
    <3>2. \A d \in Copiers \ {c} : copy'[d] = copy[d]  BY <2>4 DEF RateTypeOK
    <3>3. DOMAIN copy'[c] = 1..n  BY <2>3, <2>4 DEF RateTypeOK
    <3>4. idx' = idx /\ pc' = pc /\ pc[c] = "copy"  BY <1>2 DEF CopyRead
    <3>5. ASSUME NEW d \in Copiers, pc'[d] = "copy"
          PROVE  /\ \A i \in DOMAIN copy'[d] : copy'[d][i] = idx'[i]
                 /\ \A e \in Enc : pc'[e] # "raise"
      <4>1. CASE d = c  BY <3>1, <3>3, <3>4, <4>1 DEF CopyWhole
      <4>2. CASE d # c  BY <3>2, <3>4, <3>5, <4>2 DEF CopyWhole
      <4>3. QED  BY <4>1, <4>2
    <3>6. QED  BY <3>5 DEF CopyWhole
  <2>8. QED  BY <2>5, <2>6, <2>7
<1>3. CASE CopyEnd(c)
  BY <1>3 DEF CopyEnd, Release, RateTypeOK, InOrder, LockHeld, ReadsThree, CopyWhole
<1>4. QED  BY <1>1, <1>2, <1>3

LEMMA NextRate == RateInv /\ [RateNext]_rateVars => RateInv'
<1> SUFFICES ASSUME RateInv, [RateNext]_rateVars PROVE RateInv'  OBVIOUS
<1>1. CASE UNCHANGED rateVars
  BY <1>1 DEF rateVars, RateInv, RateTypeOK, InOrder, LockHeld, ReadsThree, CopyWhole
<1>2. CASE RateNext
  BY <1>2, BeginRate, LowerRate, RaiseRate, CopyRate DEF RateNext
<1>3. QED  BY <1>1, <1>2

(* Every variable keeps its type; no index leaves its table                *)
(* (rate.c:76-111).                                                        *)
THEOREM RateTypeCorrect == RateSpec => []RateTypeOK
<1>1. RateInv => RateTypeOK  BY DEF RateInv
<1>2. QED  BY <1>1, InitRate, NextRate, PTL DEF RateSpec

(* The three rates are apart and in order, but for two that meet at Top,   *)
(* and a copy of them is of one moment, however the calls of rate_c and    *)
(* copyrate follow one another (rate.c:45-115).                            *)
THEOREM RatesSoundHolds == RateSpec => []RatesSound
<1>1. RateInv => RatesSound  BY DEF RateInv, RatesSound
<1>2. QED  BY <1>1, InitRate, NextRate, PTL DEF RateSpec

(***************************************************************************)
(* Keys: the invariant.                                                    *)
(***************************************************************************)
Ops == {"none", "link", "fail", "remove", "freekeys", "freesta", "resume"}
Hand == [op : Ops, at : Spots, then : Spots, old : Key \cup {NoKey},
         new : Key \cup {NoKey}, on : Ifaces \cup {NoKey}, ifs : SUBSET Ifaces,
         batch : SUBSET Key]
Reader == [at : {"in", "sends", "on", "called"}, on : Ifaces, room : BOOLEAN,
           key : Key \cup {NoKey}]

(* TypeOK, but that the counters are natural numbers and that the place of *)
(* a key exists: both follow from the other parts.                         *)
Typed ==
  /\ ifaces \in Setups
  /\ key \in [Key -> {Blank} \cup KeyRecord]
  /\ slot \in [Place -> Key \cup {NoKey}]
  /\ def \in [Ifaces -> [Defaults -> Key \cup {NoKey}]]
  /\ list \in [Ifaces -> SUBSET Key]
  /\ needed \in [Ifaces -> Int] /\ pending \in [Ifaces -> Nat]
  /\ armed \in [Ifaces -> BOOLEAN] /\ grace \subseteq Readers
  /\ leaving \in [Stas -> SUBSET Readers] /\ removed \subseteq Stas
  /\ sleep \in {"awake", "wowlan", "off"} /\ stale \in BOOLEAN
  /\ hand \in Hand
  /\ reader \in [Readers -> {Out} \cup Reader]

(* Where the holder of key_mtx stands once what it waits for is over.      *)
Waits == {"inc", "sync", "wait"}
Where == IF hand.at \in Waits THEN hand.then ELSE hand.at

(* It takes a key off: the place is empty, and then the list too.          *)
Taking == {"del", "disable", "clear", "settle", "free"}
Off == Taking \ {"del"}
Waiting == hand.at \in {"sync", "wait"}

(* The steps of each operation, and after which of them it waits.          *)
Course ==
  /\ Free => hand = Idle
  /\ hand.op = "none" => Free
  /\ hand.op = "link" => Where \in {"add", "point", "accel"} \cup Taking
  /\ hand.op \in {"fail", "remove"} => Where \in {"point"} \cup Taking
  /\ hand.op = "freekeys" => Where \in {"flush", "unlink", "point", "next"} \cup Taking
  /\ hand.op = "freesta" => Where \in {"point", "next"} \cup Taking
  /\ hand.op = "resume" => Where \in {"next", "accel"} /\ sleep # "awake"
  /\ hand.at = "inc" => hand.then \in {"add", "point", "clear", "accel"}
  /\ Waiting => hand.then \in {"add", "point", "clear", "accel", "disable", "next"}
  /\ hand.at \in Waits =>
       /\ hand.then = "point" => hand.op = "remove"
       /\ hand.then = "accel" => hand.op = "resume"
       /\ hand.then = "next" => hand.op = "freekeys"
       /\ hand.then = "disable" => hand.op \in {"link", "fail", "remove"}

(* The keys an operation works on are linked, and each has one part in it. *)
Works ==
  /\ hand.old # NoKey =>
       hand.old \in Linked /\ hand.old \notin hand.batch /\ hand.old # hand.new
  /\ hand.new # NoKey => hand.new \in Linked /\ hand.new \notin hand.batch
  /\ hand.batch \subseteq Linked
  /\ Where \in Taking \/ (Where = "point" /\ hand.op # "link") => hand.old # NoKey
  /\ Where \in {"flush", "unlink", "next", "accel"} => hand.old = NoKey
  /\ hand.op = "link" \/ Where = "accel" <=> hand.new # NoKey
  /\ hand.op \in {"link", "fail", "remove"} => hand.batch = {}

(* What is known of their flags, and of the station whose keys are freed.  *)
Flags ==
  /\ hand.op = "link" => ~key[hand.new].up /\ ~key[hand.new].keeps
  /\ hand.op = "remove" => ~key[hand.old].up
  /\ hand.op = "remove" /\ hand.at = "inc" /\ hand.then = "point" =>
       key[hand.old].dropped
  /\ Where = "settle" => ~key[hand.old].up
  /\ hand.op = "freesta" => \A k \in Key : k \in hand.batch \/ k = hand.old =>
        key[k].sta \in removed /\ leaving[key[k].sta] = {}

Homes == \A k \in Linked : At(k) \in Place /\ key[k].sdata \in ifaces

(* Until ieee80211_key_replace changes the place, it is as it was when the *)
(* two keys were compared (key.c:660-675).                                 *)
Swap == hand.op = "link" /\ Where \in {"add", "point"} =>
  /\ slot[At(hand.new)] = hand.old
  /\ ~Identical(key[hand.new].sdata, hand.old, key[hand.new].kind)

(* The keys that are in their place, and those that are in a list: all but *)
(* the one that is not yet put there and those already taken off.          *)
Placed(k) ==
  /\ k \in Linked
  /\ ~(hand.op = "link" /\ Where \in {"add", "point"} /\ k = hand.new)
  /\ ~(Where \in Taking /\ k = hand.old)
  /\ ~(hand.op = "freekeys" /\ k \in hand.batch)
Listed(k) ==
  /\ k \in Linked
  /\ ~(hand.op = "link" /\ Where = "add" /\ k = hand.new)
  /\ ~(Where \in Off /\ k = hand.old)
  /\ ~(hand.op = "freekeys" /\ k \in hand.batch)

ListsRight == \A s \in Ifaces : \A k \in Key :
  k \in list[s] <=> Listed(k) /\ key[k].sdata = s
SlotsRight ==
  /\ \A p \in Place : slot[p] # NoKey => Placed(slot[p]) /\ At(slot[p]) = p
  /\ \A k \in Key : Placed(k) => slot[At(k)] = k
DefsRight == \A s \in Ifaces : \A w \in Defaults : def[s][w] # NoKey =>
  Placed(def[s][w]) /\ key[def[s][w]].sdata = s /\ key[def[s][w]].sta = NoSta

(* ieee80211_free_keys takes keys off the interface it has come to.        *)
Emptied == hand.op = "freekeys" =>
  /\ hand.on \in Ifaces
  /\ Where \in {"point", "del"} => key[hand.old].sdata = hand.on

(* The interfaces that a key of s counts for; readers that may use the key *)
(* they hold, which is then linked and of a station they were in time for. *)
Covers(s) == {s} \cup Vlans(s)
Uses(r) == reader[r].at \in {"sends", "called"}
ReadersRight == \A r \in Readers :
  /\ reader[r].at = "in" => reader[r].key = NoKey
  /\ reader[r].at = "on" => reader[r].key # NoKey
  /\ Uses(r) => /\ reader[r].key \in Linked
                /\ key[reader[r].key].sta \in removed =>
                     r \in leaving[key[reader[r].key].sta]
  /\ reader[r].at = "sends" => reader[r].on \in Covers(key[reader[r].key].sdata)

(* Readers that the holder of key_mtx waits for, or will; keys that nobody *)
(* finds any more and that are freed after a grace period; who holds one   *)
(* is still waited for.                                                    *)
Awaited(r) == hand.at = "sync" \/ (hand.at = "wait" /\ r \in grace)
Doomed(k) ==
  \/ /\ hand.op \in {"link", "fail", "remove", "freekeys"}
     /\ Where \in Off /\ k = hand.old
  \/ /\ hand.op = "freekeys"
     /\ Where \in {"next"} \cup Off /\ k \in hand.batch
HoldersOut == \A r \in Active : Doomed(reader[r].key) =>
   Awaited(r) /\ hand.then \in {"disable", "next"}

(* A key counts for the tailroom if software encrypts with it, but for the *)
(* steps in which the count is ahead of the flags or behind them.          *)
Needs(k) == ~key[k].up \/ key[k].keeps
Extra(k) ==
  \/ Where = "clear" /\ hand.at # "inc" /\ k = hand.old
  \/ hand.op = "resume" /\ Where = "accel" /\ hand.at # "inc" /\ k = hand.new
Missing(k) ==
  \/ hand.at = "inc" /\ hand.then \in {"add", "accel"} /\ k = hand.new
  \/ hand.at = "inc" /\ hand.then \in {"point", "clear"} /\ k = hand.old
  \/ hand.at = "free" /\ k = hand.old
  \/ hand.op = "resume" /\ k \in hand.batch
InCount(k) == k \in Linked /\ (Extra(k) \/ (Needs(k) /\ ~Missing(k)))
Counted(s) == {k \in Key : InCount(k) /\ key[k].sdata = s}
Tally(s) == Cardinality(Counted(s))

(* What an interface counts without what it counts for its AP, which is    *)
(* its keys and its pending decrements (update_vlan_tailroom_need_count).  *)
ApOf(s) == CHOOSE a \in Aps(s) : TRUE
Own(s) == needed[s] - (IF Aps(s) = {} THEN 0 ELSE needed[ApOf(s)])
Balanced == \A s \in Ifaces :
  /\ Own(s) >= Tally(s) + pending[s]
  /\ ~stale => Own(s) = Tally(s) + pending[s]
Unused == \A s \in Ifaces \ ifaces : Own(s) = 0 /\ pending[s] = 0

(* Nobody sends while the host sleeps.  Who is in, and not waited for, has *)
(* the room that the count asks for now, and the room that any key it may  *)
(* yet find needs (the two races of key.c:84-99).                          *)
Asleep == sleep # "awake" => Active = {}
RoomCounted == \A r \in Active :
  needed[reader[r].on] > 0 /\ ~Awaited(r) => reader[r].room
RoomPlaced == \A k \in Key : Placed(k) /\ Needs(k) /\ ~key[k].dropped =>
   \A r \in Active : reader[r].on \in Covers(key[k].sdata) => reader[r].room

KInv == /\ Typed /\ Course /\ Works /\ Flags /\ Homes /\ Swap
        /\ ListsRight /\ SlotsRight /\ DefsRight /\ Emptied
        /\ ReadersRight /\ HoldersOut
        /\ Balanced /\ Unused
        /\ Asleep /\ RoomCounted /\ RoomPlaced /\ RoomWhenEncrypting

USE DEF cnts, ptrs, rest

(***************************************************************************)
(* Keys: what each step makes of hand.                                     *)
(***************************************************************************)
(* The interfaces of a host are among those of all hosts.                  *)
LEMMA IfacesOf ==
  ASSUME Typed PROVE ifaces \subseteq Ifaces
BY DEF Typed, Ifaces

(* hand after a step, field by field.                                      *)
HandIs(op, at, then, old, new, batch) ==
  /\ hand' \in Hand
  /\ hand'.op = op /\ hand'.at = at /\ hand'.then = then
  /\ hand'.old = old /\ hand'.new = new /\ hand'.batch = batch

(* What hand is when an operation takes key_mtx.                           *)
LEMMA StartIs ==
  ASSUME NEW op \in Ops, NEW at \in Spots, NEW then \in Spots, NEW old \in Key \cup {NoKey},
         NEW new \in Key \cup {NoKey}, NEW on \in Ifaces \cup {NoKey}, NEW ifs \in SUBSET Ifaces,
         NEW batch \in SUBSET Key,
         hand' = [op |-> op, at |-> at, then |-> then, old |-> old, new |-> new, on |-> on,
                  ifs |-> ifs, batch |-> batch]
  PROVE  HandIs(op, at, then, old, new, batch) /\ hand'.on = on
BY DEF HandIs, Hand

(* ieee80211_key_link begins: a key that is not identical to the one in    *)
(* its place is allocated, and the count is raised next (key.c:671-681).   *)
LEMMA LinkMoves ==
  ASSUME NEW s \in Ifaces, NEW a \in Stas \cup {NoSta}, NEW kind,
         slot[PlaceOf(s, a, kind)] \in Key \cup {NoKey}, Link(s, a, kind)
  PROVE  \E k \in Key :
    /\ Free /\ pending[s] < MaxPending /\ key[k] = Blank
    /\ ~Identical(s, slot[PlaceOf(s, a, kind)], kind)
    /\ key' = [key EXCEPT ![k] = Alloc(s, a, kind)]
    /\ HandIs("link", "inc", "add", slot[PlaceOf(s, a, kind)], k, {})
    /\ UNCHANGED <<cnts, ptrs, grace, rest>>
<1> DEFINE old == slot[PlaceOf(s, a, kind)]
<1>1. PICK k \in Key :
          /\ key[k] = Blank /\ \A i \in 1..k - 1 : key[i] # Blank
          /\ key' = [key EXCEPT ![k] = Alloc(s, a, kind)]
          /\ hand' = [Idle EXCEPT !.op = "link", !.at = "inc", !.then = "add",
                                  !.old = old, !.new = k]
  BY DEF Link
<1>2. hand' = [op |-> "link", at |-> "inc", then |-> "add", old |-> old, new |-> k,
               on |-> NoKey, ifs |-> {}, batch |-> {}]
  BY <1>1 DEF Idle
<1>3. HandIs("link", "inc", "add", old, k, {})
  <2>1. "link" \in Ops /\ "inc" \in Spots /\ "add" \in Spots  BY DEF Ops, Spots
  <2>2. old \in Key \cup {NoKey}  OBVIOUS
  <2> HIDE DEF old
  <2>3. QED BY <1>2, <2>1, <2>2, StartIs
<1>4. QED BY <1>1, <1>3 DEF Link

(* ieee80211_remove_key begins with a key of a list (key.c:1092-1109).     *)
LEMMA IterRemoveMoves ==
  ASSUME Typed, IterRemove
  PROVE  \E s \in Ifaces : \E k \in list[s] :
    /\ Free /\ k \in Key
    /\ key' = [key EXCEPT ![k].up = FALSE, ![k].dropped = @ \/ key[k].up]
    /\ HandIs("remove", IF key[k].up /\ ~key[k].keeps THEN "inc" ELSE "point", "point",
              k, NoKey, {})
    /\ UNCHANGED <<cnts, ptrs, grace, rest>>
<1>0. PICK s \in Ifaces : \E k \in list[s] :
        /\ Free
        /\ key' = [key EXCEPT ![k].up = FALSE, ![k].dropped = @ \/ key[k].up]
        /\ hand' = [Idle EXCEPT !.op = "remove", !.then = "point", !.old = k,
                       !.at = IF key[k].up /\ ~key[k].keeps THEN "inc" ELSE "point"]
        /\ UNCHANGED <<cnts, ptrs, grace, rest>>
  BY DEF IterRemove, RemoveKey
<1>1. PICK k \in list[s] :
        /\ Free
        /\ key' = [key EXCEPT ![k].up = FALSE, ![k].dropped = @ \/ key[k].up]
        /\ hand' = [Idle EXCEPT !.op = "remove", !.then = "point", !.old = k,
                       !.at = IF key[k].up /\ ~key[k].keeps THEN "inc" ELSE "point"]
        /\ UNCHANGED <<cnts, ptrs, grace, rest>>
  BY <1>0
<1>2. k \in Key  BY DEF Typed
<1> DEFINE at == IF key[k].up /\ ~key[k].keeps THEN "inc" ELSE "point"
<1>3. hand' = [op |-> "remove", at |-> at, then |-> "point", old |-> k, new |-> NoKey,
               on |-> NoKey, ifs |-> {}, batch |-> {}]
  BY <1>1 DEF Idle
<1>4. "remove" \in Ops /\ at \in Spots /\ "point" \in Spots  BY DEF Ops, Spots
<1> HIDE DEF at
<1>5. HandIs("remove", at, "point", k, NoKey, {})  BY <1>2, <1>3, <1>4, StartIs
<1>6. QED  BY <1>1, <1>2, <1>5 DEF at

(* ieee80211_free_keys begins with the interface it was called for         *)
(* (key.c:873-877).                                                        *)
LEMMA FreeKeysMoves ==
  ASSUME Typed, FreeKeys
  PROVE  \E s \in ifaces :
    /\ Free /\ sleep = "awake" /\ armed' = [armed EXCEPT ![s] = FALSE]
    /\ HandIs("freekeys", "flush", "idle", NoKey, NoKey, {}) /\ hand'.on = s
    /\ UNCHANGED <<key, ptrs, needed, pending, grace, rest>>
<1>1. PICK s \in ifaces :
        /\ Free /\ sleep = "awake" /\ armed' = [armed EXCEPT ![s] = FALSE]
        /\ hand' = [Idle EXCEPT !.op = "freekeys", !.at = "flush", !.on = s, !.ifs = Vlans(s)]
        /\ UNCHANGED <<key, ptrs, needed, pending, grace, rest>>
  BY DEF FreeKeys
<1>2. hand' = [op |-> "freekeys", at |-> "flush", then |-> "idle", old |-> NoKey,
               new |-> NoKey, on |-> s, ifs |-> Vlans(s), batch |-> {}]
  BY <1>1 DEF Idle
<1>3. "freekeys" \in Ops /\ "flush" \in Spots /\ "idle" \in Spots
  BY DEF Ops, Spots
<1>4. s \in Ifaces /\ Vlans(s) \in SUBSET Ifaces  BY IfacesOf DEF Vlans
<1>5. HandIs("freekeys", "flush", "idle", NoKey, NoKey, {}) /\ hand'.on = s
  BY <1>2, <1>3, <1>4, StartIs
<1>6. QED  BY <1>1, <1>5

(* ieee80211_free_sta_keys begins with the keys in the places of a removed *)
(* station (key.c:918-936).                                                *)
LEMMA FreeStaKeysMoves ==
  ASSUME Typed, FreeStaKeys
  PROVE  \E a \in removed :
    LET keys == {slot[p] : p \in {q \in Place : q.sta = a}} \ {NoKey} IN
    /\ Free /\ leaving[a] = {} /\ keys # {}
    /\ \A k \in keys : pending[key[k].sdata] < MaxPending
    /\ HandIs("freesta", "next", "idle", NoKey, NoKey, keys)
    /\ UNCHANGED <<key, ptrs, cnts, grace, rest>>
<1>1. PICK a \in removed :
    LET keys == {slot[p] : p \in {q \in Place : q.sta = a}} \ {NoKey} IN
        /\ Free /\ leaving[a] = {} /\ keys # {}
        /\ \A k \in keys : pending[key[k].sdata] < MaxPending
        /\ hand' = [Idle EXCEPT !.op = "freesta", !.at = "next", !.batch = keys]
        /\ UNCHANGED <<key, ptrs, cnts, grace, rest>>
  BY DEF FreeStaKeys
<1> DEFINE keys == {slot[p] : p \in {q \in Place : q.sta = a}} \ {NoKey}
<1>2. hand' = [op |-> "freesta", at |-> "next", then |-> "idle", old |-> NoKey,
               new |-> NoKey, on |-> NoKey, ifs |-> {}, batch |-> keys]
  BY <1>1 DEF Idle
<1>3. "freesta" \in Ops /\ "next" \in Spots /\ "idle" \in Spots  BY DEF Ops, Spots
<1>4. keys \in SUBSET Key  BY DEF Typed
<1> HIDE DEF keys
<1>5. HandIs("freesta", "next", "idle", NoKey, NoKey, keys)
  BY <1>2, <1>3, <1>4, StartIs
<1>6. QED  BY <1>1, <1>5 DEF keys

(* ieee80211_enable_keys goes through the keys of the lists (key.c:738).   *)
LEMMA ResumeMoves ==
  ASSUME Typed, Resume
  PROVE  HandIs("resume", "next", "idle", NoKey, NoKey, UNION {list[s] : s \in ifaces})
<1> DEFINE keys == UNION {list[s] : s \in ifaces}
<1>1. hand' = [Idle EXCEPT !.op = "resume", !.at = "next", !.batch = keys]
  BY DEF Resume
<1>2. hand' = [op |-> "resume", at |-> "next", then |-> "idle", old |-> NoKey,
               new |-> NoKey, on |-> NoKey, ifs |-> {}, batch |-> keys]
  BY <1>1 DEF Idle
<1>3. "resume" \in Ops /\ "next" \in Spots /\ "idle" \in Spots  BY DEF Ops, Spots
<1>4. keys \in SUBSET Key  BY IfacesOf DEF Typed
<1> HIDE DEF keys
<1>5. HandIs("resume", "next", "idle", NoKey, NoKey, keys)
  BY <1>2, <1>3, <1>4, StartIs
<1>6. QED  BY <1>5 DEF keys

(* key_mtx is given back.                                                  *)
LEMMA IdleIs ==
  ASSUME hand' = Idle
  PROVE  HandIs("none", "idle", "idle", NoKey, NoKey, {})
<1>1. "none" \in Ops /\ "idle" \in Spots  BY DEF Ops, Spots
<1>2. QED  BY <1>1, StartIs DEF Idle

(* The holder goes on, to a place ...                                      *)
LEMMA GoMoves ==
  ASSUME hand \in Hand, NEW at \in Spots, Go(at)
  PROVE  HandIs(hand.op, at, hand.then, hand.old, hand.new, hand.batch) /\ hand'.on = hand.on
BY DEF Go, HandIs, Hand

(* ... or to a grace period before it.                                     *)
LEMMA GraceMoves ==
  ASSUME hand \in Hand, NEW then \in Spots, Grace(then)
  PROVE  HandIs(hand.op, "sync", then, hand.old, hand.new, hand.batch) /\ hand'.on = hand.on
BY DEF Grace, HandIs, Hand, Spots

(* Off the list, a key is destroyed, after a grace period unless the       *)
(* operation has another way to wait (key.c:592-605, 882, 926).            *)
LEMMA DelMoves ==
  ASSUME hand \in Hand, DelFromList, hand.old \in Key
  PROVE  /\ hand.op = "freekeys" =>
              HandIs("freekeys", "unlink", hand.then, NoKey, hand.new, hand.batch \cup {hand.old})
         /\ hand.op = "freesta" =>
              HandIs("freesta", "disable", hand.then, hand.old, hand.new, hand.batch)
         /\ hand.op \notin {"freekeys", "freesta"} =>
              HandIs(hand.op, "sync", "disable", hand.old, hand.new, hand.batch)
         /\ hand'.on = hand.on
<1>1. CASE hand.op = "freekeys"
  <2>1. hand' = [hand EXCEPT !.at = "unlink", !.batch = @ \cup {hand.old}, !.old = NoKey]
    BY <1>1 DEF DelFromList
  <2>2. QED  BY <1>1, <2>1 DEF HandIs, Hand, Spots
<1>2. CASE hand.op = "freesta"
  <2>1. Go("disable")  BY <1>2 DEF DelFromList
  <2>2. QED  BY <1>2, <2>1, GoMoves DEF Spots
<1>3. CASE hand.op \notin {"freekeys", "freesta"}
  <2>1. Grace("disable")  BY <1>3 DEF DelFromList
  <2>2. QED  BY <1>3, <2>1, GraceMoves DEF Spots
<1>4. QED  BY <1>1, <1>2, <1>3

(* A key the hardware has is counted first, unless the host kept room for  *)
(* it (key.c:239-241).                                                     *)
LEMMA DisableMoves ==
  ASSUME hand \in Hand, Disable
  PROVE  /\ HandIs(hand.op, IF ~key[hand.old].up THEN "settle"
                            ELSE IF key[hand.old].keeps THEN "clear" ELSE "inc",
                   "clear", hand.old, hand.new, hand.batch)
         /\ hand'.on = hand.on
<1> DEFINE at == IF ~key[hand.old].up THEN "settle" ELSE IF key[hand.old].keeps THEN "clear" ELSE "inc"
<1>1. hand' = [hand EXCEPT !.then = "clear", !.at = at]  BY DEF Disable
<1>2. at \in Spots  BY DEF Spots
<1> HIDE DEF at
<1>3. /\ HandIs(hand.op, at, "clear", hand.old, hand.new, hand.batch)
      /\ hand'.on = hand.on
  BY <1>1, <1>2 DEF HandIs, Hand, Spots
<1>4. QED  BY <1>3 DEF at

(* After the key is freed, a link uploads the new one, the loops go on,    *)
(* and the others end.                                                     *)
LEMMA FreeKeyMoves ==
  ASSUME hand \in Hand, FreeKey
  PROVE  /\ hand.op \in {"fail", "remove"} => hand' = Idle
         /\ hand.op \notin {"fail", "remove"} =>
              HandIs(hand.op, IF hand.op = "link" THEN "accel" ELSE "next", hand.then, NoKey,
                     hand.new, hand.batch) /\ hand'.on = hand.on
<1>1. CASE hand.op \in {"fail", "remove"}  BY <1>1 DEF FreeKey
<1>2. CASE hand.op \notin {"fail", "remove"}
  <2> DEFINE at == IF hand.op = "link" THEN "accel" ELSE "next"
  <2>1. hand' = [hand EXCEPT !.old = NoKey, !.at = at]  BY <1>2 DEF FreeKey
  <2>2. at \in Spots  BY DEF Spots
  <2> HIDE DEF at
  <2>3. /\ HandIs(hand.op, at, hand.then, NoKey, hand.new, hand.batch)
        /\ hand'.on = hand.on
    BY <2>1, <2>2 DEF HandIs, Hand
  <2>4. QED  BY <1>2, <2>3 DEF at
<1>3. QED  BY <1>1, <1>2

(* ieee80211_free_keys_iface comes to a key of the list (key.c:854) ...    *)
LEMMA UnlinkKeyMoves ==
  ASSUME Typed, UnlinkKey, hand.on \in Ifaces
  PROVE  \E k \in list[hand.on] :
           /\ k \in Key /\ HandIs(hand.op, "point", hand.then, k, hand.new, hand.batch)
           /\ hand'.on = hand.on
<1>1. PICK k \in list[hand.on] : hand' = [hand EXCEPT !.at = "point", !.old = k]
  BY DEF UnlinkKey
<1>2. k \in Key /\ hand \in Hand  BY DEF Typed
<1>3. /\ HandIs(hand.op, "point", hand.then, k, hand.new, hand.batch)
      /\ hand'.on = hand.on
  BY <1>1, <1>2 DEF HandIs, Hand, Spots
<1>4. QED  BY <1>2, <1>3

(* ... and ieee80211_free_keys, when there is none, to a VLAN (key.c:881). *)
LEMMA UnlinkNextMoves ==
  ASSUME hand \in Hand, UnlinkNext
  PROVE  /\ HandIs(hand.op, "flush", hand.then, hand.old, hand.new, hand.batch)
         /\ hand'.on \in Ifaces
<1>1. PICK v \in hand.ifs : hand' = [hand EXCEPT !.at = "flush", !.on = v, !.ifs = @ \ {v}]
  BY DEF UnlinkNext
<1>2. v \in Ifaces  BY DEF Hand
<1>3. QED  BY <1>1, <1>2 DEF HandIs, Hand, Spots

(* The three loops over keys come to their next key.                       *)
LEMMA NextKeyMoves ==
  ASSUME hand \in Hand, NextKey, hand.op \in {"freekeys", "freesta", "resume"}
  PROVE  \E k \in hand.batch :
    /\ k \in Key
    /\ hand.op = "freekeys" =>
         HandIs("freekeys", "disable", hand.then, k, hand.new, hand.batch \ {k})
    /\ hand.op = "freesta" =>
         HandIs("freesta", "point", hand.then, k, hand.new, hand.batch \ {k})
    /\ hand.op = "resume" =>
         HandIs("resume", "inc", "accel", hand.old, k, hand.batch \ {k})
    /\ hand'.on = hand.on
<1>1. PICK k \in hand.batch :
        LET rec == [hand EXCEPT !.batch = @ \ {k}]
        IN hand' = CASE hand.op = "freekeys" -> [rec EXCEPT !.old = k, !.at = "disable"]
                     [] hand.op = "freesta" -> [rec EXCEPT !.old = k, !.at = "point"]
                     [] hand.op = "resume" ->
                          [rec EXCEPT !.new = k, !.at = "inc", !.then = "accel"]
  BY DEF NextKey
<1>2. k \in Key  BY DEF Hand
<1> DEFINE rec == [hand EXCEPT !.batch = @ \ {k}]
<1>3. CASE hand.op = "freekeys"
  <2>1. hand' = [rec EXCEPT !.old = k, !.at = "disable"]  BY <1>1, <1>3
  <2>2. QED  BY <1>2, <1>3, <2>1 DEF HandIs, Hand, Spots
<1>4. CASE hand.op = "freesta"
  <2>1. hand' = [rec EXCEPT !.old = k, !.at = "point"]  BY <1>1, <1>4
  <2>2. QED  BY <1>2, <1>4, <2>1 DEF HandIs, Hand, Spots
<1>5. CASE hand.op = "resume"
  <2>1. hand' = [rec EXCEPT !.new = k, !.at = "inc", !.then = "accel"]
    BY <1>1, <1>5
  <2>2. QED  BY <1>2, <1>5, <2>1 DEF HandIs, Hand, Spots
<1>6. QED  BY <1>2, <1>3, <1>4, <1>5

(* After an upload a link ends, and a resume goes on.                      *)
LEMMA UploadedMoves ==
  ASSUME hand \in Hand, Uploaded
  PROVE  /\ hand.op = "link" => hand' = Idle
         /\ hand.op # "link" =>
              HandIs(hand.op, "next", hand.then, hand.old, NoKey, hand.batch)
         /\ hand.op # "link" => hand'.on = hand.on
<1>1. CASE hand.op = "link"  BY <1>1 DEF Uploaded
<1>2. CASE hand.op # "link"
  <2>1. hand' = [hand EXCEPT !.new = NoKey, !.at = "next"]  BY <1>2 DEF Uploaded
  <2>2. QED  BY <1>2, <2>1 DEF HandIs, Hand, Spots
<1>3. QED  BY <1>1, <1>2

(* A link whose key the driver and mac80211 refuse frees it                *)
(* (key.c:690-691).                                                        *)
LEMMA RefusedMoves ==
  ASSUME hand \in Hand, hand.new \in Key,
         hand' = [hand EXCEPT !.op = "fail", !.at = "point", !.old = hand.new, !.new = NoKey]
  PROVE  HandIs("fail", "point", hand.then, hand.new, NoKey, hand.batch)
BY DEF HandIs, Hand, Spots, Ops

(* Steps that leave hand alone and are not of its holder.                  *)
Quiet == \/ SetDefault \/ (\E s \in Ifaces : DelayedDec(s)) \/ Suspend \/ Taint
         \/ StaLeaves \/ StaReturns \/ Begin \/ Select \/ Visit \/ End \/ UNCHANGED vars

(* These steps take key_mtx and give it back at once, or do not take it.   *)
LEMMA QuietHand == ASSUME Quiet PROVE hand' = hand
BY DEF Quiet, SetDefault, DelayedDec, Suspend, Taint, StaLeaves, StaReturns, Begin,
    Select, Visit, End, vars

(* A key installed by the user or by the device: its place exists, and it  *)
(* is not of a station that has been removed.                              *)
LEMMA InstallLinks ==
  ASSUME Typed, Install \/ RekeyAdd
  PROVE  \E s \in ifaces, a \in Stas \cup {NoSta}, kind \in AnyKind :
    /\ Link(s, a, kind) /\ s \in Ifaces /\ (a # NoSta => s = Home[a] /\ a \notin removed)
    /\ PlaceOf(s, a, kind) \in Place /\ slot[PlaceOf(s, a, kind)] \in Key \cup {NoKey}
<1>1. \E s \in ifaces : \E kind \in Kinds[s], a \in Stas \cup {NoSta} :
        Link(s, a, kind) /\ (a # NoSta => s = Home[a] /\ a \notin removed)
  BY DEF Install, RekeyAdd
<1>2. PICK s \in ifaces : \E kind \in Kinds[s], a \in Stas \cup {NoSta} :
        Link(s, a, kind) /\ (a # NoSta => s = Home[a] /\ a \notin removed)
  BY <1>1
<1>3. PICK kind \in Kinds[s], a \in Stas \cup {NoSta} :
        Link(s, a, kind) /\ (a # NoSta => s = Home[a] /\ a \notin removed)
  BY <1>2
<1>4. s \in Ifaces  BY IfacesOf
<1>5. kind \in AnyKind  BY <1>4 DEF AnyKind
<1>6. PlaceOf(s, a, kind) \in Place  BY <1>3, <1>4, <1>5 DEF Place
<1>7. QED  BY <1>3, <1>4, <1>5, <1>6 DEF Typed

(* Which operations can stand at a place.                                  *)
LEMMA Stands ==
  ASSUME hand \in Hand, Course
  PROVE  /\ hand.at = "add" => hand.op = "link"
         /\ hand.at \in {"point"} \cup Taking =>
              hand.op \in {"link", "fail", "remove", "freekeys", "freesta"}
         /\ hand.at \in {"flush", "unlink"} => hand.op = "freekeys"
         /\ hand.at = "next" => hand.op \in {"freekeys", "freesta", "resume"}
         /\ hand.at = "accel" => hand.op \in {"link", "resume"}
         /\ hand.at \in Waits /\ hand.then = "add" => hand.op = "link"
         /\ hand.at \in Waits /\ hand.then = "clear" =>
              hand.op \in {"link", "fail", "remove", "freekeys", "freesta"}
         /\ hand.at \in Waits => hand.op # "none"
BY DEF Course, Where, Waits, Waiting, Taking, Free, Hand, Ops, Spots, Idle

(* Every step leads an operation to one of its own places.                 *)
LEMMA CourseStep ==
  ASSUME KInv, [Next]_vars
  PROVE  hand' \in Hand /\ Course'
<1>h. Typed /\ hand \in Hand /\ Course /\ Works /\ hand.old \in Key \cup {NoKey} /\ hand.new \in Key \cup {NoKey}
  BY DEF KInv, Typed, Hand
<1> USE DEF Free, Where, Waits, Waiting, Taking, Off, HandIs
<1>1. CASE Install \/ RekeyAdd
  <2>1. PICK s \in ifaces, a \in Stas \cup {NoSta}, kind \in AnyKind :
    /\ Link(s, a, kind) /\ s \in Ifaces /\ (a # NoSta => s = Home[a] /\ a \notin removed)
    /\ PlaceOf(s, a, kind) \in Place /\ slot[PlaceOf(s, a, kind)] \in Key \cup {NoKey}
    BY <1>1, <1>h, InstallLinks
  <2>2. QED BY <2>1, LinkMoves DEF Course
<1>4. CASE IterRemove BY <1>h, <1>4, IterRemoveMoves DEF Course
<1>5. CASE FreeKeys BY <1>h, <1>5, FreeKeysMoves DEF Course
<1>6. CASE FreeStaKeys BY <1>h, <1>6, FreeStaKeysMoves DEF Course
<1>7. CASE Resume BY <1>h, <1>7, ResumeMoves DEF Course, Resume
<1>9. CASE Increment
  <2>1. Go("sync") \/ Go(hand.then) BY <1>9 DEF Increment
  <2>2. QED BY <1>h, <1>9, <2>1, GoMoves DEF Course, Increment, Hand, Spots
<1>10. CASE Synchronize BY <1>h, <1>10, GoMoves DEF Course, Synchronize, Spots
<1>11. CASE Synchronized
  BY <1>h, <1>11, GoMoves DEF Course, Synchronized, Hand, Spots
<1>12. CASE AddToList BY <1>h, <1>12, GoMoves DEF Course, AddToList, Spots
<1>13. CASE Point
  <2>1. Go("accel") \/ Go("del") BY <1>13 DEF Point
  <2>2. QED BY <1>h, <1>13, <2>1, GoMoves DEF Course, Works, Point, Spots
<1>14. CASE DelFromList
  <2>1. hand.at = "del" /\ hand.old \in Key /\ sleep' = sleep
    BY <1>h, <1>14 DEF DelFromList, Works
  <2>o. hand.op \in {"link", "fail", "remove", "freekeys", "freesta"}
    BY <1>h, <2>1, Stands
  <2>2. CASE hand.op = "freekeys"  BY <1>h, <1>14, <2>1, <2>2, DelMoves DEF Course
  <2>3. CASE hand.op = "freesta"  BY <1>h, <1>14, <2>1, <2>3, DelMoves DEF Course
  <2>4. CASE hand.op \notin {"freekeys", "freesta"}
    BY <1>h, <1>14, <2>1, <2>o, <2>4, DelMoves DEF Course
  <2>5. QED  BY <2>2, <2>3, <2>4
<1>15. CASE Disable BY <1>h, <1>15, DisableMoves DEF Course, Disable
<1>16. CASE ClearUploaded BY <1>h, <1>16, GoMoves DEF Course, ClearUploaded, Spots
<1>17. CASE Settle BY <1>h, <1>17, GoMoves DEF Course, Settle, Spots
<1>18. CASE FreeKey BY <1>h, <1>18, FreeKeyMoves, IdleIs DEF Course, FreeKey
<1>19. CASE Flush BY <1>h, <1>19, GoMoves DEF Course, Flush, Spots
<1>20. CASE UnlinkKey
  <2>1. hand.at = "unlink" /\ hand.op = "freekeys" /\ sleep' = sleep
    BY <1>h, <1>20 DEF UnlinkKey, Course, Hand, Ops
  <2>2. hand.on \in Ifaces  BY <2>1 DEF KInv, Emptied
  <2>3. QED  BY <1>h, <1>20, <2>1, <2>2, UnlinkKeyMoves DEF Course
<1>21. CASE UnlinkNext BY <1>h, <1>21, UnlinkNextMoves DEF Course, UnlinkNext
<1>22. CASE UnlinkEnd
  <2>1. hand.at = "unlink" /\ hand.op = "freekeys" /\ sleep' = sleep
    BY <1>h, <1>22 DEF UnlinkEnd, Course, Hand, Ops
  <2>2. CASE Grace("next")  BY <1>h, <2>1, <2>2, GraceMoves DEF Course, Spots
  <2>3. CASE Go("next")  BY <1>h, <2>1, <2>3, GoMoves DEF Course, Spots
  <2>4. QED  BY <1>22, <2>2, <2>3 DEF UnlinkEnd
<1>23. CASE NextKey
  <2>1. /\ hand.at = "next" /\ hand.op \in {"freekeys", "freesta", "resume"}
        /\ sleep' = sleep
    BY <1>h, <1>23 DEF NextKey, Course, Hand, Ops
  <2>2. CASE hand.op = "freekeys"
    BY <1>h, <1>23, <2>1, <2>2, NextKeyMoves DEF Course
  <2>3. CASE hand.op = "freesta"
    BY <1>h, <1>23, <2>1, <2>3, NextKeyMoves DEF Course
  <2>4. CASE hand.op = "resume"
    BY <1>h, <1>23, <2>1, <2>4, NextKeyMoves DEF Course
  <2>5. QED  BY <2>1, <2>2, <2>3, <2>4
<1>24. CASE LastKey BY <1>h, <1>24, IdleIs DEF Course, LastKey
<1>25. CASE LinkEnds BY <1>h, <1>25, UploadedMoves, IdleIs DEF Course, LinkEnds
<1>26. CASE Accelerate
  BY <1>h, <1>26, UploadedMoves, IdleIs DEF Course, Accelerate, Uploading
<1>27. CASE NotAccelerated
  <2>1. hand.at = "accel" /\ hand.new \in Key /\ sleep' = sleep
    BY <1>h, <1>27 DEF NotAccelerated, Uploading, Course, Works
  <2>2. CASE Uploaded BY <1>h, <2>1, <2>2, UploadedMoves, IdleIs DEF Course
  <2>3. CASE hand' = [hand EXCEPT !.op = "fail", !.at = "point", !.old = hand.new, !.new = NoKey]
    BY <1>h, <2>1, <2>3, RefusedMoves DEF Course
  <2>4. QED BY <1>27, <2>2, <2>3 DEF NotAccelerated
<1>28. CASE Quiet
  <2>1. hand' = hand BY <1>28, QuietHand
  <2>2. sleep' = sleep \/ (Free /\ Suspend)
    BY <1>28
      DEF Quiet, SetDefault, DelayedDec, Suspend, Taint, StaLeaves, StaReturns,
          Begin, Select, Visit, End, vars
  <2>3. QED BY <1>h, <2>1, <2>2 DEF Course, Idle
<1>37. QED
  BY <1>1, <1>4, <1>5, <1>6, <1>7, <1>9, <1>10, <1>11, <1>12, <1>13, <1>14, <1>15,
      <1>16, <1>17, <1>18, <1>19, <1>20, <1>21, <1>22, <1>23, <1>24, <1>25, <1>26,
      <1>27, <1>28
    DEF Next, Operation, Step, Others, Quiet

(***************************************************************************)
(* Keys: what each step makes of the keys.                                 *)
(***************************************************************************)
KeyTable == [Key -> {Blank} \cup KeyRecord]

(* No key comes or goes, and each keeps what it was made with.             *)
SameKeys == \A k \in Key :
  /\ k \in Linked' <=> k \in Linked
  /\ k \in Linked => key'[k].kind = key[k].kind /\ key'[k].sdata = key[k].sdata
                     /\ key'[k].sta = key[k].sta

(* One key's flags change.                                                 *)
KeyIs(k, up, keeps, dropped) ==
  /\ key' \in KeyTable /\ SameKeys
  /\ key'[k].up = up /\ key'[k].keeps = keeps /\ key'[k].dropped = dropped
  /\ \A j \in Key \ {k} : key'[j] = key[j]

(* A linked key is a record ...                                            *)
LEMMA LinkedRecord ==
  ASSUME key \in KeyTable, NEW k \in Linked
  PROVE  k \in Key /\ key[k] \in KeyRecord
BY DEF Linked, KeyTable

(* ... and a key that is a record is linked.                               *)
LEMMA RecordLinked ==
  ASSUME NEW r \in KeyRecord PROVE r # Blank
BY DEF KeyRecord, Blank

(* A step that changes the flags of one key leaves its kind, interface and *)
(* station, and all other keys.                                            *)
LEMMA OneKey ==
  ASSUME key \in KeyTable, NEW k \in Linked, NEW r \in KeyRecord,
         r.kind = key[k].kind, r.sdata = key[k].sdata, r.sta = key[k].sta,
         key' = [key EXCEPT ![k] = r]
  PROVE  KeyIs(k, r.up, r.keeps, r.dropped)
<1>1. k \in Key /\ key[k] \in KeyRecord  BY LinkedRecord
<1>2. r # Blank  BY RecordLinked
<1>3. key' \in KeyTable /\ key'[k] = r /\ \A j \in Key \ {k} : key'[j] = key[j]
  BY <1>1 DEF KeyTable
<1>4. SameKeys  BY <1>1, <1>2, <1>3 DEF SameKeys, Linked
<1>5. QED  BY <1>3, <1>4 DEF KeyIs

(* The four steps that change flags: ieee80211_remove_key clears the       *)
(* uploaded flag (key.c:1105) ...                                          *)
LEMMA IterRemoveKey ==
  ASSUME key \in KeyTable, NEW k \in Linked,
         key' = [key EXCEPT ![k].up = FALSE, ![k].dropped = @ \/ key[k].up]
  PROVE  KeyIs(k, FALSE, key[k].keeps, key[k].dropped \/ key[k].up)
<1>1. k \in Key /\ key[k] \in KeyRecord  BY LinkedRecord
<1> DEFINE r == [key[k] EXCEPT !.up = FALSE, !.dropped = @ \/ key[k].up]
<1>2. /\ r \in KeyRecord /\ r.kind = key[k].kind /\ r.sdata = key[k].sdata
      /\ r.sta = key[k].sta
      /\ r.up = FALSE /\ r.keeps = key[k].keeps /\ r.dropped = (key[k].dropped \/ key[k].up)
  BY <1>1 DEF KeyRecord
<1>3. key' = [key EXCEPT ![k] = r]  BY <1>1 DEF KeyTable
<1> HIDE DEF r
<1>4. QED  BY <1>2, <1>3, OneKey

(* ... ieee80211_key_disable_hw_accel clears it too (key.c:253) ...        *)
LEMMA ClearKey ==
  ASSUME key \in KeyTable, NEW k \in Linked, key' = [key EXCEPT ![k].up = FALSE]
  PROVE  KeyIs(k, FALSE, key[k].keeps, key[k].dropped)
<1>1. k \in Key /\ key[k] \in KeyRecord  BY LinkedRecord
<1> DEFINE r == [key[k] EXCEPT !.up = FALSE]
<1>2. /\ r \in KeyRecord /\ r.kind = key[k].kind /\ r.sdata = key[k].sdata
      /\ r.sta = key[k].sta
      /\ r.up = FALSE /\ r.keeps = key[k].keeps /\ r.dropped = key[k].dropped
  BY <1>1 DEF KeyRecord
<1>3. key' = [key EXCEPT ![k] = r]  BY <1>1 DEF KeyTable
<1> HIDE DEF r
<1>4. QED  BY <1>2, <1>3, OneKey

(* ... ieee80211_key_enable_hw_accel sets it (key.c:179) ...               *)
LEMMA AcceleratedKey ==
  ASSUME key \in KeyTable, NEW k \in Linked, NEW keeps \in BOOLEAN,
         key' = [key EXCEPT ![k].up = TRUE, ![k].keeps = keeps]
  PROVE  KeyIs(k, TRUE, keeps, key[k].dropped)
<1>1. k \in Key /\ key[k] \in KeyRecord  BY LinkedRecord
<1> DEFINE r == [key[k] EXCEPT !.up = TRUE, !.keeps = keeps]
<1>2. /\ r \in KeyRecord /\ r.kind = key[k].kind /\ r.sdata = key[k].sdata
      /\ r.sta = key[k].sta
      /\ r.up = TRUE /\ r.keeps = keeps /\ r.dropped = key[k].dropped
  BY <1>1 DEF KeyRecord
<1>3. key' = [key EXCEPT ![k] = r]  BY <1>1 DEF KeyTable
<1> HIDE DEF r
<1>4. QED  BY <1>2, <1>3, OneKey

(* ... and clears that of a tainted key (key.c:143).                       *)
LEMMA RefusedKey ==
  ASSUME key \in KeyTable, NEW k \in Linked,
         key' = [key EXCEPT ![k].up = @ /\ ~key[k].tainted]
  PROVE  KeyIs(k, key[k].up /\ ~key[k].tainted, key[k].keeps, key[k].dropped)
<1>1. k \in Key /\ key[k] \in KeyRecord  BY LinkedRecord
<1> DEFINE r == [key[k] EXCEPT !.up = @ /\ ~key[k].tainted]
<1>2. /\ r \in KeyRecord /\ r.kind = key[k].kind /\ r.sdata = key[k].sdata
      /\ r.sta = key[k].sta
      /\ r.up = (key[k].up /\ ~key[k].tainted) /\ r.keeps = key[k].keeps
      /\ r.dropped = key[k].dropped
  BY <1>1 DEF KeyRecord
<1>3. key' = [key EXCEPT ![k] = r]  BY <1>1 DEF KeyTable
<1> HIDE DEF r
<1>4. QED  BY <1>2, <1>3, OneKey

(* Tainting the keys of a client changes nothing else of them.             *)
LEMMA TaintedKeys ==
  ASSUME key \in KeyTable, \A s \in Ifaces : list[s] \subseteq Linked, Taint
  PROVE  /\ key' \in KeyTable /\ SameKeys
         /\ \A k \in Linked : key'[k].up = key[k].up /\ key'[k].keeps = key[k].keeps
                              /\ key'[k].dropped = key[k].dropped
<1>1. PICK s \in Ifaces :
        key' = [k \in Key |-> IF k \in list[s] THEN [key[k] EXCEPT !.tainted = TRUE] ELSE key[k]]
  BY DEF Taint
<1>2. ASSUME NEW k \in Key, k \in list[s]
      PROVE  /\ key'[k] \in KeyRecord /\ k \in Linked
             /\ key'[k].kind = key[k].kind /\ key'[k].sdata = key[k].sdata
             /\ key'[k].sta = key[k].sta /\ key'[k].up = key[k].up
             /\ key'[k].keeps = key[k].keeps /\ key'[k].dropped = key[k].dropped
  <2>1. k \in Linked /\ key[k] \in KeyRecord  BY <1>2, LinkedRecord
  <2>2. key'[k] = [key[k] EXCEPT !.tainted = TRUE]  BY <1>1, <1>2
  <2>3. QED  BY <2>1, <2>2 DEF KeyRecord
<1>3. ASSUME NEW k \in Key, k \notin list[s]  PROVE key'[k] = key[k]
  BY <1>1, <1>3
<1>4. \A k \in Key : key'[k] \in {Blank} \cup KeyRecord
  BY <1>2, <1>3 DEF KeyTable
<1>5. key' \in KeyTable  BY <1>1, <1>4 DEF KeyTable
<1>6. \A k \in Key : k \in Linked' <=> k \in Linked
  BY <1>2, <1>3, RecordLinked DEF Linked
<1>7. QED  BY <1>2, <1>3, <1>5, <1>6 DEF SameKeys, Linked

(* ieee80211_key_alloc makes one key, for software to encrypt with.        *)
LEMMA NewKey ==
  ASSUME key \in KeyTable, NEW k \in Key, key[k] = Blank, NEW s \in Ifaces,
         NEW a \in Stas \cup {NoSta}, NEW kind \in AnyKind,
         key' = [key EXCEPT ![k] = Alloc(s, a, kind)]
  PROVE  /\ key' \in KeyTable /\ key'[k] = Alloc(s, a, kind) /\ k \in Linked'
         /\ key'[k].kind = kind /\ key'[k].sdata = s /\ key'[k].sta = a
         /\ ~key'[k].up /\ ~key'[k].keeps
         /\ \A j \in Key \ {k} : key'[j] = key[j] /\ (j \in Linked' <=> j \in Linked)
         /\ k \notin Linked
<1>1. Alloc(s, a, kind) \in KeyRecord  BY DEF Alloc, KeyRecord
<1>2. Alloc(s, a, kind) # Blank  BY <1>1, RecordLinked
<1>3. key' \in KeyTable /\ key'[k] = Alloc(s, a, kind) /\ \A j \in Key \ {k} : key'[j] = key[j]
  BY <1>1 DEF KeyTable
<1>4. key'[k].kind = kind /\ key'[k].sdata = s /\ key'[k].sta = a /\ ~key'[k].up
      /\ ~key'[k].keeps
  BY <1>3 DEF Alloc
<1>5. QED  BY <1>2, <1>3, <1>4 DEF Linked

(* ieee80211_key_free_common frees one key and leaves the others.          *)
LEMMA FreedKey ==
  ASSUME key \in KeyTable, NEW k \in Linked, key' = [key EXCEPT ![k] = Blank]
  PROVE  /\ key' \in KeyTable /\ k \notin Linked'
         /\ \A j \in Key \ {k} : key'[j] = key[j] /\ (j \in Linked' <=> j \in Linked)
<1>1. k \in Key  BY DEF Linked
<1>2. key' \in KeyTable /\ key'[k] = Blank /\ \A j \in Key \ {k} : key'[j] = key[j]
  BY <1>1 DEF KeyTable
<1>3. QED  BY <1>1, <1>2 DEF Linked

(* If all keys keep kind, interface and station, the same are linked.      *)
LEMMA SameLinked == ASSUME SameKeys PROVE Linked' = Linked
BY DEF SameKeys, Linked

(* A key in a list is linked.                                              *)
LEMMA ListsLinked ==
  ASSUME Typed, ListsRight PROVE \A s \in Ifaces : list[s] \subseteq Linked
BY DEF Typed, ListsRight, Listed

(* The steps that neither make a key nor free one.                         *)
Ordinary == \/ SetDefault \/ IterRemove \/ FreeKeys \/ FreeStaKeys \/ Resume
            \/ (\E s \in Ifaces : DelayedDec(s)) \/ Increment \/ Synchronize
            \/ Synchronized \/ AddToList \/ Point \/ DelFromList \/ Disable
            \/ ClearUploaded \/ Settle \/ Flush \/ UnlinkKey \/ UnlinkNext \/ UnlinkEnd
            \/ NextKey \/ LastKey \/ LinkEnds \/ Accelerate \/ NotAccelerated \/ Suspend
            \/ Taint \/ StaLeaves \/ StaReturns \/ Begin \/ Select \/ Visit \/ End
            \/ UNCHANGED vars

(* Which leave what every key is: no key comes or goes.                    *)
LEMMA OrdinaryKeys ==
  ASSUME KInv, Ordinary PROVE key' \in KeyTable /\ SameKeys /\ Linked' = Linked
<1>h. Typed /\ key \in KeyTable /\ Course /\ Works  BY DEF KInv, Typed, KeyTable
<1>1. CASE IterRemove
  <2>1. \E s \in Ifaces : \E k \in list[s] :
          key' = [key EXCEPT ![k].up = FALSE, ![k].dropped = @ \/ key[k].up]
    BY <1>h, <1>1, IterRemoveMoves
  <2>2. \E k \in Linked : key' = [key EXCEPT ![k].up = FALSE, ![k].dropped = @ \/ key[k].up]
    BY <2>1, <1>h, ListsLinked DEF KInv
  <2>3. QED  BY <1>h, <2>2, IterRemoveKey, SameLinked DEF KeyIs
<1>2. CASE ClearUploaded
  <2>1. hand.old \in Linked /\ key' = [key EXCEPT ![hand.old].up = FALSE]
    BY <1>h, <1>2 DEF ClearUploaded, Works, Where, Waits, Taking
  <2>2. QED  BY <1>h, <2>1, ClearKey, SameLinked DEF KeyIs
<1>3. CASE Accelerate
  <2>1. hand.new \in Linked
    BY <1>h, <1>3 DEF Accelerate, Uploading, Works, Where, Waits
  <2>2. \E keeps \in BOOLEAN : key' = [key EXCEPT ![hand.new].up = TRUE, ![hand.new].keeps = keeps]
    BY <1>3 DEF Accelerate
  <2>3. QED  BY <1>h, <2>1, <2>2, AcceleratedKey, SameLinked DEF KeyIs
<1>4. CASE NotAccelerated
  <2>1. hand.new \in Linked
    BY <1>h, <1>4 DEF NotAccelerated, Uploading, Works, Where, Waits
  <2>2. key' = [key EXCEPT ![hand.new].up = @ /\ ~key[hand.new].tainted]
    BY <1>4 DEF NotAccelerated
  <2>3. QED  BY <1>h, <2>1, <2>2, RefusedKey, SameLinked DEF KeyIs
<1>5. CASE Taint  BY <1>h, <1>5, TaintedKeys, ListsLinked, SameLinked DEF KInv
<1>6. CASE key' = key
  <2>1. SameKeys  BY <1>6 DEF SameKeys, Linked
  <2>2. QED  BY <1>h, <1>6, <2>1, SameLinked
<1>7. IterRemove \/ ClearUploaded \/ Accelerate \/ NotAccelerated \/ Taint \/ key' = key
  BY DEF Ordinary, vars, SetDefault, FreeKeys, FreeStaKeys, Resume, DelayedDec,
      Increment, Synchronize, Synchronized, AddToList, Point, DelFromList, Disable,
      Settle, Flush, UnlinkKey, UnlinkNext, UnlinkEnd, NextKey, LastKey, LinkEnds,
      Suspend, StaLeaves, StaReturns, Begin, Select, Visit, End
<1>8. QED  BY <1>1, <1>2, <1>3, <1>4, <1>5, <1>6, <1>7

(***************************************************************************)
(* Keys: every variable stays in its domain.                               *)
(***************************************************************************)
(* The key that __ieee80211_set_default_key finds is in a place of the     *)
(* interface itself.                                                       *)
LEMMA DefaultKeyOf ==
  ASSUME Typed, NEW s, NEW i, NEW which
  PROVE  /\ DefaultKey(s, i, which) \in Key \cup {NoKey}
         /\ DefaultKey(s, i, which) # NoKey =>
              \E p \in Place : p.sdata = s /\ p.sta = NoSta /\ slot[p] = DefaultKey(s, i, which)
<1> DEFINE here == {p \in Place : p.sdata = s /\ p.sta = NoSta /\ p.idx = i}
           first == CHOOSE p \in here : TRUE
<1>1. here # {} => first \in here  OBVIOUS
<1>2. first \in here => /\ first \in Place /\ first.sdata = s /\ first.sta = NoSta
                       /\ slot[first] \in Key \cup {NoKey}
  BY DEF Typed
<1>3. DefaultKey(s, i, which) = NoKey \/ (here # {} /\ DefaultKey(s, i, which) = slot[first])
  BY Zenon DEF DefaultKey
<1> HIDE DEF first, here
<1>4. QED  BY <1>1, <1>2, <1>3

DefaultTable == [Ifaces -> [Defaults -> Key \cup {NoKey}]]

(* What defaults are after one, or some, are set.                          *)
LEMMA Appointed ==
  ASSUME def \in DefaultTable, NEW s \in Ifaces, NEW which, NEW new \in Key \cup {NoKey},
         Appoint(s, which, new)
  PROVE  /\ def' \in DefaultTable
         /\ \A t \in Ifaces, w \in Defaults :
              def'[t][w] = IF t = s /\ w \in which THEN new ELSE def[t][w]
<1> DEFINE f == [w \in Defaults |-> IF w \in which THEN new ELSE def[s][w]]
<1>1. def' = [def EXCEPT ![s] = f]  BY DEF Appoint
<1>2. f \in [Defaults -> Key \cup {NoKey}]  BY DEF DefaultTable
<1>3. \A w \in Defaults : f[w] = IF w \in which THEN new ELSE def[s][w]  OBVIOUS
<1> HIDE DEF f
<1>4. QED  BY <1>1, <1>2, <1>3 DEF DefaultTable

(* The pointers stay in their domains (key.c:256-376).                     *)
LEMMA PointersTyped ==
  ASSUME KInv, [Next]_vars
  PROVE  /\ slot' \in [Place -> Key \cup {NoKey}]
         /\ def' \in [Ifaces -> [Defaults -> Key \cup {NoKey}]]
         /\ list' \in [Ifaces -> SUBSET Key]
<1>h. Typed /\ hand \in Hand /\ Course /\ Works /\ hand.new \in Key \cup {NoKey}
  BY DEF KInv, Typed, Hand
<1>1. CASE SetDefault
  <2>1. PICK s \in ifaces : \E i, which : Appoint(s, which, DefaultKey(s, i, which))
    BY <1>1 DEF SetDefault
  <2>2. PICK i, which : Appoint(s, which, DefaultKey(s, i, which))  BY <2>1
  <2>3. s \in Ifaces /\ DefaultKey(s, i, which) \in Key \cup {NoKey}
    BY <1>h, IfacesOf, DefaultKeyOf
  <2>4. def' \in DefaultTable
    BY <1>h, <2>2, <2>3, Appointed DEF Typed, DefaultTable
  <2>5. QED  BY <1>h, <1>1, <2>4 DEF Typed, SetDefault, DefaultTable
<1>2. CASE AddToList
  <2>1. hand.new \in Linked
    BY <1>h, <1>2, Stands DEF AddToList, Works, Where, Waits
  <2>2. hand.new \in Key  BY <2>1 DEF Linked
  <2>3. QED  BY <1>h, <1>2, <2>2 DEF AddToList, Typed
<1>3. CASE Point
  <2> DEFINE k == IF hand.old = NoKey THEN hand.new ELSE hand.old
             s == key[k].sdata
             which == {w \in Defaults : def[s][w] = hand.old}
  <2>1. slot' \in [Place -> Key \cup {NoKey}]
    BY <1>h, <1>3 DEF Point, Typed
  <2>2. def' = def \/ Appoint(s, which, hand.new)  BY <1>3 DEF Point
  <2>3. k \in Linked  BY <1>h, <1>3, Stands DEF Point, Works, Where, Waits
  <2>4. s \in Ifaces  BY <1>h, <2>3, LinkedRecord DEF Typed, KeyTable, KeyRecord
  <2> HIDE DEF k, s, which
  <2>5. def' \in DefaultTable
    BY <1>h, <2>2, <2>4, Appointed DEF Typed, DefaultTable
  <2>6. QED  BY <1>h, <1>3, <2>1, <2>5 DEF Point, Typed, DefaultTable
<1>4. CASE DelFromList  BY <1>h, <1>4 DEF DelFromList, Typed
<1>5. CASE UNCHANGED ptrs  BY <1>h, <1>5 DEF Typed
<1>6. SetDefault \/ AddToList \/ Point \/ DelFromList \/ UNCHANGED ptrs
  BY DEF Next, Operation, Step, Others, vars, Install, RekeyAdd, Link, IterRemove,
      RemoveKey, FreeKeys, FreeStaKeys, Resume, DelayedDec, Increment, Synchronize,
      Synchronized, Disable, ClearUploaded, Settle, FreeKey, Flush, UnlinkKey,
      UnlinkNext, UnlinkEnd, NextKey, LastKey, LinkEnds, Accelerate, NotAccelerated,
      Suspend, Taint, StaLeaves, StaReturns, Begin, Select, Visit, End
<1>7. QED  BY <1>1, <1>2, <1>3, <1>4, <1>5, <1>6

(* Counting keeps the counters integers ...                                *)
LEMMA CountTyped ==
  ASSUME needed \in [Ifaces -> Int], NEW s, NEW d \in Int, Count(s, d)
  PROVE  needed' \in [Ifaces -> Int]
BY DEF Count

(* ... in every step; pending decrements are never negative.               *)
LEMMA CountersTyped ==
  ASSUME KInv, [Next]_vars
  PROVE  /\ needed' \in [Ifaces -> Int] /\ pending' \in [Ifaces -> Nat]
         /\ armed' \in [Ifaces -> BOOLEAN]
<1>h. Typed /\ hand \in Hand /\ Course /\ Works  BY DEF KInv, Typed
<1>n. /\ needed \in [Ifaces -> Int] /\ pending \in [Ifaces -> Nat]
      /\ armed \in [Ifaces -> BOOLEAN]
  BY <1>h DEF Typed
<1>1. CASE FreeKeys  BY <1>n, <1>1 DEF FreeKeys
<1>2. CASE \E s \in Ifaces : DelayedDec(s)
  <2>1. PICK s \in Ifaces : DelayedDec(s)  BY <1>2
  <2>2. -pending[s] \in Int /\ Count(s, -pending[s])
    BY <1>n, <2>1 DEF DelayedDec, FlushPending
  <2>3. needed' \in [Ifaces -> Int]  BY <1>n, <2>2, CountTyped
  <2>4. QED  BY <1>n, <2>1, <2>3 DEF DelayedDec, FlushPending
<1>3. CASE Resume  BY <1>n, <1>3 DEF Resume
<1>4. CASE Increment
  <2>1. Count(Raised, 1)  BY <1>4 DEF Increment
  <2>2. needed' \in [Ifaces -> Int]  BY <1>n, <2>1, CountTyped
  <2>3. QED  BY <1>n, <1>4, <2>2 DEF Increment
<1>5. CASE Settle
  <2>1. UNCHANGED needed \/ Count(key[hand.old].sdata, -1)  BY <1>5 DEF Settle
  <2>2. needed' \in [Ifaces -> Int]  BY <1>n, <2>1, CountTyped
  <2> DEFINE s == key[hand.old].sdata
  <2>3. \/ UNCHANGED <<pending, armed>>
        \/ /\ pending' = [pending EXCEPT ![s] = @ + 1]
           /\ armed' = [armed EXCEPT ![s] = TRUE]
    BY <1>5 DEF Settle
  <2>4. hand.old \in Linked  BY <1>h, <1>5 DEF Settle, Works, Where, Waits, Taking
  <2>5. s \in Ifaces  BY <1>h, <2>4, LinkedRecord DEF Typed, KeyTable, KeyRecord
  <2> HIDE DEF s
  <2>6. pending' \in [Ifaces -> Nat]  BY <1>n, <2>3, <2>5
  <2>7. armed' \in [Ifaces -> BOOLEAN]  BY <1>n, <2>3, <2>5
  <2>8. QED  BY <2>2, <2>6, <2>7
<1>6. CASE Flush
  <2>1. hand.on \in Ifaces  BY <1>h, <1>6, Stands DEF Flush, KInv, Emptied
  <2>2. -pending[hand.on] \in Int /\ Count(hand.on, -pending[hand.on])
    BY <1>n, <1>6, <2>1 DEF Flush, FlushPending
  <2>3. needed' \in [Ifaces -> Int]  BY <1>n, <2>2, CountTyped
  <2>4. QED  BY <1>n, <1>6, <2>3 DEF Flush, FlushPending
<1>7. CASE Accelerate
  <2>1. UNCHANGED needed \/ Count(key[hand.new].sdata, -1)  BY <1>7 DEF Accelerate
  <2>2. needed' \in [Ifaces -> Int]  BY <1>n, <2>1, CountTyped
  <2>3. QED  BY <1>n, <1>7, <2>2 DEF Accelerate
<1>8. CASE UNCHANGED cnts  BY <1>n, <1>8
<1>9. \/ FreeKeys \/ (\E s \in Ifaces : DelayedDec(s)) \/ Resume \/ Increment \/ Settle
      \/ Flush \/ Accelerate \/ UNCHANGED cnts
  BY DEF Next, Operation, Step, Others, vars, Install, RekeyAdd, Link, IterRemove,
      RemoveKey, SetDefault, FreeStaKeys, Synchronize, Synchronized, AddToList,
      Point, DelFromList, Disable, ClearUploaded, FreeKey, UnlinkKey, UnlinkNext,
      UnlinkEnd, NextKey, LastKey, LinkEnds, NotAccelerated, Suspend, Taint,
      StaLeaves, StaReturns, Begin, Select, Visit, End
<1>10. QED  BY <1>1, <1>2, <1>3, <1>4, <1>5, <1>6, <1>7, <1>8, <1>9

(* The readers, and what the rest of mac80211 keeps, stay in their         *)
(* domains; interfaces do not come or go.                                  *)
LEMMA RestTyped ==
  ASSUME KInv, [Next]_vars
  PROVE  /\ ifaces' = ifaces /\ grace' \subseteq Readers
         /\ leaving' \in [Stas -> SUBSET Readers] /\ removed' \subseteq Stas
         /\ sleep' \in {"awake", "wowlan", "off"} /\ stale' \in BOOLEAN
         /\ reader' \in [Readers -> {Out} \cup Reader]
<1>h. Typed  BY DEF KInv
<1>1. CASE Synchronize  BY <1>h, <1>1 DEF Synchronize, Typed, Active
<1>2. CASE LastKey  BY <1>h, <1>2 DEF LastKey, Typed
<1>3. CASE NotAccelerated  BY <1>h, <1>3 DEF NotAccelerated, Typed
<1>4. CASE Suspend  BY <1>h, <1>4 DEF Suspend, Typed
<1>5. CASE StaLeaves  BY <1>h, <1>5 DEF StaLeaves, Typed, Active
<1>6. CASE StaReturns  BY <1>h, <1>6 DEF StaReturns, Typed
<1>7. CASE Begin
  <2>1. PICK r \in Readers, s \in ifaces :
          reader' = [reader EXCEPT ![r] =
             [at |-> "in", on |-> s, room |-> needed[s] > 0, key |-> NoKey]]
    BY <1>7 DEF Begin
  <2>2. [at |-> "in", on |-> s, room |-> needed[s] > 0, key |-> NoKey] \in Reader
    BY <1>h, IfacesOf DEF Reader
  <2>3. QED  BY <1>h, <1>7, <2>1, <2>2 DEF Begin, Typed
<1>8. CASE Select
  <2>1. PICK r \in Readers : reader[r].at = "in" /\ \E k \in Selectable(r) :
          reader' = [reader EXCEPT ![r].at = "sends", ![r].key = k]
    BY <1>8 DEF Select
  <2>2. PICK k \in Selectable(r) : reader' = [reader EXCEPT ![r].at = "sends", ![r].key = k]
    BY <2>1
  <2>3. reader[r] \in Reader  BY <1>h, <2>1 DEF Typed, Out
  <2>4. k \in Key  BY <1>h, <2>2, <2>3 DEF Selectable, Typed, Reader
  <2>5. reader' \in [Readers -> {Out} \cup Reader]
    BY <1>h, <2>2, <2>3, <2>4 DEF Typed, Reader
  <2>6. QED  BY <1>h, <1>8, <2>5 DEF Select, Typed
<1>9. CASE Visit
  <2>1. PICK r \in Active : \E k \in list[reader[r].on] :
          reader' = [reader EXCEPT
            ![r].at = IF key[k].up /\ key[k].sta \notin removed THEN "called" ELSE "on",
            ![r].key = k]
    BY <1>9 DEF Visit
  <2>2. PICK k \in list[reader[r].on] :
          reader' = [reader EXCEPT
            ![r].at = IF key[k].up /\ key[k].sta \notin removed THEN "called" ELSE "on",
            ![r].key = k]
    BY <2>1
  <2>3. reader[r] \in Reader /\ r \in Readers  BY <1>h DEF Typed, Out, Active
  <2>4. k \in Key  BY <1>h, <2>2, <2>3 DEF Typed, Reader
  <2>5. reader' \in [Readers -> {Out} \cup Reader]
    BY <1>h, <2>2, <2>3, <2>4 DEF Typed, Reader
  <2>6. QED  BY <1>h, <1>9, <2>5 DEF Visit, Typed
<1>10. CASE End
  <2>1. PICK r \in Active : /\ reader' = [reader EXCEPT ![r] = Out]
                           /\ grace' = grace \ {r}
                           /\ leaving' = [a \in Stas |-> leaving[a] \ {r}]
    BY <1>10 DEF End
  <2>2. reader' \in [Readers -> {Out} \cup Reader]  BY <1>h, <2>1 DEF Typed
  <2>3. QED  BY <1>h, <1>10, <2>1, <2>2 DEF End, Typed
<1>11. CASE UNCHANGED <<grace, rest>>  BY <1>h, <1>11 DEF Typed
<1>12. \/ Synchronize \/ LastKey \/ NotAccelerated \/ Suspend \/ StaLeaves \/ StaReturns
       \/ Begin \/ Select \/ Visit \/ End \/ UNCHANGED <<grace, rest>>
  <2>1. CASE Operation
    <3>1. CASE Install \/ RekeyAdd
      <4>1. PICK s \in ifaces, a \in Stas \cup {NoSta}, kind \in AnyKind : Link(s, a, kind)
        BY <1>h, <3>1, InstallLinks
      <4>2. QED  BY <4>1 DEF Link
    <3>2. CASE IterRemove  BY <3>2 DEF RemoveKey, IterRemove
    <3>3. CASE SetDefault \/ FreeKeys  BY <3>3 DEF SetDefault, FreeKeys
    <3>4. CASE FreeStaKeys  BY <3>4 DEF FreeStaKeys
    <3>5. CASE Resume \/ \E s \in Ifaces : DelayedDec(s)
      BY <3>5 DEF Resume, DelayedDec
    <3>6. QED  BY <2>1, <3>1, <3>2, <3>3, <3>4, <3>5 DEF Operation
  <2>2. CASE Step
    BY <2>2
      DEF Step, Increment, Synchronized, AddToList, Point, DelFromList, Disable,
          ClearUploaded, Settle, FreeKey, Flush, UnlinkKey, UnlinkNext, UnlinkEnd,
          NextKey, LinkEnds, Accelerate
  <2>3. CASE Others  BY <2>3 DEF Others, Taint
  <2>4. CASE UNCHANGED vars  BY <2>4 DEF vars
  <2>5. QED  BY <2>1, <2>2, <2>3, <2>4 DEF Next
<1>13. QED
  BY <1>1, <1>2, <1>3, <1>4, <1>5, <1>6, <1>7, <1>8, <1>9, <1>10, <1>11, <1>12

(* Keys stay records or blank.                                             *)
LEMMA KeyTyped ==
  ASSUME KInv, [Next]_vars PROVE key' \in KeyTable
<1>h. Typed /\ key \in KeyTable /\ Course /\ Works  BY DEF KInv, Typed, KeyTable
<1>1. CASE Install \/ RekeyAdd
  <2>1. PICK s \in ifaces, a \in Stas \cup {NoSta}, kind \in AnyKind :
    /\ Link(s, a, kind) /\ s \in Ifaces /\ (a # NoSta => s = Home[a] /\ a \notin removed)
    /\ PlaceOf(s, a, kind) \in Place /\ slot[PlaceOf(s, a, kind)] \in Key \cup {NoKey}
    BY <1>1, <1>h, InstallLinks
  <2>2. \E k \in Key : key[k] = Blank /\ key' = [key EXCEPT ![k] = Alloc(s, a, kind)]
    BY <2>1, LinkMoves
  <2>3. QED  BY <1>h, <1>1, <2>1, <2>2, NewKey
<1>2. CASE FreeKey
  BY <1>h, <1>2, FreedKey DEF FreeKey, Works, Where, Waits, Taking
<1>3. CASE Ordinary  BY <1>3, OrdinaryKeys
<1>4. QED  BY <1>1, <1>2, <1>3 DEF Next, Operation, Step, Others, Ordinary

(* So every variable stays in its domain.                                  *)
LEMMA TypedStep ==
  ASSUME KInv, [Next]_vars PROVE Typed'
<1>1. key' \in KeyTable  BY KeyTyped
<1>2. hand' \in Hand  BY CourseStep
<1>3. ifaces \in Setups  BY DEF KInv, Typed
<1>4. QED
  BY <1>1, <1>2, <1>3, PointersTyped, CountersTyped, RestTyped DEF Typed, KeyTable

(* What the invariant says of hand and of the keys, in short.              *)
LEMMA HandTypes ==
  ASSUME KInv
  PROVE  /\ Typed /\ hand \in Hand /\ key \in KeyTable /\ Course /\ Works
         /\ hand.op \in Ops /\ hand.at \in Spots /\ hand.then \in Spots
         /\ hand.old \in Key \cup {NoKey} /\ hand.new \in Key \cup {NoKey}
         /\ hand.batch \subseteq Key /\ NoKey \notin Key
BY KeyAssumption DEF KInv, Typed, Hand, KeyTable, KeyAssumption, Key

(* An operation works on linked keys only: none is freed while another     *)
(* part of the operation still has it.                                     *)
LEMMA WorksStep ==
  ASSUME KInv, [Next]_vars
  PROVE  Works'
<1>h. /\ Typed /\ hand \in Hand /\ key \in KeyTable /\ Course /\ Works
      /\ hand.old \in Key \cup {NoKey} /\ hand.new \in Key \cup {NoKey}
      /\ hand.batch \subseteq Key /\ NoKey \notin Key
  BY HandTypes
<1>k. Ordinary => Linked' = Linked  BY OrdinaryKeys
<1>g. Free => hand.old = NoKey /\ hand.new = NoKey /\ hand.batch = {}
  BY <1>h DEF Course, Idle
<1> USE DEF Where, Waits, Waiting, Taking, Off, HandIs
<1>1. CASE Install \/ RekeyAdd
  <2>1. PICK s \in ifaces, a \in Stas \cup {NoSta}, kind \in AnyKind :
    /\ Link(s, a, kind) /\ s \in Ifaces /\ (a # NoSta => s = Home[a] /\ a \notin removed)
    /\ PlaceOf(s, a, kind) \in Place /\ slot[PlaceOf(s, a, kind)] \in Key \cup {NoKey}
    BY <1>1, <1>h, InstallLinks
  <2> DEFINE old == slot[PlaceOf(s, a, kind)]
  <2>2. PICK k \in Key :
    /\ Free /\ key[k] = Blank /\ key' = [key EXCEPT ![k] = Alloc(s, a, kind)]
    /\ HandIs("link", "inc", "add", old, k, {})
    BY <2>1, LinkMoves
  <2>3. k \in Linked' /\ k \notin Linked /\ \A j \in Key \ {k} : (j \in Linked' <=> j \in Linked)
    BY <1>h, <2>1, <2>2, NewKey
  <2>4. old # NoKey => old \in Linked  BY <2>1 DEF KInv, SlotsRight, Placed
  <2>5. Linked \subseteq Key BY DEF Linked
  <2> HIDE DEF old
  <2>6. QED BY <1>h, <2>2, <2>3, <2>4, <2>5 DEF Works
<1>4. CASE IterRemove
  <2>1. PICK s \in Ifaces : \E k \in list[s] :
    HandIs("remove", IF key[k].up /\ ~key[k].keeps THEN "inc" ELSE "point", "point", k, NoKey, {})
    BY <1>h, <1>4, IterRemoveMoves
  <2>2. list[s] \subseteq Linked BY <1>h, ListsLinked DEF KInv
  <2>3. PICK k \in list[s] :
    HandIs("remove", IF key[k].up /\ ~key[k].keeps THEN "inc" ELSE "point", "point", k, NoKey, {})
    BY <2>1
  <2>4. k \in Linked /\ Linked' = Linked /\ k \in Key
    BY <1>k, <1>4, <2>2 DEF Ordinary, Linked
  <2>5. QED BY <1>h, <2>3, <2>4 DEF Works
<1>5. CASE FreeKeys BY <1>h, <1>k, <1>5, FreeKeysMoves DEF Works, Ordinary
<1>6. CASE FreeStaKeys
  <2>1. PICK a : HandIs("freesta", "next", "idle", NoKey, NoKey,
                        {slot[p] : p \in {q \in Place : q.sta = a}} \ {NoKey})
    BY <1>h, <1>6, FreeStaKeysMoves
  <2>2. {slot[p] : p \in {q \in Place : q.sta = a}} \ {NoKey} \subseteq Linked
    BY DEF KInv, SlotsRight, Placed
  <2>3. QED BY <1>h, <1>k, <1>6, <2>1, <2>2 DEF Works, Ordinary
<1>7. CASE Resume
  <2>1. UNION {list[s] : s \in ifaces} \subseteq Linked
    BY <1>h, ListsLinked, IfacesOf DEF KInv
  <2>2. QED BY <1>h, <1>k, <1>7, <2>1, ResumeMoves DEF Works, Ordinary
<1>9. CASE Increment
  <2>1. Go("sync") \/ Go(hand.then) BY <1>9 DEF Increment
  <2>2. QED
    BY <1>h, <1>k, <1>9, <2>1, GoMoves DEF Works, Increment, Hand, Spots, Ordinary
<1>10. CASE Synchronize
  BY <1>h, <1>k, <1>10, GoMoves DEF Works, Synchronize, Spots, Ordinary
<1>11. CASE Synchronized
  BY <1>h, <1>k, <1>11, GoMoves DEF Works, Synchronized, Hand, Spots, Ordinary
<1>12. CASE AddToList
  BY <1>h, <1>k, <1>12, GoMoves, Stands DEF Works, AddToList, Spots, Ordinary
<1>13. CASE Point
  <2>1. hand.at = "point" /\ Go(IF hand.old = NoKey THEN "accel" ELSE "del")
    BY <1>13 DEF Point
  <2>2. CASE hand.old = NoKey
    BY <1>h, <1>k, <1>13, <2>1, <2>2, GoMoves DEF Works, Spots, Ordinary
  <2>3. CASE hand.old # NoKey
    BY <1>h, <1>k, <1>13, <2>1, <2>3, GoMoves DEF Works, Spots, Ordinary
  <2>4. QED BY <2>2, <2>3
<1>14. CASE DelFromList
  <2>1. hand.at = "del" /\ hand.old \in Key /\ hand.old \in Linked
    BY <1>h, <1>14 DEF DelFromList, Works
  <2>o. hand.op \in {"link", "fail", "remove", "freekeys", "freesta"}
    BY <1>h, <2>1, Stands
  <2>2. CASE hand.op = "freekeys"
    BY <1>h, <1>k, <1>14, <2>1, <2>2, DelMoves DEF Works, Ordinary
  <2>3. CASE hand.op = "freesta"
    BY <1>h, <1>k, <1>14, <2>1, <2>3, DelMoves DEF Works, Ordinary
  <2>4. CASE hand.op \notin {"freekeys", "freesta"}
    BY <1>h, <1>k, <1>14, <2>1, <2>o, <2>4, DelMoves DEF Works, Ordinary
  <2>5. QED  BY <2>2, <2>3, <2>4
<1>15. CASE Disable
  BY <1>h, <1>k, <1>15, DisableMoves DEF Works, Disable, Ordinary
<1>16. CASE ClearUploaded
  BY <1>h, <1>k, <1>16, GoMoves DEF Works, ClearUploaded, Spots, Ordinary
<1>17. CASE Settle
  BY <1>h, <1>k, <1>17, GoMoves DEF Works, Settle, Spots, Ordinary
<1>18. CASE FreeKey
  <2>1. /\ hand.at = "free" /\ hand.old \in Linked
        /\ key' = [key EXCEPT ![hand.old] = Blank]
    BY <1>h, <1>18 DEF FreeKey, Works
  <2>2. \A j \in Key \ {hand.old} : (j \in Linked' <=> j \in Linked)
    BY <1>h, <2>1, FreedKey
  <2>3. CASE hand.op \in {"fail", "remove"}
    BY <1>h, <1>18, <2>3, FreeKeyMoves, IdleIs DEF Works
  <2>4. CASE hand.op = "link"
    BY <1>h, <1>18, <2>1, <2>2, <2>4, FreeKeyMoves DEF Works
  <2>5. CASE hand.op \in {"freekeys", "freesta"}
    BY <1>h, <1>18, <2>1, <2>2, <2>5, FreeKeyMoves DEF Works
  <2>6. QED BY <1>h, <2>1, <2>3, <2>4, <2>5, Stands
<1>19. CASE Flush BY <1>h, <1>k, <1>19, GoMoves DEF Works, Flush, Spots, Ordinary
<1>20. CASE UnlinkKey
  <2>1. hand.at = "unlink" /\ hand.op = "freekeys"
    BY <1>h, <1>20, Stands DEF UnlinkKey
  <2>2. hand.on \in Ifaces  BY <2>1 DEF KInv, Emptied
  <2>3. PICK k \in list[hand.on] :
           /\ k \in Key /\ HandIs(hand.op, "point", hand.then, k, hand.new, hand.batch)
    BY <1>h, <1>20, <2>2, UnlinkKeyMoves
  <2>4. k \in Linked /\ k \notin hand.batch
    BY <2>1, <2>2, <2>3 DEF KInv, ListsRight, Listed
  <2>5. QED  BY <1>h, <1>k, <1>20, <2>1, <2>3, <2>4 DEF Works, Ordinary
<1>21. CASE UnlinkNext
  BY <1>h, <1>k, <1>21, UnlinkNextMoves DEF Works, UnlinkNext, Ordinary
<1>22. CASE UnlinkEnd
  <2>1. hand.at = "unlink" /\ hand.op = "freekeys"
    BY <1>h, <1>22, Stands DEF UnlinkEnd
  <2>2. CASE Grace("next")
    BY <1>h, <1>k, <1>22, <2>1, <2>2, GraceMoves DEF Works, Spots, Ordinary
  <2>3. CASE Go("next")
    BY <1>h, <1>k, <1>22, <2>1, <2>3, GoMoves DEF Works, Spots, Ordinary
  <2>4. QED  BY <1>22, <2>2, <2>3 DEF UnlinkEnd
<1>23. CASE NextKey
  <2>1. hand.at = "next" /\ hand.op \in {"freekeys", "freesta", "resume"}
    BY <1>h, <1>23, Stands DEF NextKey
  <2>2. CASE hand.op = "freekeys"
    BY <1>h, <1>k, <1>23, <2>1, <2>2, NextKeyMoves DEF Works, Ordinary
  <2>3. CASE hand.op = "freesta"
    BY <1>h, <1>k, <1>23, <2>1, <2>3, NextKeyMoves DEF Works, Ordinary
  <2>4. CASE hand.op = "resume"
    BY <1>h, <1>k, <1>23, <2>1, <2>4, NextKeyMoves DEF Works, Ordinary
  <2>5. QED  BY <2>1, <2>2, <2>3, <2>4
<1>24. CASE LastKey BY <1>h, <1>k, <1>24, IdleIs DEF Works, LastKey, Ordinary
<1>25. CASE LinkEnds
  BY <1>h, <1>k, <1>25, UploadedMoves, IdleIs DEF Works, LinkEnds, Ordinary
<1>26. CASE Accelerate
  <2>1. hand.at = "accel" /\ Uploaded BY <1>26 DEF Accelerate, Uploading
  <2>2. QED BY <1>h, <1>k, <1>26, <2>1, UploadedMoves, IdleIs DEF Works, Ordinary
<1>27. CASE NotAccelerated
  <2>1. hand.at = "accel" /\ hand.new \in Key
    BY <1>h, <1>27 DEF NotAccelerated, Uploading, Works
  <2>2. CASE Uploaded
    BY <1>h, <1>k, <1>27, <2>1, <2>2, UploadedMoves, IdleIs DEF Works, Ordinary
  <2>3. CASE /\ hand.op = "link"
             /\ hand' = [hand EXCEPT !.op = "fail", !.at = "point", !.old = hand.new, !.new = NoKey]
    BY <1>h, <1>k, <1>27, <2>1, <2>3, RefusedMoves DEF Works, Ordinary
  <2>4. QED BY <1>27, <2>2, <2>3 DEF NotAccelerated
<1>28. CASE Quiet
  <2>1. hand' = hand BY <1>28, QuietHand
  <2>3. QED BY <1>h, <1>k, <1>28, <2>1 DEF Works, Quiet, Ordinary
<1>37. QED
  BY <1>1, <1>4, <1>5, <1>6, <1>7, <1>9, <1>10, <1>11, <1>12, <1>13, <1>14, <1>15,
      <1>16, <1>17, <1>18, <1>19, <1>20, <1>21, <1>22, <1>23, <1>24, <1>25, <1>26,
      <1>27, <1>28
    DEF Next, Operation, Step, Others, Quiet

(* The flags of the keys at work are as the place in the code demands.     *)
LEMMA FlagsStep ==
  ASSUME KInv, [Next]_vars
  PROVE  Flags'
<1>h. /\ Typed /\ hand \in Hand /\ key \in KeyTable /\ Course /\ Works /\ Flags
      /\ hand.old \in Key \cup {NoKey} /\ hand.new \in Key \cup {NoKey}
      /\ hand.batch \subseteq Key /\ NoKey \notin Key
  BY HandTypes DEF KInv
<1>l. Linked \subseteq Key BY DEF Linked
<1> USE DEF Where, Waits, Waiting, Taking, Off, HandIs
<1>1. CASE Install \/ RekeyAdd
  <2>1. PICK s \in ifaces, a \in Stas \cup {NoSta}, kind \in AnyKind :
    /\ Link(s, a, kind) /\ s \in Ifaces /\ (a # NoSta => s = Home[a] /\ a \notin removed)
    /\ PlaceOf(s, a, kind) \in Place /\ slot[PlaceOf(s, a, kind)] \in Key \cup {NoKey}
    BY <1>1, <1>h, InstallLinks
  <2> DEFINE old == slot[PlaceOf(s, a, kind)]
  <2>2. PICK k \in Key :
    /\ Free /\ key[k] = Blank /\ key' = [key EXCEPT ![k] = Alloc(s, a, kind)]
    /\ HandIs("link", "inc", "add", old, k, {})
    BY <2>1, LinkMoves
  <2>3. ~key'[k].up /\ ~key'[k].keeps  BY <1>h, <2>1, <2>2, NewKey
  <2> HIDE DEF old
  <2>6. QED BY <2>2, <2>3 DEF Flags
<1>4. CASE IterRemove
  <2>1. PICK s \in Ifaces : \E k \in list[s] :
     /\ key' = [key EXCEPT ![k].up = FALSE, ![k].dropped = @ \/ key[k].up]
     /\ HandIs("remove", IF key[k].up /\ ~key[k].keeps THEN "inc" ELSE "point", "point", k, NoKey, {})
    BY <1>h, <1>4, IterRemoveMoves
  <2>2. PICK k \in list[s] :
     /\ key' = [key EXCEPT ![k].up = FALSE, ![k].dropped = @ \/ key[k].up]
     /\ HandIs("remove", IF key[k].up /\ ~key[k].keeps THEN "inc" ELSE "point", "point", k, NoKey, {})
    BY <2>1
  <2>3. k \in Linked BY <1>h, ListsLinked DEF KInv
  <2>4. ~key'[k].up /\ (key'[k].dropped = (key[k].dropped \/ key[k].up))
    BY <1>h, <2>2, <2>3, IterRemoveKey DEF KeyIs
  <2>5. QED BY <2>2, <2>4 DEF Flags
<1>5. CASE FreeKeys BY <1>h, <1>5, FreeKeysMoves DEF Flags
<1>6. CASE FreeStaKeys
  <2>1. PICK a \in removed :
    /\ leaving[a] = {} /\ UNCHANGED <<key, leaving, removed>>
    /\ HandIs("freesta", "next", "idle", NoKey, NoKey,
                        {slot[p] : p \in {q \in Place : q.sta = a}} \ {NoKey})
    BY <1>h, <1>6, FreeStaKeysMoves
  <2>2. ASSUME NEW k \in {slot[p] : p \in {q \in Place : q.sta = a}} \ {NoKey}
        PROVE  key[k].sta = a
    <3>1. PICK p \in Place : p.sta = a /\ k = slot[p] OBVIOUS
    <3>2. At(k) = p BY <3>1 DEF KInv, SlotsRight
    <3>3. QED BY <3>1, <3>2 DEF At, PlaceOf
  <2>3. QED BY <1>h, <2>1, <2>2 DEF Flags
<1>7. CASE Resume BY <1>h, <1>7, ResumeMoves DEF Flags
<1>9. CASE Increment
  <2>1. Go("sync") \/ Go(hand.then) BY <1>9 DEF Increment
  <2>2. UNCHANGED <<key, leaving, removed>> BY <1>9 DEF Increment
  <2>3. hand.at = "inc" BY <1>9 DEF Increment
  <2>4. QED BY <1>h, <2>1, <2>2, <2>3, GoMoves DEF Flags, Course, Hand, Spots
<1>10. CASE Synchronize BY <1>h, <1>10, GoMoves DEF Flags, Synchronize, Spots
<1>11. CASE Synchronized
  BY <1>h, <1>11, GoMoves DEF Flags, Course, Synchronized, Hand, Spots
<1>12. CASE AddToList BY <1>h, <1>12, GoMoves DEF Flags, AddToList, Spots
<1>13. CASE Point
  <2>1. UNCHANGED <<key, leaving, removed>> BY <1>13 DEF Point
  <2>2. Go("accel") \/ Go("del") BY <1>13 DEF Point
  <2>3. QED BY <1>h, <2>1, <2>2, GoMoves DEF Flags, Spots
<1>14. CASE DelFromList
  <2>1. hand.at = "del" /\ hand.old \in Key /\ hand.old \in Linked
    BY <1>h, <1>14 DEF DelFromList, Works, Linked
  <2>o. hand.op \in {"link", "fail", "remove", "freekeys", "freesta"}
    BY <1>h, <2>1, Stands
  <2>u. UNCHANGED <<key, leaving, removed>> BY <1>14 DEF DelFromList
  <2>2. CASE hand.op = "freekeys"
    BY <1>h, <1>14, <2>1, <2>u, <2>2, DelMoves DEF Flags
  <2>3. CASE hand.op = "freesta"
    BY <1>h, <1>14, <2>1, <2>u, <2>3, DelMoves DEF Flags
  <2>4. CASE hand.op \notin {"freekeys", "freesta"}
    BY <1>h, <1>14, <2>1, <2>u, <2>o, <2>4, DelMoves DEF Flags
  <2>5. QED  BY <2>2, <2>3, <2>4
<1>15. CASE Disable
  <2>1. UNCHANGED <<key, leaving, removed>> BY <1>15 DEF Disable
  <2>2. QED BY <1>h, <1>15, <2>1, DisableMoves DEF Flags
<1>16. CASE ClearUploaded
  <2>1. /\ hand.at = "clear" /\ hand.old \in Linked
        /\ key' = [key EXCEPT ![hand.old].up = FALSE]
    BY <1>h, <1>16 DEF ClearUploaded, Works
  <2>2. KeyIs(hand.old, FALSE, key[hand.old].keeps, key[hand.old].dropped)
    BY <1>h, <2>1, ClearKey
  <2>3. QED
    BY <1>h, <1>l, <1>16, <2>1, <2>2, GoMoves
      DEF Flags, Works, ClearUploaded, Spots, KeyIs, SameKeys
<1>17. CASE Settle
  <2>1. UNCHANGED <<key, leaving, removed>> /\ Go("free") BY <1>17 DEF Settle
  <2>2. QED BY <1>h, <2>1, GoMoves DEF Flags, Spots
<1>18. CASE FreeKey
  <2>1. /\ hand.at = "free" /\ hand.old \in Linked
        /\ key' = [key EXCEPT ![hand.old] = Blank] /\ UNCHANGED <<leaving, removed>>
    BY <1>h, <1>18 DEF FreeKey, Works
  <2>2. \A j \in Key \ {hand.old} : key'[j] = key[j] BY <1>h, <2>1, FreedKey
  <2>3. CASE hand.op \in {"fail", "remove"}
    BY <1>h, <1>18, <2>3, FreeKeyMoves, IdleIs DEF Flags
  <2>4. CASE hand.op = "link"
    BY <1>h, <1>l, <1>18, <2>1, <2>2, <2>4, FreeKeyMoves DEF Flags, Works
  <2>5. CASE hand.op \in {"freekeys", "freesta"}
    BY <1>h, <1>18, <2>1, <2>2, <2>5, FreeKeyMoves DEF Flags, Works
  <2>6. QED BY <1>h, <2>1, <2>3, <2>4, <2>5, Stands
<1>19. CASE Flush BY <1>h, <1>19, GoMoves, Stands DEF Flags, Flush, Spots
<1>20. CASE UnlinkKey
  <2>1. hand.at = "unlink" /\ hand.op = "freekeys"
    BY <1>h, <1>20, Stands DEF UnlinkKey
  <2>2. hand.on \in Ifaces  BY <2>1 DEF KInv, Emptied
  <2>3. PICK k \in list[hand.on] :
           /\ k \in Key /\ HandIs(hand.op, "point", hand.then, k, hand.new, hand.batch)
    BY <1>h, <1>20, <2>2, UnlinkKeyMoves
  <2>5. QED  BY <2>1, <2>3 DEF Flags
<1>21. CASE UnlinkNext
  BY <1>h, <1>21, UnlinkNextMoves, Stands DEF Flags, UnlinkNext
<1>22. CASE UnlinkEnd
  <2>1. hand.at = "unlink" /\ hand.op = "freekeys"
    BY <1>h, <1>22, Stands DEF UnlinkEnd
  <2>2. Grace("next") \/ Go("next") BY <1>22 DEF UnlinkEnd
  <2>4. QED  BY <1>h, <2>1, <2>2, GoMoves, GraceMoves DEF Flags, Spots
<1>23. CASE NextKey
  <2>1. hand.at = "next" /\ hand.op \in {"freekeys", "freesta", "resume"}
    BY <1>h, <1>23, Stands DEF NextKey
  <2>u. UNCHANGED <<key, leaving, removed>> BY <1>23 DEF NextKey
  <2>2. CASE hand.op = "freekeys"
    BY <1>h, <1>23, <2>1, <2>2, <2>u, NextKeyMoves DEF Flags
  <2>3. CASE hand.op = "freesta"
    BY <1>h, <1>23, <2>1, <2>3, <2>u, NextKeyMoves DEF Flags
  <2>4. CASE hand.op = "resume"
    BY <1>h, <1>23, <2>1, <2>4, <2>u, NextKeyMoves DEF Flags
  <2>5. QED  BY <2>1, <2>2, <2>3, <2>4
<1>24. CASE LastKey BY <1>h, <1>24, IdleIs DEF Flags, LastKey
<1>25. CASE LinkEnds BY <1>h, <1>25, UploadedMoves, IdleIs DEF Flags, LinkEnds
<1>26. CASE Accelerate
  <2>1. hand.at = "accel" /\ Uploaded /\ hand.op \in {"link", "resume"}
    BY <1>h, <1>26, Stands DEF Accelerate, Uploading
  <2>2. QED BY <1>h, <2>1, UploadedMoves, IdleIs DEF Flags
<1>27. CASE NotAccelerated
  <2>1. hand.at = "accel" /\ hand.new \in Key /\ hand.op \in {"link", "resume"}
    BY <1>h, <1>27, Stands DEF NotAccelerated, Uploading, Works
  <2>2. CASE Uploaded BY <1>h, <2>1, <2>2, UploadedMoves, IdleIs DEF Flags
  <2>3. CASE /\ hand.op = "link"
             /\ hand' = [hand EXCEPT !.op = "fail", !.at = "point", !.old = hand.new, !.new = NoKey]
    BY <1>h, <2>1, <2>3, RefusedMoves DEF Flags
  <2>4. QED BY <1>27, <2>2, <2>3 DEF NotAccelerated
<1>28. CASE Quiet
  <2>1. hand' = hand BY <1>28, QuietHand
  <2>2. CASE Free  BY <1>h, <2>1, <2>2 DEF Flags, Course, Idle, Free
  <2>3. CASE ~Free
    <3>1. key' = key /\ removed' = removed
      BY <1>28, <2>3
        DEF Quiet, SetDefault, DelayedDec, Suspend, Taint, StaLeaves, StaReturns,
            Begin, Select, Visit, End, vars
    <3>2. \A a \in Stas : leaving[a] = {} => leaving'[a] = {}
      BY <1>28, <2>3
        DEF Quiet, SetDefault, DelayedDec, Suspend, Taint, StaLeaves, StaReturns,
            Begin, Select, Visit, End, vars
    <3>3. removed \subseteq Stas BY <1>h DEF Typed
    <3>4. QED BY <1>h, <2>1, <3>1, <3>2, <3>3 DEF Flags
  <2>4. QED BY <2>2, <2>3
<1>37. QED
  BY <1>1, <1>4, <1>5, <1>6, <1>7, <1>9, <1>10, <1>11, <1>12, <1>13, <1>14, <1>15,
      <1>16, <1>17, <1>18, <1>19, <1>20, <1>21, <1>22, <1>23, <1>24, <1>25, <1>26,
      <1>27, <1>28
    DEF Next, Operation, Step, Others, Quiet

(***************************************************************************)
(* Keys: places, lists and defaults.                                       *)
(***************************************************************************)
(* A key does not change its place while it is linked.                     *)
LEMMA SameAt ==
  ASSUME SameKeys, NEW k \in Linked PROVE At(k)' = At(k)
BY DEF SameKeys, At, PlaceOf, Linked

(* Every linked key has a place, of an interface of the host.              *)
LEMMA HomesStep ==
  ASSUME KInv, [Next]_vars PROVE Homes'
<1>h. /\ Typed /\ key \in KeyTable /\ Homes /\ Works /\ ifaces' = ifaces
  BY HandTypes, RestTyped DEF KInv
<1>1. CASE Install \/ RekeyAdd
  <2>1. PICK s \in ifaces, a \in Stas \cup {NoSta}, kind \in AnyKind :
    /\ Link(s, a, kind) /\ s \in Ifaces /\ (a # NoSta => s = Home[a] /\ a \notin removed)
    /\ PlaceOf(s, a, kind) \in Place /\ slot[PlaceOf(s, a, kind)] \in Key \cup {NoKey}
    BY <1>1, <1>h, InstallLinks
  <2>2. PICK k \in Key : key[k] = Blank /\ key' = [key EXCEPT ![k] = Alloc(s, a, kind)]
    BY <2>1, LinkMoves
  <2>3. /\ key'[k].kind = kind /\ key'[k].sdata = s /\ key'[k].sta = a
        /\ \A j \in Key \ {k} : key'[j] = key[j] /\ (j \in Linked' <=> j \in Linked)
    BY <1>h, <2>1, <2>2, NewKey
  <2>4. At(k)' = PlaceOf(s, a, kind)  BY <2>3 DEF At
  <2>5. ASSUME NEW j \in Linked', j # k PROVE At(j)' \in Place /\ key'[j].sdata \in ifaces
    <3>1. j \in Key /\ j \in Linked /\ key'[j] = key[j] BY <2>3, <2>5 DEF Linked
    <3>2. QED BY <1>h, <3>1 DEF Homes, At
  <2>6. QED BY <1>h, <2>1, <2>3, <2>4, <2>5 DEF Homes
<1>2. CASE FreeKey
  <2>1. hand.old \in Linked /\ key' = [key EXCEPT ![hand.old] = Blank]
    BY <1>h, <1>2 DEF FreeKey, Works, Where, Waits, Taking
  <2>2. /\ hand.old \notin Linked'
        /\ \A j \in Key \ {hand.old} : key'[j] = key[j] /\ (j \in Linked' <=> j \in Linked)
    BY <1>h, <2>1, FreedKey
  <2>3. ASSUME NEW j \in Linked' PROVE At(j)' \in Place /\ key'[j].sdata \in ifaces
    <3>1. j \in Key /\ j \in Linked /\ key'[j] = key[j] BY <2>2, <2>3 DEF Linked
    <3>2. QED BY <1>h, <3>1 DEF Homes, At
  <2>4. QED BY <1>h, <2>3 DEF Homes
<1>3. CASE Ordinary
  <2>1. SameKeys /\ Linked' = Linked BY <1>3, OrdinaryKeys
  <2>2. ASSUME NEW j \in Linked PROVE At(j)' \in Place /\ key'[j].sdata \in ifaces
    <3>1. At(j)' = At(j) BY <2>1, SameAt
    <3>2. QED BY <1>h, <2>1, <3>1 DEF Homes, SameKeys, Linked
  <2>4. QED BY <1>h, <2>1, <2>2 DEF Homes
<1>4. QED  BY <1>1, <1>2, <1>3 DEF Next, Operation, Step, Others, Ordinary

(* The steps of a link before the place changes ...                        *)
LEMMA SwapKept ==
  ASSUME Swap, key' = key, slot' = slot, hand'.new = hand.new, hand'.old = hand.old,
         hand.op = "link", Where \in {"add", "point"}
  PROVE  Swap'
BY DEF Swap, At, Identical

(* ... do not touch the place: between ieee80211_key_identical and         *)
(* ieee80211_key_replace (key.c:671-683) the old key stays the old key,    *)
(* through the grace period of the increment.                              *)
LEMMA SwapStep ==
  ASSUME KInv, [Next]_vars
  PROVE  Swap'
<1>h. /\ Typed /\ hand \in Hand /\ key \in KeyTable /\ Course /\ Works /\ Swap
      /\ hand.old \in Key \cup {NoKey} /\ hand.new \in Key \cup {NoKey}
      /\ hand.batch \subseteq Key /\ NoKey \notin Key /\ hand.op \in Ops
  BY HandTypes DEF KInv
<1> USE DEF Where, Waits, Waiting, Taking, Off, HandIs
<1>1. CASE Install \/ RekeyAdd
  <2>1. PICK s \in ifaces, a \in Stas \cup {NoSta}, kind \in AnyKind :
    /\ Link(s, a, kind) /\ s \in Ifaces /\ (a # NoSta => s = Home[a] /\ a \notin removed)
    /\ PlaceOf(s, a, kind) \in Place /\ slot[PlaceOf(s, a, kind)] \in Key \cup {NoKey}
    BY <1>1, <1>h, InstallLinks
  <2> PICK old : old = slot[PlaceOf(s, a, kind)]  OBVIOUS
  <2>2. PICK k \in Key :
    /\ Free /\ key[k] = Blank /\ key' = [key EXCEPT ![k] = Alloc(s, a, kind)]
    /\ HandIs("link", "inc", "add", old, k, {}) /\ slot' = slot
    /\ ~Identical(s, old, kind)
    BY <2>1, LinkMoves
  <2>n. key[k] = Blank /\ key' = [key EXCEPT ![k] = Alloc(s, a, kind)]  BY <2>2
  <2>3. /\ key'[k].kind = kind /\ key'[k].sdata = s /\ key'[k].sta = a /\ k \notin Linked
        /\ \A j \in Key \ {k} : key'[j] = key[j]
    BY <1>h, <2>1, <2>n, NewKey
  <2>4. At(k)' = PlaceOf(s, a, kind)  BY <2>3 DEF At
  <2>5. old # NoKey => old \in Linked /\ old \in Key
    BY <2>1 DEF KInv, SlotsRight, Placed, Linked
  <2>6. old # NoKey => key'[old] = key[old] BY <2>3, <2>5
  <2>7. slot'[At(k)'] = old BY <2>2, <2>4
  <2>8. ~Identical(s, old, kind)' BY <2>2, <2>6 DEF Identical
  <2>9. QED BY <2>2, <2>3, <2>7, <2>8 DEF Swap, At, Identical
<1>2. CASE Increment \/ Synchronize \/ Synchronized \/ AddToList
  <2>1. Go("sync") \/ Go("wait") \/ Go(hand.then) \/ Go("point")
    BY <1>2 DEF Increment, Synchronize, Synchronized, AddToList
  <2>2. hand'.new = hand.new /\ hand'.old = hand.old /\ hand'.op = hand.op
        /\ hand'.then = hand.then /\ (hand'.at \in {"sync", "wait", "point"} \/ hand'.at = hand.then)
    BY <1>h, <2>1, GoMoves DEF Hand, Spots
  <2>3. key' = key /\ slot' = slot
    BY <1>2 DEF Increment, Synchronize, Synchronized, AddToList
  <2>4. hand.at \in Waits \/ hand.at = "add"
    BY <1>2 DEF Increment, Synchronize, Synchronized, AddToList
  <2>5. CASE hand.op = "link" /\ Where \in {"add", "point"}
    BY <1>h, <2>2, <2>3, <2>5, SwapKept
  <2>6. CASE ~(hand.op = "link" /\ Where \in {"add", "point"})
    <3>2. hand.at \in Waits  BY <1>h, <2>4, <2>6, Stands
    <3>3. Go("sync") \/ Go("wait") \/ Go(hand.then)
      BY <1>2, <3>2 DEF Increment, Synchronize, Synchronized, AddToList
    <3>4. hand'.at \in {"sync", "wait"} \/ hand'.at = hand.then
      BY <1>h, <3>3, GoMoves DEF Hand, Spots
    <3>5. hand.then \notin Waits  BY <1>h, <3>2 DEF Course
    <3>1. Where' = Where  BY <2>2, <3>2, <3>4, <3>5
    <3>6. QED BY <2>2, <2>6, <3>1 DEF Swap
  <2>7. QED BY <2>5, <2>6
<1>4. CASE IterRemove BY <1>h, <1>4, IterRemoveMoves DEF Swap
<1>5. CASE FreeKeys BY <1>h, <1>5, FreeKeysMoves DEF Swap
<1>6. CASE FreeStaKeys BY <1>h, <1>6, FreeStaKeysMoves DEF Swap
<1>7. CASE Resume BY <1>h, <1>7, ResumeMoves DEF Swap
<1>13. CASE Point BY <1>h, <1>13, GoMoves DEF Point, Swap, Spots
<1>14. CASE DelFromList
  <2>1. hand.at = "del" /\ hand.old \in Key
    BY <1>h, <1>14 DEF DelFromList, Works, Linked
  <2>o. hand.op \in {"link", "fail", "remove", "freekeys", "freesta"}
    BY <1>h, <2>1, Stands
  <2>5. QED  BY <1>h, <2>1, <2>o, <1>14, DelMoves DEF Swap
<1>15. CASE Disable BY <1>h, <1>15, DisableMoves DEF Swap
<1>16. CASE ClearUploaded BY <1>h, <1>16, GoMoves DEF Swap, ClearUploaded, Spots
<1>17. CASE Settle BY <1>h, <1>17, GoMoves DEF Settle, Swap, Spots
<1>18. CASE FreeKey BY <1>h, <1>18, FreeKeyMoves, IdleIs DEF Swap
<1>19. CASE Flush BY <1>h, <1>19, GoMoves DEF Swap, Flush, Spots
<1>20. CASE UnlinkKey
  <2>1. hand.at = "unlink" /\ hand.op = "freekeys"
    BY <1>h, <1>20, Stands DEF UnlinkKey
  <2>2. hand.on \in Ifaces  BY <2>1 DEF KInv, Emptied
  <2>5. QED  BY <1>h, <1>20, <2>1, <2>2, UnlinkKeyMoves DEF Swap
<1>21. CASE UnlinkNext
  BY <1>h, <1>21, UnlinkNextMoves, Stands DEF Swap, UnlinkNext
<1>22. CASE UnlinkEnd
  <2>1. hand.at = "unlink" /\ hand.op = "freekeys"
    BY <1>h, <1>22, Stands DEF UnlinkEnd
  <2>2. Grace("next") \/ Go("next") BY <1>22 DEF UnlinkEnd
  <2>4. QED  BY <1>h, <2>1, <2>2, GoMoves, GraceMoves DEF Swap, Spots
<1>23. CASE NextKey
  <2>1. hand.op \in {"freekeys", "freesta", "resume"}
    BY <1>h, <1>23, Stands DEF NextKey
  <2>2. QED BY <1>h, <1>23, <2>1, NextKeyMoves DEF Swap
<1>24. CASE LastKey BY <1>h, <1>24, IdleIs DEF Swap, LastKey
<1>25. CASE LinkEnds BY <1>h, <1>25, UploadedMoves, IdleIs DEF Swap, LinkEnds
<1>26. CASE Accelerate BY <1>h, <1>26, UploadedMoves, IdleIs DEF Swap, Accelerate
<1>27. CASE NotAccelerated
  <2>1. hand.new \in Key
    BY <1>h, <1>27, Stands DEF NotAccelerated, Uploading, Works
  <2>2. CASE Uploaded BY <1>h, <2>2, UploadedMoves, IdleIs DEF Swap
  <2>3. CASE hand' = [hand EXCEPT !.op = "fail", !.at = "point", !.old = hand.new, !.new = NoKey]
    BY <1>h, <2>1, <2>3, RefusedMoves DEF Swap
  <2>4. QED BY <1>27, <2>2, <2>3 DEF NotAccelerated
<1>28. CASE Quiet
  <2>1. hand' = hand BY <1>28, QuietHand
  <2>2. CASE Free  BY <1>h, <2>1, <2>2 DEF Swap, Course, Idle, Free
  <2>3. CASE ~Free
    <3>1. key' = key /\ slot' = slot
      BY <1>28, <2>3
        DEF Quiet, SetDefault, DelayedDec, Suspend, Taint, StaLeaves, StaReturns,
            Begin, Select, Visit, End, vars
    <3>4. QED BY <1>h, <2>1, <3>1, SwapKept DEF Swap
  <2>4. QED BY <2>2, <2>3
<1>37. QED
  BY <1>1, <1>2, <1>4, <1>5, <1>6, <1>7, <1>13, <1>14, <1>15, <1>16, <1>17, <1>18,
      <1>19, <1>20, <1>21, <1>22, <1>23, <1>24, <1>25, <1>26, <1>27, <1>28
    DEF Next, Operation, Step, Others, Quiet

(* A key that is linked before and after a step is the same key.           *)
LEMMA Persist ==
  ASSUME KInv, [Next]_vars, NEW k \in Key, k \in Linked, k \in Linked'
  PROVE  /\ key'[k].kind = key[k].kind /\ key'[k].sdata = key[k].sdata
         /\ key'[k].sta = key[k].sta /\ At(k)' = At(k)
<1>h. Typed /\ key \in KeyTable /\ Works  BY HandTypes
<1>1. CASE Install \/ RekeyAdd
  <2>1. PICK s \in ifaces, a \in Stas \cup {NoSta}, kind \in AnyKind :
    /\ Link(s, a, kind) /\ s \in Ifaces /\ (a # NoSta => s = Home[a] /\ a \notin removed)
    /\ PlaceOf(s, a, kind) \in Place /\ slot[PlaceOf(s, a, kind)] \in Key \cup {NoKey}
    BY <1>1, <1>h, InstallLinks
  <2>2. PICK j \in Key : key[j] = Blank /\ key' = [key EXCEPT ![j] = Alloc(s, a, kind)]
    BY <2>1, LinkMoves
  <2>3. j # k /\ key'[k] = key[k]  BY <1>h, <2>1, <2>2, NewKey
  <2>4. QED BY <2>3 DEF At
<1>2. CASE FreeKey
  <2>1. hand.old \in Linked /\ key' = [key EXCEPT ![hand.old] = Blank]
    BY <1>h, <1>2 DEF FreeKey, Works, Where, Waits, Taking
  <2>2. k # hand.old /\ key'[k] = key[k]  BY <1>h, <2>1, FreedKey
  <2>3. QED BY <2>2 DEF At
<1>3. CASE Ordinary
  <2>1. SameKeys BY <1>3, OrdinaryKeys
  <2>2. QED BY <2>1, SameAt DEF SameKeys
<1>4. QED  BY <1>1, <1>2, <1>3 DEF Next, Operation, Step, Others, Ordinary

(* Only Point changes which keys are in their place, only AddToList and    *)
(* DelFromList which are in a list: each is one step of                    *)
(* ieee80211_key_replace.                                                  *)
LEMMA PlacedKept ==
  ASSUME KInv, [Next]_vars, NEW k \in Key
  PROVE  /\ ~Point => (Placed(k)' <=> Placed(k))
         /\ ~AddToList /\ ~DelFromList => (Listed(k)' <=> Listed(k))
<1>h. /\ Typed /\ hand \in Hand /\ key \in KeyTable /\ Course /\ Works
      /\ hand.old \in Key \cup {NoKey} /\ hand.new \in Key \cup {NoKey}
      /\ hand.batch \subseteq Key /\ NoKey \notin Key /\ hand.op \in Ops
  BY HandTypes DEF KInv
<1>k. Ordinary => (k \in Linked' <=> k \in Linked) BY OrdinaryKeys
<1>g. Free => hand.op = "none" /\ hand.old = NoKey /\ hand.new = NoKey /\ hand.batch = {} /\ Where = "idle"
  BY <1>h DEF Course, Idle, Where, Waits, Free
<1> USE DEF Where, Waits, Waiting, Taking, Off, HandIs
<1>1. CASE Install \/ RekeyAdd
  <2>1. PICK s \in ifaces, a \in Stas \cup {NoSta}, kind \in AnyKind :
    /\ Link(s, a, kind) /\ s \in Ifaces /\ (a # NoSta => s = Home[a] /\ a \notin removed)
    /\ PlaceOf(s, a, kind) \in Place /\ slot[PlaceOf(s, a, kind)] \in Key \cup {NoKey}
    BY <1>1, <1>h, InstallLinks
  <2> PICK old : old = slot[PlaceOf(s, a, kind)]  OBVIOUS
  <2>2. PICK j \in Key :
    /\ Free /\ key[j] = Blank /\ key' = [key EXCEPT ![j] = Alloc(s, a, kind)]
    /\ HandIs("link", "inc", "add", old, j, {})
    BY <2>1, LinkMoves
  <2>3. j \notin Linked /\ (k # j => (k \in Linked' <=> k \in Linked))
    BY <1>h, <2>1, <2>2, NewKey
  <2>4. QED BY <1>g, <2>2, <2>3 DEF Placed, Listed
<1>2. CASE Increment \/ Synchronize \/ Synchronized \/ AddToList
  <2>1. Go("sync") \/ Go("wait") \/ Go(hand.then) \/ Go("point")
    BY <1>2 DEF Increment, Synchronize, Synchronized, AddToList
  <2>2. hand'.new = hand.new /\ hand'.old = hand.old /\ hand'.op = hand.op
        /\ hand'.then = hand.then /\ hand'.batch = hand.batch
    BY <1>h, <2>1, GoMoves DEF Hand, Spots
  <2>3. k \in Linked' <=> k \in Linked BY <1>2, <1>k DEF Ordinary
  <2>4. CASE AddToList
    <3>1. hand.at = "add" /\ hand'.at = "point" /\ hand.op = "link"
      BY <1>h, <2>4, GoMoves, Stands DEF AddToList, Spots
    <3>2. QED BY <2>2, <2>3, <2>4, <3>1 DEF Placed, Listed
  <2>5. CASE ~AddToList
    <3>1. hand.at \in Waits /\ (Go("sync") \/ Go("wait") \/ Go(hand.then))
      BY <1>2, <2>5 DEF Increment, Synchronize, Synchronized
    <3>4. hand'.at \in {"sync", "wait"} \/ hand'.at = hand.then
      BY <1>h, <3>1, GoMoves DEF Hand, Spots
    <3>5. hand.then \notin Waits  BY <1>h, <3>1 DEF Course
    <3>6. Where' = Where  BY <2>2, <3>1, <3>4, <3>5
    <3>7. QED BY <2>2, <2>3, <3>6 DEF Placed, Listed
  <2>6. QED BY <2>4, <2>5
<1>4. CASE IterRemove
  BY <1>h, <1>k, <1>g, <1>4, IterRemoveMoves DEF Placed, Listed, Ordinary
<1>5. CASE FreeKeys
  BY <1>h, <1>k, <1>g, <1>5, FreeKeysMoves DEF Placed, Listed, Ordinary
<1>6. CASE FreeStaKeys
  BY <1>h, <1>k, <1>g, <1>6, FreeStaKeysMoves DEF Placed, Listed, Ordinary
<1>7. CASE Resume
  BY <1>h, <1>k, <1>g, <1>7, ResumeMoves DEF Resume, Placed, Listed, Ordinary
<1>13. CASE Point
  <2>1. hand.at = "point" /\ Go(IF hand.old = NoKey THEN "accel" ELSE "del")
    BY <1>13 DEF Point
  <2>2. hand'.at \in {"accel", "del"} BY <1>h, <2>1, GoMoves DEF Spots
  <2>3. hand.op = "link" => Listed(k) = (k \in Linked /\ ~(hand.op = "freekeys" /\ k \in hand.batch))
    BY <2>1 DEF Listed
  <2>4. CASE hand.old = NoKey
    BY <1>h, <1>k, <1>13, <2>1, <2>4, GoMoves DEF Spots, Listed, Ordinary
  <2>5. CASE hand.old # NoKey
    BY <1>h, <1>k, <1>13, <2>1, <2>5, GoMoves DEF Spots, Listed, Ordinary
  <2>6. QED BY <1>13, <2>4, <2>5
<1>14. CASE DelFromList
  <2>1. hand.at = "del" /\ hand.old \in Key
    BY <1>h, <1>14 DEF DelFromList, Works, Linked
  <2>o. hand.op \in {"link", "fail", "remove", "freekeys", "freesta"}
    BY <1>h, <2>1, Stands
  <2>k. k \in Linked' <=> k \in Linked BY <1>14, <1>k DEF Ordinary
  <2>2. CASE hand.op = "freekeys"
    BY <1>h, <1>14, <2>1, <2>2, <2>k, DelMoves DEF Placed
  <2>3. CASE hand.op = "freesta"
    BY <1>h, <1>14, <2>1, <2>3, <2>k, DelMoves DEF Placed
  <2>4. CASE hand.op \notin {"freekeys", "freesta"}
    BY <1>h, <1>14, <2>1, <2>k, <2>o, <2>4, DelMoves DEF Placed
  <2>5. QED  BY <1>14, <2>2, <2>3, <2>4
<1>15. CASE Disable
  BY <1>h, <1>k, <1>15, DisableMoves DEF Disable, Placed, Listed, Ordinary
<1>16. CASE ClearUploaded
  BY <1>h, <1>k, <1>16, GoMoves DEF ClearUploaded, Placed, Listed, Ordinary, Spots
<1>17. CASE Settle
  BY <1>h, <1>k, <1>17, GoMoves DEF Settle, Placed, Listed, Ordinary, Spots
<1>18. CASE FreeKey
  <2>1. /\ hand.at = "free" /\ hand.old \in Linked
        /\ key' = [key EXCEPT ![hand.old] = Blank]
    BY <1>h, <1>18 DEF FreeKey, Works
  <2>2. /\ hand.old \notin Linked'
        /\ (k # hand.old => (k \in Linked' <=> k \in Linked))
     BY <1>h, <2>1, FreedKey
  <2>3. CASE hand.op \in {"fail", "remove"}
    BY <1>h, <1>18, <2>1, <2>2, <2>3, FreeKeyMoves, IdleIs DEF Placed, Listed
  <2>4. CASE hand.op = "link"
    BY <1>h, <1>18, <2>1, <2>2, <2>4, FreeKeyMoves DEF Placed, Listed, Works
  <2>5. CASE hand.op \in {"freekeys", "freesta"}
    BY <1>h, <1>18, <2>1, <2>2, <2>5, FreeKeyMoves DEF Placed, Listed, Works
  <2>6. QED BY <1>h, <2>1, <2>3, <2>4, <2>5, Stands
<1>19. CASE Flush
  BY <1>h, <1>k, <1>19, GoMoves, Stands DEF Placed, Listed, Ordinary, Flush, Spots
<1>20. CASE UnlinkKey
  <2>1. hand.at = "unlink" /\ hand.op = "freekeys"
    BY <1>h, <1>20, Stands DEF UnlinkKey
  <2>2. hand.on \in Ifaces  BY <2>1 DEF KInv, Emptied
  <2>k. k \in Linked' <=> k \in Linked BY <1>20, <1>k DEF Ordinary
  <2>5. QED  BY <1>h, <1>20, <2>1, <2>2, <2>k, UnlinkKeyMoves DEF Placed, Listed
<1>21. CASE UnlinkNext
  BY <1>h, <1>k, <1>21, UnlinkNextMoves, Stands
    DEF Placed, Listed, Ordinary, UnlinkNext
<1>22. CASE UnlinkEnd
  <2>1. hand.at = "unlink" /\ hand.op = "freekeys"
    BY <1>h, <1>22, Stands DEF UnlinkEnd
  <2>2. Grace("next") \/ Go("next") BY <1>22 DEF UnlinkEnd
  <2>k. k \in Linked' <=> k \in Linked BY <1>22, <1>k DEF Ordinary
  <2>4. QED
    BY <1>h, <2>1, <2>2, <2>k, GoMoves, GraceMoves DEF Placed, Listed, Spots
<1>23. CASE NextKey
  <2>1. hand.at = "next" /\ hand.op \in {"freekeys", "freesta", "resume"}
    BY <1>h, <1>23, Stands DEF NextKey
  <2>k. k \in Linked' <=> k \in Linked BY <1>23, <1>k DEF Ordinary
  <2>2. CASE hand.op = "freekeys"
    BY <1>h, <1>23, <2>1, <2>k, <2>2, NextKeyMoves DEF Placed, Listed
  <2>3. CASE hand.op = "freesta"
    BY <1>h, <1>23, <2>1, <2>k, <2>3, NextKeyMoves DEF Placed, Listed
  <2>4. CASE hand.op = "resume"
    BY <1>h, <1>23, <2>1, <2>k, <2>4, NextKeyMoves DEF Placed, Listed
  <2>5. QED  BY <2>1, <2>2, <2>3, <2>4
<1>24. CASE LastKey
  BY <1>h, <1>k, <1>24, IdleIs DEF Placed, Listed, LastKey, Ordinary
<1>25. CASE LinkEnds
  BY <1>h, <1>k, <1>25, UploadedMoves, IdleIs
    DEF Placed, Listed, LinkEnds, Ordinary
<1>26. CASE Accelerate
  <2>1. hand.at = "accel" /\ Uploaded /\ hand.op \in {"link", "resume"}
    BY <1>h, <1>26, Stands DEF Accelerate, Uploading
  <2>2. QED
    BY <1>h, <1>k, <1>26, <2>1, UploadedMoves, IdleIs DEF Placed, Listed, Ordinary
<1>27. CASE NotAccelerated
  <2>1. hand.at = "accel" /\ hand.new \in Key /\ hand.op \in {"link", "resume"}
    BY <1>h, <1>27, Stands DEF NotAccelerated, Uploading, Works
  <2>2. CASE Uploaded
    BY <1>h, <1>k, <1>27, <2>1, <2>2, UploadedMoves, IdleIs
      DEF Placed, Listed, Ordinary
  <2>3. CASE /\ hand.op = "link"
             /\ hand' = [hand EXCEPT !.op = "fail", !.at = "point", !.old = hand.new, !.new = NoKey]
    BY <1>h, <1>k, <1>27, <2>1, <2>3, RefusedMoves DEF Placed, Listed, Ordinary
  <2>4. QED BY <1>27, <2>2, <2>3 DEF NotAccelerated
<1>28. CASE Quiet
  <2>1. hand' = hand BY <1>28, QuietHand
  <2>2. QED BY <1>k, <1>28, <2>1 DEF Placed, Listed, Quiet, Ordinary
<1>37. QED
  BY <1>1, <1>2, <1>4, <1>5, <1>6, <1>7, <1>13, <1>14, <1>15, <1>16, <1>17, <1>18,
      <1>19, <1>20, <1>21, <1>22, <1>23, <1>24, <1>25, <1>26, <1>27, <1>28
    DEF Next, Operation, Step, Others, Quiet

(* Nor do other steps change the places ...                                *)
LEMMA SlotKept == ASSUME [Next]_vars, ~Point PROVE slot' = slot
BY DEF Next, Operation, Step, Others, vars, Install, RekeyAdd, Link, SetDefault,
    IterRemove, RemoveKey, FreeKeys, FreeStaKeys, Resume, DelayedDec, Increment,
    Synchronize, Synchronized, AddToList, DelFromList, Disable, ClearUploaded,
    Settle, FreeKey, Flush, UnlinkKey, UnlinkNext, UnlinkEnd, NextKey, LastKey,
    LinkEnds, Accelerate, NotAccelerated, Suspend, Taint, StaLeaves, StaReturns,
    Begin, Select, Visit, End

(* ... the lists ...                                                       *)
LEMMA ListKept == ASSUME [Next]_vars, ~AddToList, ~DelFromList PROVE list' = list
BY DEF Next, Operation, Step, Others, vars, Install, RekeyAdd, Link, SetDefault,
    IterRemove, RemoveKey, FreeKeys, FreeStaKeys, Resume, DelayedDec, Increment,
    Synchronize, Synchronized, Point, Disable, ClearUploaded, Settle, FreeKey,
    Flush, UnlinkKey, UnlinkNext, UnlinkEnd, NextKey, LastKey, LinkEnds, Accelerate,
    NotAccelerated, Suspend, Taint, StaLeaves, StaReturns, Begin, Select, Visit, End

(* ... or the defaults.                                                    *)
LEMMA DefKept == ASSUME [Next]_vars, ~Point, ~SetDefault PROVE def' = def
BY DEF Next, Operation, Step, Others, vars, Install, RekeyAdd, Link, IterRemove,
    RemoveKey, FreeKeys, FreeStaKeys, Resume, DelayedDec, Increment, Synchronize,
    Synchronized, AddToList, DelFromList, Disable, ClearUploaded, Settle, FreeKey,
    Flush, UnlinkKey, UnlinkNext, UnlinkEnd, NextKey, LastKey, LinkEnds, Accelerate,
    NotAccelerated, Suspend, Taint, StaLeaves, StaReturns, Begin, Select, Visit, End

(* The lists have the keys they should have.                               *)
LEMMA ListsStep ==
  ASSUME KInv, [Next]_vars PROVE ListsRight'
<1>h. /\ Typed /\ hand \in Hand /\ key \in KeyTable /\ Course /\ Works /\ ListsRight
      /\ hand.old \in Key \cup {NoKey} /\ hand.new \in Key \cup {NoKey} /\ NoKey \notin Key
      /\ list \in [Ifaces -> SUBSET Key]
  BY HandTypes DEF KInv, Typed
<1>l. Linked \subseteq Key BY DEF Linked
<1>1. CASE AddToList
  <2>1. /\ hand.at = "add" /\ hand.op = "link" /\ hand.new \in Linked
        /\ key' = key /\ list' = [list EXCEPT ![key[hand.new].sdata] = @ \cup {hand.new}]
    BY <1>h, <1>1, Stands DEF AddToList, Works
  <2>2. HandIs("link", "point", hand.then, hand.old, hand.new, hand.batch)
    BY <1>h, <1>1, <2>1, GoMoves DEF AddToList, Spots
  <2>3. \A k \in Key : Listed(k)' <=> Listed(k) \/ k = hand.new
    BY <1>l, <2>1, <2>2 DEF HandIs, Listed, Where, Waits, Off, Taking, Linked
  <2>4. key[hand.new].sdata \in Ifaces BY <1>h, <2>1, LinkedRecord DEF KeyRecord
  <2>5. \A s \in Ifaces : list'[s] = IF s = key[hand.new].sdata THEN list[s] \cup {hand.new} ELSE list[s]
    BY <1>h, <2>1, <2>4
  <2>6. QED BY <1>h, <2>1, <2>3, <2>5 DEF ListsRight
<1>2. CASE DelFromList
  <2>1. /\ hand.at = "del" /\ hand.old \in Linked /\ hand.old \in Key
        /\ key' = key /\ list' = [list EXCEPT ![key[hand.old].sdata] = @ \ {hand.old}]
    BY <1>h, <1>2 DEF DelFromList, Works, Where, Waits, Taking
  <2>2. hand.op \in {"link", "fail", "remove", "freekeys", "freesta"}
    BY <1>h, <2>1, Stands DEF Taking
  <2>k. ASSUME NEW k \in Key PROVE Listed(k)' <=> Listed(k) /\ k # hand.old
    <3>1. k \in Linked' <=> k \in Linked BY <2>1 DEF Linked
    <3>2. CASE hand.op = "freekeys"
      BY <1>h, <1>2, <2>1, <3>1, <3>2, DelMoves
        DEF HandIs, Listed, Where, Waits, Off, Taking
    <3>3. CASE hand.op = "freesta"
      BY <1>h, <1>2, <2>1, <3>1, <3>3, DelMoves
        DEF HandIs, Listed, Where, Waits, Off, Taking
    <3>4. CASE hand.op \in {"link", "fail", "remove"}
      BY <1>h, <1>2, <2>1, <3>1, <3>4, DelMoves
        DEF HandIs, Listed, Where, Waits, Off, Taking
    <3>5. QED BY <2>2, <3>2, <3>3, <3>4
  <2>4. key[hand.old].sdata \in Ifaces BY <1>h, <2>1, LinkedRecord DEF KeyRecord
  <2>5. \A s \in Ifaces : list'[s] = IF s = key[hand.old].sdata THEN list[s] \ {hand.old} ELSE list[s]
    BY <1>h, <2>1, <2>4
  <2>6. QED BY <1>h, <2>1, <2>k, <2>5 DEF ListsRight
<1>3. CASE ~AddToList /\ ~DelFromList
  <2>1. list' = list BY <1>3, ListKept
  <2>2. ASSUME NEW s \in Ifaces, NEW k \in Key
        PROVE k \in list'[s] <=> Listed(k)' /\ key'[k].sdata = s
    <3>1. Listed(k)' <=> Listed(k) BY <1>3, PlacedKept
    <3>2. CASE Listed(k)
      <4>1. k \in Linked /\ k \in Linked' BY <3>1, <3>2 DEF Listed
      <4>2. key'[k].sdata = key[k].sdata BY <4>1, Persist
      <4>3. QED BY <1>h, <2>1, <3>1, <4>2 DEF ListsRight
    <3>3. CASE ~Listed(k) BY <1>h, <2>1, <3>1, <3>3 DEF ListsRight
    <3>4. QED BY <3>2, <3>3
  <2>3. QED BY <2>2 DEF ListsRight
<1>4. QED BY <1>1, <1>2, <1>3

(* Point: the place had the old key, and the new one is of the same place. *)
LEMMA PointPlaces ==
  ASSUME KInv, Point
  PROVE  LET k == IF hand.old = NoKey THEN hand.new ELSE hand.old IN
    /\ k \in Linked /\ At(k) \in Place /\ slot[At(k)] = hand.old
    /\ hand.new # NoKey => hand.new \in Linked /\ At(hand.new) = At(k) /\ ~Placed(hand.new)
    /\ \A j \in Key : Placed(j)' <=> (Placed(j) /\ j # hand.old) \/ j = hand.new
    /\ key' = key
<1>h. /\ Typed /\ hand \in Hand /\ key \in KeyTable /\ Course /\ Works
      /\ hand.old \in Key \cup {NoKey} /\ hand.new \in Key \cup {NoKey} /\ NoKey \notin Key
      /\ Homes /\ Swap /\ SlotsRight
  BY HandTypes DEF KInv, Typed
<1>l. Linked \subseteq Key BY DEF Linked
<1>1. /\ hand.at = "point" /\ Go(IF hand.old = NoKey THEN "accel" ELSE "del") /\ key' = key
  BY DEF Point
<1>2. hand.op \in {"link", "fail", "remove", "freekeys", "freesta"}
  BY <1>h, <1>1, Stands
<1>3. HandIs(hand.op, IF hand.old = NoKey THEN "accel" ELSE "del", hand.then, hand.old, hand.new, hand.batch)
  BY <1>h, <1>1, GoMoves DEF Spots
<1>4. ASSUME NEW j \in Key PROVE Placed(j)' <=> (Placed(j) /\ j # hand.old) \/ j = hand.new
  <2>1. j \in Linked' <=> j \in Linked BY <1>1 DEF Linked
  <2>2. QED
    BY <1>h, <1>1, <1>2, <1>3, <2>1
      DEF HandIs, Placed, Where, Waits, Taking, Works
<1>5. CASE hand.op = "link"
  <2>1. /\ hand.new \in Linked /\ ~Placed(hand.new) /\ At(hand.new) \in Place
        /\ slot[At(hand.new)] = hand.old
    BY <1>h, <1>1, <1>5 DEF Works, Where, Waits, Placed, Homes, Swap
  <2>2. hand.old # NoKey => hand.old \in Linked /\ At(hand.old) = At(hand.new)
    BY <1>h, <2>1 DEF Works, SlotsRight
  <2>3. QED BY <1>h, <1>1, <1>4, <2>1, <2>2
<1>6. CASE hand.op # "link"
  <2>1. hand.old # NoKey /\ hand.old \in Linked /\ hand.new = NoKey
    BY <1>h, <1>1, <1>2, <1>6 DEF Works, Where, Waits
  <2>2. Placed(hand.old)
    BY <1>h, <1>1, <1>6, <2>1 DEF Placed, Works, Where, Waits, Taking
  <2>3. slot[At(hand.old)] = hand.old /\ At(hand.old) \in Place
    BY <1>h, <1>l, <2>1, <2>2 DEF SlotsRight, Homes
  <2>4. QED BY <1>h, <1>1, <1>4, <2>1, <2>3
<1>7. QED BY <1>5, <1>6

(* The places have the keys they should have.                              *)
LEMMA SlotsStep ==
  ASSUME KInv, [Next]_vars PROVE SlotsRight'
<1>h. /\ Typed /\ NoKey \notin Key /\ SlotsRight /\ slot \in [Place -> Key \cup {NoKey}]
      /\ hand.old \in Key \cup {NoKey} /\ hand.new \in Key \cup {NoKey}
  BY HandTypes DEF KInv, Typed
<1>l. Linked \subseteq Key BY DEF Linked
<1>1. CASE Point
  <2> DEFINE k == IF hand.old = NoKey THEN hand.new ELSE hand.old
  <2>0. PICK q : q = At(k) OBVIOUS
  <2>1. /\ q \in Place /\ slot[q] = hand.old
        /\ hand.new # NoKey => hand.new \in Linked /\ At(hand.new) = q /\ ~Placed(hand.new)
        /\ \A j \in Key : Placed(j)' <=> (Placed(j) /\ j # hand.old) \/ j = hand.new
        /\ key' = key
    BY <1>1, <2>0, PointPlaces
  <2>2. slot' = [slot EXCEPT ![q] = hand.new] BY <1>1, <2>0 DEF Point
  <2>3. \A p \in Place : slot'[p] = IF p = q THEN hand.new ELSE slot[p]
    BY <1>h, <2>1, <2>2
  <2>4. \A j : At(j)' = At(j) BY <2>1 DEF At
  <2> HIDE DEF k
  <2>5. ASSUME NEW p \in Place, NEW x, x = slot'[p], x # NoKey PROVE Placed(x)' /\ At(x)' = p
    <3>1. CASE p = q
      <4>1. x = hand.new BY <2>3, <2>5, <3>1
      <4>2. QED BY <1>h, <1>l, <2>1, <2>4, <2>5, <3>1, <4>1
    <3>2. CASE p # q
      <4>1. x = slot[p] BY <2>3, <2>5, <3>2
      <4>2. Placed(x) /\ At(x) = p /\ x \in Key BY <1>h, <2>5, <4>1 DEF SlotsRight
      <4>3. x # hand.old BY <1>h, <2>1, <2>5, <3>2, <4>1, <4>2 DEF SlotsRight
      <4>4. Placed(x)' BY <2>1, <4>2, <4>3
      <4>5. QED BY <2>4, <4>2, <4>4
    <3>3. QED BY <3>1, <3>2
  <2>6. ASSUME NEW j \in Key, Placed(j)' PROVE slot'[At(j)'] = j
    <3>1. CASE j = hand.new
      <4>1. At(j) = q BY <1>h, <2>1, <3>1
      <4>2. QED BY <2>1, <2>3, <2>4, <3>1, <4>1
    <3>2. CASE j # hand.new
      <4>1. Placed(j) /\ j # hand.old BY <2>1, <2>6, <3>2
      <4>2. slot[At(j)] = j BY <1>h, <4>1 DEF SlotsRight
      <4>3. At(j) \in Place BY <4>1 DEF KInv, Homes, Placed
      <4>4. At(j) # q BY <2>1, <4>1, <4>2
      <4>5. QED BY <2>3, <2>4, <4>2, <4>3, <4>4
    <3>3. QED BY <3>1, <3>2
  <2>7. QED BY <2>5, <2>6 DEF SlotsRight, Placed, At
<1>2. CASE ~Point
  <2>1. slot' = slot BY <1>2, SlotKept
  <2>2. ASSUME NEW j \in Key, Placed(j) PROVE Placed(j)' /\ At(j)' = At(j)
    <3>1. Placed(j)' BY <1>2, <2>2, PlacedKept
    <3>2. j \in Linked /\ j \in Linked' BY <2>2, <3>1 DEF Placed
    <3>3. QED BY <3>1, <3>2, Persist
  <2>3. ASSUME NEW p \in Place, NEW x, x = slot'[p], x # NoKey PROVE Placed(x)' /\ At(x)' = p
    <3>1. x \in Key /\ Placed(x) /\ At(x) = p  BY <1>h, <2>1, <2>3 DEF SlotsRight
    <3>2. QED BY <2>2, <3>1
  <2>4. ASSUME NEW j \in Key, Placed(j)' PROVE slot'[At(j)'] = j
    <3>1. Placed(j) BY <1>2, <2>4, PlacedKept
    <3>2. QED BY <1>h, <2>1, <2>2, <3>1 DEF SlotsRight
  <2>5. QED BY <2>3, <2>4 DEF SlotsRight, Placed, At
<1>3. QED BY <1>1, <1>2

(* A default is a key in a place of its interface: it follows its key when *)
(* that is replaced, and is cleared when it is taken off (key.c:345-371).  *)
LEMMA DefsStep ==
  ASSUME KInv, [Next]_vars PROVE DefsRight'
<1>h. /\ Typed /\ NoKey \notin Key /\ SlotsRight /\ DefsRight /\ def \in DefaultTable
      /\ hand.old \in Key \cup {NoKey} /\ hand.new \in Key \cup {NoKey}
  BY HandTypes DEF KInv, Typed, DefaultTable
<1>l. Linked \subseteq Key BY DEF Linked
<1>1. CASE SetDefault
  <2>1. PICK s \in ifaces : \E i, which : Appoint(s, which, DefaultKey(s, i, which))
    BY <1>1 DEF SetDefault
  <2>2. PICK i, which : Appoint(s, which, DefaultKey(s, i, which))  BY <2>1
  <2>0. PICK new : new = DefaultKey(s, i, which) OBVIOUS
  <2>3. /\ s \in Ifaces /\ new \in Key \cup {NoKey}
        /\ new # NoKey => \E p \in Place : p.sdata = s /\ p.sta = NoSta /\ slot[p] = new
    BY <1>h, <2>0, IfacesOf, DefaultKeyOf
  <2>4. \A t \in Ifaces, w \in Defaults :
              def'[t][w] = IF t = s /\ w \in which THEN new ELSE def[t][w]
    BY <1>h, <2>0, <2>2, <2>3, Appointed
  <2>5. new # NoKey => Placed(new) /\ key[new].sdata = s /\ key[new].sta = NoSta
    <3>1. SUFFICES ASSUME new # NoKey PROVE Placed(new) /\ key[new].sdata = s /\ key[new].sta = NoSta
      OBVIOUS
    <3>2. PICK p \in Place : p.sdata = s /\ p.sta = NoSta /\ slot[p] = new
      BY <2>3, <3>1
    <3>3. Placed(new) /\ At(new) = p BY <1>h, <3>1, <3>2 DEF SlotsRight
    <3>4. QED BY <3>2, <3>3 DEF At, PlaceOf
  <2>6. ASSUME NEW t \in Ifaces, NEW w \in Defaults, NEW x, x = def'[t][w], x # NoKey
        PROVE  Placed(x)' /\ key'[x].sdata = t /\ key'[x].sta = NoSta
    <3>1. Placed(x) /\ key[x].sdata = t /\ key[x].sta = NoSta
      BY <1>h, <2>4, <2>5, <2>6 DEF DefsRight
    <3>2. ~Point BY <1>1 DEF SetDefault, Point, Free
    <3>3. x \in Key /\ key' = key BY <1>1, <3>1 DEF Placed, Linked, SetDefault
    <3>4. QED BY <3>1, <3>2, <3>3, PlacedKept
  <2>7. QED BY <2>6 DEF DefsRight, Placed
<1>2. CASE Point
  <2> DEFINE k == IF hand.old = NoKey THEN hand.new ELSE hand.old
  <2>1. /\ k \in Linked /\ slot[At(k)] = hand.old
        /\ hand.new # NoKey => hand.new \in Linked /\ At(hand.new) = At(k)
        /\ \A j \in Key : Placed(j)' <=> (Placed(j) /\ j # hand.old) \/ j = hand.new
        /\ key' = key
    BY <1>2, PointPlaces
  <2>2. PICK s : s = key[k].sdata OBVIOUS
  <2>3. PICK which : which = {w \in Defaults : def[s][w] = hand.old} OBVIOUS
  <2>4. \/ def' = def /\ (key[k].sta # NoSta \/ hand.old = NoKey)
        \/ Appoint(s, which, hand.new) /\ key[k].sta = NoSta /\ hand.old # NoKey
    BY <1>2, <2>2, <2>3 DEF Point
  <2>5. s \in Ifaces
    BY <1>h, <2>1, <2>2, LinkedRecord DEF Typed, KeyTable, KeyRecord
  <2>6. hand.new # NoKey => key[hand.new].sdata = s /\ key[hand.new].sta = key[k].sta
    BY <2>1, <2>2 DEF At, PlaceOf
  <2>7. ASSUME NEW t \in Ifaces, NEW w \in Defaults, NEW x, x = def'[t][w], x # NoKey
        PROVE  Placed(x)' /\ key'[x].sdata = t /\ key'[x].sta = NoSta
    <3>1. CASE def' = def /\ (key[k].sta # NoSta \/ hand.old = NoKey)
      <4>1. Placed(x) /\ key[x].sdata = t /\ key[x].sta = NoSta
        BY <1>h, <2>7, <3>1 DEF DefsRight
      <4>2. x \in Key BY <4>1 DEF Placed, Linked
      <4>3. x # hand.old BY <1>h, <3>1, <4>1, <4>2
      <4>4. QED BY <2>1, <4>1, <4>2, <4>3
    <3>2. CASE Appoint(s, which, hand.new) /\ key[k].sta = NoSta /\ hand.old # NoKey
      <4>1. def'[t][w] = IF t = s /\ w \in which THEN hand.new ELSE def[t][w]
        BY <1>h, <2>5, <3>2, Appointed
      <4>2. CASE t = s /\ def[t][w] = hand.old
        <5>1. x = hand.new BY <2>3, <2>7, <4>1, <4>2
        <5>2. QED BY <1>l, <2>1, <2>6, <2>7, <3>2, <4>2, <5>1
      <4>3. CASE ~(t = s /\ def[t][w] = hand.old)
        <5>1. x = def[t][w] BY <2>3, <2>7, <4>1, <4>3
        <5>2. Placed(x) /\ key[x].sdata = t /\ key[x].sta = NoSta
          BY <1>h, <2>7, <5>1 DEF DefsRight
        <5>3. x \in Key BY <5>2 DEF Placed, Linked
        <5>4. x # hand.old BY <2>2, <3>2, <4>3, <5>1, <5>2
        <5>5. QED BY <2>1, <5>2, <5>3, <5>4
      <4>4. QED BY <4>2, <4>3
    <3>3. QED BY <2>4, <3>1, <3>2
  <2>8. QED BY <2>7 DEF DefsRight, Placed
<1>3. CASE ~Point /\ ~SetDefault
  <2>1. def' = def BY <1>3, DefKept
  <2>2. ASSUME NEW t \in Ifaces, NEW w \in Defaults, NEW x, x = def'[t][w], x # NoKey
        PROVE  Placed(x)' /\ key'[x].sdata = t /\ key'[x].sta = NoSta
    <3>1. Placed(x) /\ key[x].sdata = t /\ key[x].sta = NoSta
      BY <1>h, <2>1, <2>2 DEF DefsRight
    <3>2. x \in Key BY <3>1 DEF Placed, Linked
    <3>3. Placed(x)' BY <1>3, <3>1, <3>2, PlacedKept
    <3>4. x \in Linked /\ x \in Linked' BY <3>1, <3>3 DEF Placed
    <3>5. QED BY <3>1, <3>2, <3>3, <3>4, Persist
  <2>3. QED BY <2>2 DEF DefsRight, Placed
<1>4. QED BY <1>1, <1>2, <1>3

(* ieee80211_free_keys takes keys off the interface it stands at.          *)
LEMMA EmptiedStep ==
  ASSUME KInv, [Next]_vars PROVE Emptied'
<1>h. /\ Typed /\ hand \in Hand /\ key \in KeyTable /\ Course /\ Works /\ Emptied
      /\ hand.old \in Key \cup {NoKey} /\ hand.new \in Key \cup {NoKey}
      /\ hand.batch \subseteq Key /\ NoKey \notin Key /\ hand.op \in Ops
  BY HandTypes DEF KInv
<1> USE DEF Where, Waits, Waiting, Taking, Off, HandIs
<1>1. CASE hand'.op # "freekeys"  BY <1>1 DEF Emptied
<1>2. CASE hand'.op = "freekeys" /\ Free
  <2>1. CASE FreeKeys BY <1>h, <2>1, FreeKeysMoves, IfacesOf DEF Emptied
  <2>2. CASE Install \/ RekeyAdd
    <3>1. PICK s \in ifaces, a \in Stas \cup {NoSta}, kind \in AnyKind :
      /\ Link(s, a, kind) /\ s \in Ifaces /\ (a # NoSta => s = Home[a] /\ a \notin removed)
      /\ PlaceOf(s, a, kind) \in Place /\ slot[PlaceOf(s, a, kind)] \in Key \cup {NoKey}
      BY <2>2, <1>h, InstallLinks
    <3>2. QED BY <1>2, <3>1, LinkMoves
  <2>3. CASE IterRemove BY <1>h, <1>2, <2>3, IterRemoveMoves
  <2>4. CASE FreeStaKeys BY <1>h, <1>2, <2>4, FreeStaKeysMoves
  <2>5. CASE Resume BY <1>h, <1>2, <2>5, ResumeMoves
  <2>6. CASE Quiet
    <3>1. hand' = hand BY <2>6, QuietHand
    <3>2. QED BY <1>h, <1>2, <3>1 DEF Course, Idle
  <2>7. CASE Step
    <3>1. FALSE
      BY <1>2, <2>7
        DEF Step, Free, Increment, Synchronize, Synchronized, AddToList, Point,
            DelFromList, Disable, ClearUploaded, Settle, FreeKey, Flush, UnlinkKey,
            UnlinkNext, UnlinkEnd, NextKey, LastKey, LinkEnds, Accelerate,
            NotAccelerated, Uploading
    <3>2. QED BY <3>1
  <2>8. QED
    BY <2>1, <2>2, <2>3, <2>4, <2>5, <2>6, <2>7
      DEF Next, Operation, Step, Others, Quiet
<1>3. CASE hand'.op = "freekeys" /\ ~Free
  <2>i. ~(Install \/ RekeyAdd \/ IterRemove \/ FreeKeys \/ FreeStaKeys \/ Resume)
    BY <1>3
      DEF Install, RekeyAdd, Link, IterRemove, RemoveKey, FreeKeys, FreeStaKeys,
          Resume
  <2>1. CASE Increment \/ Synchronize \/ Synchronized \/ AddToList
    <3>1. Go("sync") \/ Go("wait") \/ Go(hand.then) \/ Go("point")
      BY <2>1 DEF Increment, Synchronize, Synchronized, AddToList
    <3>2. /\ hand'.old = hand.old /\ hand'.op = hand.op /\ hand'.on = hand.on
          /\ hand'.then = hand.then
      BY <1>h, <3>1, GoMoves DEF Hand, Spots
    <3>3. ~AddToList BY <1>h, <1>3, <3>2, Stands DEF AddToList
    <3>4. hand.at \in Waits /\ (Go("sync") \/ Go("wait") \/ Go(hand.then))
      BY <2>1, <3>3 DEF Increment, Synchronize, Synchronized
    <3>5. hand'.at \in {"sync", "wait"} \/ hand'.at = hand.then
      BY <1>h, <3>4, GoMoves DEF Hand, Spots
    <3>6. Where' = Where  BY <1>h, <3>2, <3>4, <3>5 DEF Course
    <3>7. key' = key BY <2>1 DEF Increment, Synchronize, Synchronized, AddToList
    <3>8. QED BY <1>h, <1>3, <3>2, <3>6, <3>7 DEF Emptied
  <2>2. CASE Point
    <3>1. hand.at = "point" /\ key' = key /\ Go(IF hand.old = NoKey THEN "accel" ELSE "del")
      BY <2>2 DEF Point
    <3>2. hand'.op = hand.op /\ hand'.old = hand.old /\ hand'.on = hand.on
      BY <1>h, <3>1, GoMoves DEF Spots
    <3>3. QED BY <1>h, <1>3, <3>1, <3>2 DEF Emptied
  <2>3. CASE DelFromList
    <3>1. hand.at = "del" /\ hand.old \in Key
      BY <1>h, <2>3 DEF DelFromList, Works, Linked
    <3>2. QED BY <1>h, <1>3, <2>3, <3>1, DelMoves DEF Emptied
  <2>4. CASE Disable BY <1>h, <1>3, <2>4, DisableMoves DEF Emptied
  <2>5. CASE ClearUploaded
    BY <1>h, <1>3, <2>5, GoMoves DEF Emptied, ClearUploaded, Spots
  <2>6. CASE Settle BY <1>h, <1>3, <2>6, GoMoves DEF Emptied, Settle, Spots
  <2>7. CASE FreeKey BY <1>h, <1>3, <2>7, FreeKeyMoves, IdleIs DEF Emptied
  <2>8. CASE Flush BY <1>h, <1>3, <2>8, GoMoves DEF Emptied, Flush, Spots
  <2>9. CASE UnlinkKey
    <3>1. hand.at = "unlink" /\ hand.op = "freekeys"
      BY <1>h, <2>9, Stands DEF UnlinkKey
    <3>2. hand.on \in Ifaces  BY <3>1 DEF KInv, Emptied
    <3>3. PICK k \in list[hand.on] :
           /\ k \in Key /\ HandIs(hand.op, "point", hand.then, k, hand.new, hand.batch)
           /\ hand'.on = hand.on
      BY <1>h, <2>9, <3>2, UnlinkKeyMoves
    <3>4. key[k].sdata = hand.on /\ key' = key
      BY <2>9, <3>2, <3>3 DEF KInv, ListsRight, UnlinkKey
    <3>5. QED BY <3>2, <3>3, <3>4 DEF Emptied
  <2>10. CASE UnlinkNext BY <1>h, <1>3, <2>10, UnlinkNextMoves DEF Emptied
  <2>11. CASE UnlinkEnd
    <3>1. hand.at = "unlink" /\ hand.op = "freekeys"
      BY <1>h, <2>11, Stands DEF UnlinkEnd
    <3>2. Grace("next") \/ Go("next") BY <2>11 DEF UnlinkEnd
    <3>3. QED BY <1>h, <3>1, <3>2, GoMoves, GraceMoves DEF Emptied, Spots
  <2>12. CASE NextKey
    <3>1. hand.op \in {"freekeys", "freesta", "resume"}
      BY <1>h, <2>12, Stands DEF NextKey
    <3>2. QED BY <1>h, <1>3, <2>12, <3>1, NextKeyMoves DEF Emptied
  <2>13. CASE LastKey \/ LinkEnds \/ Accelerate
    <3>1. CASE LastKey BY <1>3, <3>1, IdleIs DEF LastKey
    <3>2. CASE LinkEnds \/ Accelerate
      <4>1. hand.at = "accel" /\ Uploaded
        BY <3>2 DEF LinkEnds, Accelerate, Uploading
      <4>2. hand.op \in {"link", "resume"} BY <1>h, <4>1, Stands
      <4>3. QED BY <1>h, <1>3, <4>1, <4>2, UploadedMoves, IdleIs
    <3>3. QED BY <2>13, <3>1, <3>2
  <2>14. CASE NotAccelerated
    <3>1. hand.at = "accel" /\ hand.new \in Key /\ hand.op \in {"link", "resume"}
      BY <1>h, <2>14, Stands DEF NotAccelerated, Uploading, Works
    <3>2. CASE Uploaded BY <1>h, <1>3, <3>1, <3>2, UploadedMoves, IdleIs
    <3>3. CASE hand' = [hand EXCEPT !.op = "fail", !.at = "point", !.old = hand.new, !.new = NoKey]
      BY <1>h, <1>3, <3>1, <3>3, RefusedMoves
    <3>4. QED BY <2>14, <3>2, <3>3 DEF NotAccelerated
  <2>15. CASE Quiet
    <3>1. hand' = hand BY <2>15, QuietHand
    <3>2. key' = key
      BY <1>3, <2>15
        DEF Quiet, SetDefault, DelayedDec, Suspend, Taint, StaLeaves, StaReturns,
            Begin, Select, Visit, End, vars
    <3>3. QED BY <1>h, <3>1, <3>2 DEF Emptied
  <2>16. QED
    BY <2>i, <2>1, <2>2, <2>3, <2>4, <2>5, <2>6, <2>7, <2>8, <2>9, <2>10, <2>11,
        <2>12, <2>13, <2>14, <2>15
      DEF Next, Operation, Step, Others, Quiet
<1>4. QED BY <1>1, <1>2, <1>3

(***************************************************************************)
(* Keys: readers.                                                          *)
(***************************************************************************)
(* What a step does to a reader that is in after it: it comes in, or it    *)
(* keeps the room it found and chooses a key or steps to one.              *)
Begins(r) == /\ Begin /\ sleep = "awake" /\ reader'[r].at = "in" /\ reader'[r].key = NoKey
             /\ reader'[r].on \in Ifaces /\ reader'[r].room = (needed[reader'[r].on] > 0)

SameRoom(r) == reader'[r].on = reader[r].on /\ reader'[r].room = reader[r].room

Selects(r) ==
  /\ Select /\ r \in Active /\ reader[r].at = "in" /\ reader'[r].at = "sends" /\ SameRoom(r)
  /\ LET k == reader'[r].key
     IN /\ k \in Key /\ Placed(k)
        /\ key[k].sta \in removed => r \in leaving[key[k].sta]
        /\ reader[r].on \in Covers(key[k].sdata)

Visits(r) ==
  /\ Visit /\ r \in Active /\ reader'[r].at \in {"on", "called"} /\ SameRoom(r)
  /\ reader[r].on \in Ifaces /\ reader'[r].key \in list[reader[r].on]
  /\ reader'[r].at = "called" => key[reader'[r].key].sta \notin removed

(* A reader that is in is a record.                                        *)
LEMMA ReaderRecord ==
  ASSUME Typed, NEW r \in Active
  PROVE  r \in Readers /\ reader[r] \in Reader /\ reader[r].on \in Ifaces
BY DEF Typed, Active, Out, Reader

(* Only these four steps change a reader ...                               *)
LEMMA ReaderKept == ASSUME [Next]_vars, ~Begin, ~Select, ~Visit, ~End PROVE reader' = reader
BY DEF Next, Operation, Step, Others, vars, Install, RekeyAdd, Link, SetDefault,
    IterRemove, RemoveKey, FreeKeys, FreeStaKeys, Resume, DelayedDec, Increment,
    Synchronize, Synchronized, AddToList, Point, DelFromList, Disable,
    ClearUploaded, Settle, FreeKey, Flush, UnlinkKey, UnlinkNext, UnlinkEnd,
    NextKey, LastKey, LinkEnds, Accelerate, NotAccelerated, Suspend, Taint,
    StaLeaves, StaReturns

(* ... and only these two, the stations in removal.                        *)
LEMMA LeavingKept ==
  ASSUME [Next]_vars, ~StaLeaves, ~StaReturns
  PROVE  removed' = removed /\ (~End => leaving' = leaving)
BY DEF Next, Operation, Step, Others, vars, Install, RekeyAdd, Link, SetDefault,
    IterRemove, RemoveKey, FreeKeys, FreeStaKeys, Resume, DelayedDec, Increment,
    Synchronize, Synchronized, AddToList, Point, DelFromList, Disable,
    ClearUploaded, Settle, FreeKey, Flush, UnlinkKey, UnlinkNext, UnlinkEnd,
    NextKey, LastKey, LinkEnds, Accelerate, NotAccelerated, Suspend, Taint, Begin,
    Select, Visit, End

(* A key that a transmitter can choose is in its place, counts for its     *)
(* interface, and is of a station it was in time for.                      *)
LEMMA SelectableIs ==
  ASSUME KInv, NEW r \in Active, NEW k \in Selectable(r)
  PROVE  /\ k \in Key /\ Placed(k)
         /\ key[k].sta \in removed => r \in leaving[key[k].sta]
         /\ reader[r].on \in Covers(key[k].sdata)
<1>h. /\ Typed /\ SlotsRight /\ DefsRight /\ NoKey \notin Key /\ removed \subseteq Stas
      /\ NoSta \notin Stas /\ slot \in [Place -> Key \cup {NoKey}] /\ def \in DefaultTable
  BY HandTypes, KeyAssumption DEF KInv, Typed, DefaultTable, KeyAssumption
<1>s. reader[r].on \in Ifaces BY <1>h, ReaderRecord
<1> DEFINE s == reader[r].on
           known == {a \in Stas : /\ Home[a] = s \/ s \in Vlans(Home[a])
                                  /\ a \notin removed \/ r \in leaving[a]}
<1>1. /\ k # NoKey
      /\ \/ \E p \in Place : p.sta \in known /\ p.pairwise /\ k = slot[p]
         \/ \E w \in Defaults : k = def[s][w]
  BY DEF Selectable
<1>2. CASE \E p \in Place : p.sta \in known /\ p.pairwise /\ k = slot[p]
  <2>1. PICK p \in Place : p.sta \in known /\ p.pairwise /\ k = slot[p] BY <1>2
  <2>2. Placed(k) /\ At(k) = p /\ k \in Key BY <1>1, <1>h, <2>1 DEF SlotsRight
  <2>3. key[k].sta = p.sta /\ key[k].sdata = p.sdata BY <2>2 DEF At, PlaceOf
  <2>4. p.sdata = Home[p.sta]
    <3>1. \E t \in Ifaces, a \in Stas \cup {NoSta}, kind \in AnyKind :
            p = PlaceOf(IF a = NoSta THEN t ELSE Home[a], a, kind)  BY DEF Place
    <3>2. PICK t \in Ifaces, a \in Stas \cup {NoSta}, kind \in AnyKind :
            p = PlaceOf(IF a = NoSta THEN t ELSE Home[a], a, kind)  BY <3>1
    <3>3. p.sta = a /\ p.sdata = (IF a = NoSta THEN t ELSE Home[a])
      BY <3>2 DEF PlaceOf
    <3>4. QED BY <1>h, <2>1, <3>3
  <2>5. QED BY <2>1, <2>2, <2>3, <2>4 DEF Covers
<1>3. CASE \E w \in Defaults : k = def[s][w]
  <2>1. PICK w \in Defaults : k = def[s][w] BY <1>3
  <2>2. Placed(k) /\ key[k].sdata = s /\ key[k].sta = NoSta
    BY <1>1, <1>s, <2>1, <1>h DEF DefsRight
  <2>3. k \in Key BY <2>2 DEF Placed, Linked
  <2>4. QED BY <1>h, <2>2, <2>3 DEF Covers
<1>4. QED BY <1>1, <1>2, <1>3

(* Every step leaves a reader alone or is one of the three.                *)
LEMMA ReaderMoves ==
  ASSUME KInv, [Next]_vars, NEW r \in Active'
  PROVE  /\ r \in Readers
         /\ \/ r \in Active /\ reader'[r] = reader[r]
            \/ Begins(r) \/ Selects(r) \/ Visits(r)
<1>h. /\ Typed /\ reader \in [Readers -> {Out} \cup Reader]
      /\ list \in [Ifaces -> SUBSET Key]
      /\ ifaces \subseteq Ifaces
  BY IfacesOf DEF KInv, Typed
<1>r. r \in Readers /\ reader'[r].at # "out" BY DEF Active
<1>1. CASE Begin
  <2>1. PICK q \in Readers, s \in ifaces :
    /\ reader[q].at = "out" /\ sleep = "awake"
    /\ reader' = [reader EXCEPT ![q] =
         [at |-> "in", on |-> s, room |-> needed[s] > 0, key |-> NoKey]]
    BY <1>1 DEF Begin
  <2>2. CASE r # q BY <1>h, <1>r, <2>1, <2>2 DEF Active
  <2>3. CASE r = q
    <3>1. reader'[r] = [at |-> "in", on |-> s, room |-> needed[s] > 0, key |-> NoKey]
      BY <1>h, <2>1, <2>3
    <3>2. QED BY <1>1, <1>h, <1>r, <2>1, <3>1 DEF Begins
  <2>4. QED BY <2>2, <2>3
<1>2. CASE Select
  <2>1. PICK q \in Readers : reader[q].at = "in" /\ \E k \in Selectable(q) :
          reader' = [reader EXCEPT ![q].at = "sends", ![q].key = k]
    BY <1>2 DEF Select
  <2>2. PICK k \in Selectable(q) : reader' = [reader EXCEPT ![q].at = "sends", ![q].key = k]
    BY <2>1
  <2>3. CASE r # q BY <1>h, <1>r, <2>2, <2>3 DEF Active
  <2>4. CASE r = q
    <3>1. r \in Active BY <2>1, <2>4 DEF Active
    <3>2. reader[r] \in Reader BY <1>h, <3>1, ReaderRecord
    <3>3. /\ reader'[r].at = "sends" /\ reader'[r].key = k /\ SameRoom(r)
      BY <1>h, <1>r, <2>2, <2>4, <3>2 DEF Reader, SameRoom
    <3>4. QED BY <1>2, <1>r, <2>1, <2>4, <3>1, <3>3, SelectableIs DEF Selects
  <2>5. QED BY <2>3, <2>4
<1>3. CASE Visit
  <2>1. PICK q \in Active : reader[q].at # "sends" /\ \E k \in list[reader[q].on] :
       reader' = [reader EXCEPT
         ![q].at = IF key[k].up /\ key[k].sta \notin removed THEN "called" ELSE "on",
         ![q].key = k]
    BY <1>3 DEF Visit
  <2>2. PICK k \in list[reader[q].on] :
       reader' = [reader EXCEPT
         ![q].at = IF key[k].up /\ key[k].sta \notin removed THEN "called" ELSE "on",
         ![q].key = k]
    BY <2>1
  <2>3. CASE r # q BY <1>h, <1>r, <2>2, <2>3 DEF Active
  <2>4. CASE r = q
    <3>1. reader[r] \in Reader /\ r \in Active /\ reader[r].on \in Ifaces
      BY <1>h, <2>1, <2>4, ReaderRecord
    <3>2. PICK at : at = IF key[k].up /\ key[k].sta \notin removed THEN "called" ELSE "on"
      OBVIOUS
    <3>3. reader' = [reader EXCEPT ![q].at = at, ![q].key = k] BY <2>2, <3>2
    <3>4. /\ reader'[r].at = at /\ reader'[r].key = k /\ SameRoom(r)
      BY <1>h, <1>r, <2>4, <3>1, <3>3 DEF Reader, SameRoom
    <3>5. QED BY <1>3, <1>r, <2>2, <2>4, <3>1, <3>2, <3>4 DEF Visits
  <2>5. QED BY <2>3, <2>4
<1>4. CASE End
  <2>1. PICK q \in Active : reader' = [reader EXCEPT ![q] = Out] BY <1>4 DEF End
  <2>2. q \in Readers BY DEF Active
  <2>3. r # q BY <1>h, <1>r, <2>1, <2>2 DEF Out
  <2>4. QED BY <1>h, <1>r, <2>1, <2>2, <2>3 DEF Active
<1>5. CASE ~Begin /\ ~Select /\ ~Visit /\ ~End
  BY <1>5, <1>r, ReaderKept DEF Active
<1>6. QED BY <1>1, <1>2, <1>3, <1>4, <1>5

(* A key on its way to be freed is not freed while somebody still uses it: *)
(* who still points to it has stepped over it in the list of a station     *)
(* that is being removed (key.c:810).                                      *)
LEMMA FreedUnused ==
  ASSUME KInv, FreeKey, NEW r \in Active, reader[r].key = hand.old
  PROVE  /\ hand.op = "freesta" /\ ~Uses(r) /\ hand.old \in Linked
         /\ reader[r].at = "on" /\ key[hand.old].sta \in removed
<1>h. /\ Typed /\ hand \in Hand /\ Course /\ Works /\ Flags /\ ReadersRight /\ HoldersOut
      /\ hand.old \in Key \cup {NoKey} /\ hand.batch \subseteq Key /\ NoKey \notin Key
  BY HandTypes DEF KInv
<1>1. hand.at = "free" /\ Where = "free" BY DEF FreeKey, Where, Waits
<1>2. hand.old \in Linked /\ hand.old \in Key /\ hand.old # NoKey
  BY <1>h, <1>1 DEF Works, Taking, Linked
<1>3. hand.op \in {"link", "fail", "remove", "freekeys", "freesta"}
  BY <1>h, <1>1, Stands DEF Taking
<1>4. ~Awaited(r) BY <1>1 DEF Awaited
<1>5. hand.op = "freesta"
  <2>1. hand.op # "freesta" => Doomed(hand.old)
    BY <1>1, <1>3 DEF Doomed, Off, Taking
  <2>2. QED BY <1>h, <1>4, <2>1 DEF HoldersOut
<1>6. key[hand.old].sta \in removed /\ leaving[key[hand.old].sta] = {}
  BY <1>h, <1>2, <1>5 DEF Flags
<1>7. r \in Readers /\ reader[r].at \in {"in", "sends", "on", "called"}
  BY <1>h, ReaderRecord DEF Reader
<1>8. ~Uses(r) BY <1>h, <1>6, <1>7 DEF ReadersRight
<1>9. reader[r].at # "in" BY <1>h, <1>2, <1>7 DEF ReadersRight
<1>10. QED BY <1>2, <1>5, <1>6, <1>7, <1>8, <1>9 DEF Uses

(* A reader that uses a key keeps it linked.                               *)
LEMMA UsedStays ==
  ASSUME KInv, [Next]_vars, NEW r \in Active, Uses(r)
  PROVE  reader[r].key \in Linked /\ reader[r].key \in Linked' /\ reader[r].key \in Key
<1>h. Typed /\ key \in KeyTable /\ ReadersRight /\ Works BY HandTypes DEF KInv
<1>1. reader[r].key \in Linked BY <1>h, ReaderRecord DEF ReadersRight
<1>2. PICK j : j = reader[r].key OBVIOUS
<1>3. j \in Key /\ j \in Linked BY <1>1, <1>2 DEF Linked
<1>4. CASE Install \/ RekeyAdd
  <2>1. PICK s \in ifaces, a \in Stas \cup {NoSta}, kind \in AnyKind :
    /\ Link(s, a, kind) /\ s \in Ifaces /\ (a # NoSta => s = Home[a] /\ a \notin removed)
    /\ PlaceOf(s, a, kind) \in Place /\ slot[PlaceOf(s, a, kind)] \in Key \cup {NoKey}
    BY <1>4, <1>h, InstallLinks
  <2>2. PICK k \in Key : key[k] = Blank /\ key' = [key EXCEPT ![k] = Alloc(s, a, kind)]
    BY <2>1, LinkMoves
  <2>3. QED BY <1>h, <1>2, <1>3, <2>1, <2>2, NewKey
<1>5. CASE FreeKey
  <2>1. j # hand.old BY <1>2, <1>5, FreedUnused
  <2>2. hand.old \in Linked BY <1>h, <1>5 DEF FreeKey, Works, Where, Waits, Taking
  <2>3. QED BY <1>h, <1>2, <1>3, <1>5, <2>1, <2>2, FreedKey DEF FreeKey
<1>6. CASE Ordinary BY <1>2, <1>3, <1>6, OrdinaryKeys
<1>7. QED BY <1>4, <1>5, <1>6 DEF Next, Operation, Step, Others, Ordinary

(* What readers hold stays right.                                          *)
LEMMA ReadersStep ==
  ASSUME KInv, [Next]_vars PROVE ReadersRight'
<1>h. /\ Typed /\ NoKey \notin Key /\ ReadersRight /\ ListsRight /\ removed \subseteq Stas
      /\ leaving \in [Stas -> SUBSET Readers] /\ list \in [Ifaces -> SUBSET Key]
  BY HandTypes DEF KInv, Typed
<1>0. ASSUME NEW r \in Active'
      PROVE  /\ reader'[r].at = "in" => reader'[r].key = NoKey
             /\ reader'[r].at = "on" => reader'[r].key # NoKey
             /\ reader'[r].at \in {"sends", "called"} =>
                  \E k \in Key : /\ k = reader'[r].key /\ k \in Linked /\ k \in Linked'
                                 /\ key[k].sta \in removed => r \in leaving[key[k].sta]
                                 /\ r \in Active
                                 /\ reader'[r].at = "sends" => reader'[r].on \in Covers(key[k].sdata)
  <2>1. CASE r \in Active /\ reader'[r] = reader[r]
    <3>1. r \in Readers BY DEF Active
    <3>2. CASE Uses(r)
      <4>1. /\ reader[r].key \in Linked /\ reader[r].key \in Linked'
            /\ reader[r].key \in Key
        BY <2>1, <3>2, UsedStays
      <4>2. QED BY <1>h, <2>1, <3>1, <3>2, <4>1 DEF ReadersRight, Uses
    <3>3. CASE ~Uses(r) BY <1>h, <2>1, <3>1, <3>3 DEF ReadersRight, Uses
    <3>4. QED BY <3>2, <3>3
  <2>2. CASE Begins(r) BY <2>2 DEF Begins
  <2>3. CASE Selects(r)
    <3>1. reader'[r].key \in Key /\ reader'[r].key \in Linked
      BY <2>3 DEF Selects, Placed
    <3>2. key' = key BY <2>3 DEF Selects, Select
    <3>3. Linked' = Linked BY <3>2 DEF Linked
    <3>4. QED BY <2>3, <3>1, <3>3 DEF Selects, SameRoom
  <2>4. CASE Visits(r)
    <3>1. PICK k : k = reader'[r].key OBVIOUS
    <3>2. k \in Key /\ k \in Linked
      BY <1>h, <2>4, <3>1 DEF Visits, ListsRight, Listed
    <3>3. key' = key BY <2>4 DEF Visits, Visit
    <3>4. Linked' = Linked BY <3>3 DEF Linked
    <3>5. QED BY <1>h, <2>4, <3>1, <3>2, <3>4 DEF Visits
  <2>5. QED BY <2>1, <2>2, <2>3, <2>4, ReaderMoves
<1>1. ASSUME NEW r \in Active', NEW k \in Key, k \in Linked, k \in Linked',
             key[k].sta \in removed => r \in leaving[key[k].sta], r \in Active
      PROVE  key'[k].sta \in removed' => r \in leaving'[key'[k].sta]
  <2>1. key'[k].sta = key[k].sta BY <1>1, Persist
  <2>2. PICK a : a = key[k].sta OBVIOUS
  <2>3. SUFFICES ASSUME a \in removed' PROVE r \in leaving'[a] BY <2>1, <2>2
  <2>4. CASE StaLeaves
    <3>1. PICK b \in Stas \ removed :
            removed' = removed \cup {b} /\ leaving' = [leaving EXCEPT ![b] = Active]
      BY <2>4 DEF StaLeaves
    <3>2. QED BY <1>1, <1>h, <2>2, <2>3, <3>1
  <2>5. CASE StaReturns
    <3>1. a \in removed /\ leaving' = leaving BY <2>3, <2>5 DEF StaReturns
    <3>2. QED BY <1>1, <2>2, <3>1
  <2>6. CASE End
    <3>1. PICK q \in Active : reader' = [reader EXCEPT ![q] = Out]
                              /\ leaving' = [b \in Stas |-> leaving[b] \ {q}] /\ removed' = removed
      BY <2>6 DEF End
    <3>2. r # q BY <1>h, <1>1, <3>1, ReaderRecord DEF Active, Out, Typed
    <3>3. QED BY <1>1, <1>h, <2>2, <2>3, <3>1, <3>2
  <2>7. CASE ~StaLeaves /\ ~StaReturns /\ ~End
    BY <1>1, <2>2, <2>3, <2>7, LeavingKept
  <2>8. QED BY <2>4, <2>5, <2>6, <2>7
<1>2. ASSUME NEW r \in Readers
      PROVE  /\ reader'[r].at = "in" => reader'[r].key = NoKey
             /\ reader'[r].at = "on" => reader'[r].key # NoKey
             /\ reader'[r].at \in {"sends", "called"} =>
                  /\ reader'[r].key \in Linked'
                  /\ key'[reader'[r].key].sta \in removed' => r \in leaving'[key'[reader'[r].key].sta]
             /\ reader'[r].at = "sends" => reader'[r].on \in Covers(key'[reader'[r].key].sdata)
  <2>1. CASE r \notin Active' BY <2>1 DEF Active
  <2>2. CASE r \in Active'
    <3>1. CASE reader'[r].at \in {"sends", "called"}
      <4>1. PICK k \in Key :
               /\ k = reader'[r].key /\ k \in Linked /\ k \in Linked'
               /\ key[k].sta \in removed => r \in leaving[key[k].sta]
               /\ r \in Active
               /\ reader'[r].at = "sends" => reader'[r].on \in Covers(key[k].sdata)
        BY <1>0, <2>2, <3>1
      <4>2. key'[k].sta \in removed' => r \in leaving'[key'[k].sta]
        BY <1>1, <2>2, <4>1
      <4>3. key'[k].sdata = key[k].sdata BY <4>1, Persist
      <4>4. QED BY <3>1, <4>1, <4>2, <4>3
    <3>2. CASE reader'[r].at \notin {"sends", "called"} BY <1>0, <2>2, <3>2
    <3>3. QED BY <3>1, <3>2
  <2>3. QED BY <2>1, <2>2
<1>3. QED BY <1>2 DEF ReadersRight, Uses, Covers, Vlans

(* A grace period begins, after which keys are freed.                      *)
Graced == hand'.at = "sync" /\ hand'.then \in {"disable", "next"}

(* A key begins to be on its way out only with a grace period before it    *)
(* (key.c:602, 884).                                                       *)
LEMMA DoomedMoves ==
  ASSUME KInv, [Next]_vars, NEW k \in Key, Doomed(k)'
  PROVE  Doomed(k) \/ Graced
<1>h. /\ Typed /\ hand \in Hand /\ key \in KeyTable /\ Course /\ Works
      /\ hand.old \in Key \cup {NoKey} /\ hand.new \in Key \cup {NoKey}
      /\ hand.batch \subseteq Key /\ NoKey \notin Key /\ hand.op \in Ops
  BY HandTypes DEF KInv
<1>g. Free => hand.op = "none" /\ hand.old = NoKey /\ hand.new = NoKey /\ hand.batch = {} /\ Where = "idle"
  BY <1>h DEF Course, Idle, Where, Waits, Free
<1> USE DEF Where, Waits, Waiting, Taking, Off, HandIs
<1>1. CASE Install \/ RekeyAdd
  <2>1. PICK s \in ifaces, a \in Stas \cup {NoSta}, kind \in AnyKind :
    /\ Link(s, a, kind) /\ s \in Ifaces /\ (a # NoSta => s = Home[a] /\ a \notin removed)
    /\ PlaceOf(s, a, kind) \in Place /\ slot[PlaceOf(s, a, kind)] \in Key \cup {NoKey}
    BY <1>1, <1>h, InstallLinks
  <2> PICK old : old = slot[PlaceOf(s, a, kind)]  OBVIOUS
  <2>2. PICK j \in Key : HandIs("link", "inc", "add", old, j, {})
    BY <2>1, LinkMoves
  <2>4. QED BY <1>g, <2>2 DEF Doomed
<1>2. CASE Increment \/ Synchronize \/ Synchronized \/ AddToList
  <2>1. Go("sync") \/ Go("wait") \/ Go(hand.then) \/ Go("point")
    BY <1>2 DEF Increment, Synchronize, Synchronized, AddToList
  <2>2. hand'.new = hand.new /\ hand'.old = hand.old /\ hand'.op = hand.op
        /\ hand'.then = hand.then /\ hand'.batch = hand.batch
    BY <1>h, <2>1, GoMoves DEF Hand, Spots
  <2>4. CASE AddToList
    <3>1. hand.at = "add" /\ hand'.at = "point" /\ hand.op = "link"
      BY <1>h, <2>4, GoMoves, Stands DEF AddToList, Spots
    <3>2. QED BY <2>2, <2>4, <3>1 DEF Doomed
  <2>5. CASE ~AddToList
    <3>1. hand.at \in Waits /\ (Go("sync") \/ Go("wait") \/ Go(hand.then))
      BY <1>2, <2>5 DEF Increment, Synchronize, Synchronized
    <3>4. hand'.at \in {"sync", "wait"} \/ hand'.at = hand.then
      BY <1>h, <3>1, GoMoves DEF Hand, Spots
    <3>5. hand.then \notin Waits  BY <1>h, <3>1 DEF Course
    <3>6. Where' = Where  BY <2>2, <3>1, <3>4, <3>5
    <3>7. QED BY <2>2, <3>6 DEF Doomed
  <2>6. QED BY <2>4, <2>5
<1>4. CASE IterRemove BY <1>h, <1>g, <1>4, IterRemoveMoves DEF Doomed
<1>5. CASE FreeKeys BY <1>h, <1>g, <1>5, FreeKeysMoves DEF Doomed
<1>6. CASE FreeStaKeys BY <1>h, <1>g, <1>6, FreeStaKeysMoves DEF Doomed
<1>7. CASE Resume BY <1>h, <1>g, <1>7, ResumeMoves DEF Doomed
<1>13. CASE Point
  <2>1. Go("accel") \/ Go("del") BY <1>13 DEF Point
  <2>2. hand'.at \in {"accel", "del"} BY <1>h, <2>1, GoMoves DEF Spots
  <2>3. QED BY <2>2 DEF Doomed
<1>14. CASE DelFromList
  <2>1. hand.at = "del" /\ hand.old \in Key
    BY <1>h, <1>14 DEF DelFromList, Works, Linked
  <2>2. CASE hand.op = "freekeys"  BY <1>h, <1>14, <2>1, <2>2, DelMoves DEF Doomed
  <2>3. CASE hand.op = "freesta"  BY <1>h, <1>14, <2>1, <2>3, DelMoves DEF Doomed
  <2>4. CASE hand.op \notin {"freekeys", "freesta"}
    BY <1>h, <1>14, <2>1, <2>4, DelMoves DEF Graced
  <2>5. QED  BY <1>14, <2>2, <2>3, <2>4
<1>15. CASE Disable BY <1>h, <1>15, DisableMoves DEF Disable, Doomed
<1>16. CASE ClearUploaded BY <1>h, <1>16, GoMoves DEF ClearUploaded, Doomed, Spots
<1>17. CASE Settle BY <1>h, <1>17, GoMoves DEF Settle, Doomed, Spots
<1>18. CASE FreeKey
  <2>1. hand.at = "free" BY <1>18 DEF FreeKey
  <2>3. CASE hand.op \in {"fail", "remove"}
    BY <1>h, <1>18, <2>3, FreeKeyMoves, IdleIs DEF Doomed
  <2>4. CASE hand.op \notin {"fail", "remove"}
    BY <1>h, <1>18, <2>1, <2>4, FreeKeyMoves DEF Doomed
  <2>6. QED BY <2>3, <2>4
<1>19. CASE Flush BY <1>h, <1>19, GoMoves, Stands DEF Doomed, Flush, Spots
<1>20. CASE UnlinkKey
  <2>1. hand.at = "unlink" /\ hand.op = "freekeys"
    BY <1>h, <1>20, Stands DEF UnlinkKey
  <2>2. hand.on \in Ifaces  BY <2>1 DEF KInv, Emptied
  <2>5. QED  BY <1>h, <1>20, <2>1, <2>2, UnlinkKeyMoves DEF Doomed
<1>21. CASE UnlinkNext
  BY <1>h, <1>21, UnlinkNextMoves, Stands DEF Doomed, UnlinkNext
<1>22. CASE UnlinkEnd
  <2>1. hand.at = "unlink" /\ hand.op = "freekeys"
    BY <1>h, <1>22, Stands DEF UnlinkEnd
  <2>2. CASE Grace("next") BY <1>h, <2>2, GraceMoves DEF Graced, Spots
  <2>3. CASE hand.batch = {} /\ Go("next")
    BY <1>h, <2>1, <2>3, GoMoves DEF Doomed, Spots
  <2>4. QED  BY <1>22, <2>2, <2>3 DEF UnlinkEnd
<1>23. CASE NextKey
  <2>1. hand.at = "next" /\ hand.op \in {"freekeys", "freesta", "resume"}
    BY <1>h, <1>23, Stands DEF NextKey
  <2>2. CASE hand.op = "freekeys"
    BY <1>h, <1>23, <2>1, <2>2, NextKeyMoves DEF Doomed
  <2>3. CASE hand.op = "freesta"
    BY <1>h, <1>23, <2>1, <2>3, NextKeyMoves DEF Doomed
  <2>4. CASE hand.op = "resume"
    BY <1>h, <1>23, <2>1, <2>4, NextKeyMoves DEF Doomed
  <2>5. QED  BY <2>1, <2>2, <2>3, <2>4
<1>24. CASE LastKey BY <1>24, IdleIs DEF Doomed, LastKey
<1>25. CASE LinkEnds \/ Accelerate
  <2>1. hand.at = "accel" /\ Uploaded BY <1>25 DEF LinkEnds, Accelerate, Uploading
  <2>2. hand.op \in {"link", "resume"} BY <1>h, <2>1, Stands
  <2>3. QED BY <1>h, <2>1, <2>2, UploadedMoves, IdleIs DEF Doomed
<1>27. CASE NotAccelerated
  <2>1. hand.at = "accel" /\ hand.new \in Key /\ hand.op \in {"link", "resume"}
    BY <1>h, <1>27, Stands DEF NotAccelerated, Uploading, Works
  <2>2. CASE Uploaded BY <1>h, <2>1, <2>2, UploadedMoves, IdleIs DEF Doomed
  <2>3. CASE hand' = [hand EXCEPT !.op = "fail", !.at = "point", !.old = hand.new, !.new = NoKey]
    BY <1>h, <2>1, <2>3, RefusedMoves DEF Doomed
  <2>4. QED BY <1>27, <2>2, <2>3 DEF NotAccelerated
<1>28. CASE Quiet
  <2>1. hand' = hand BY <1>28, QuietHand
  <2>2. QED BY <2>1 DEF Doomed
<1>37. QED
  BY <1>1, <1>2, <1>4, <1>5, <1>6, <1>7, <1>13, <1>14, <1>15, <1>16, <1>17, <1>18,
      <1>19, <1>20, <1>21, <1>22, <1>23, <1>24, <1>25, <1>27, <1>28
    DEF Next, Operation, Step, Others, Quiet

(* A grace period that is waited for goes on or ends with nobody awaited;  *)
(* nothing else is done under key_mtx meanwhile.                           *)
LEMMA GraceKept ==
  ASSUME KInv, [Next]_vars, Waiting
  PROVE  Synchronize \/ Synchronized \/ Quiet
<1>h. hand \in Hand /\ Course BY HandTypes
<1>1. ~Free BY DEF Waiting, Free
<1>2. QED
  BY <1>1
    DEF Waiting, Next, Operation, Step, Others, Quiet, Install, RekeyAdd, Link,
        SetDefault, IterRemove, RemoveKey, FreeKeys, FreeStaKeys, Resume, Increment,
        AddToList, Point, DelFromList, Disable, ClearUploaded, Settle, FreeKey,
        Flush, UnlinkKey, UnlinkNext, UnlinkEnd, NextKey, LastKey, LinkEnds,
        Accelerate, NotAccelerated, Uploading

(* Who is awaited and stays in, is awaited still.                          *)
LEMMA StillAwaited ==
  ASSUME KInv, [Next]_vars, NEW r \in Active, r \in Active', Awaited(r)
  PROVE  Awaited(r)' /\ hand'.then = hand.then
<1>h. hand \in Hand /\ Course /\ Typed BY HandTypes
<1>1. Waiting BY DEF Awaited, Waiting
<1>2. CASE Synchronize
  <2>1. hand'.at = "wait" /\ hand'.then = hand.then /\ grace' = Active
    BY <1>h, <1>2, GoMoves DEF Synchronize, HandIs, Spots
  <2>2. QED BY <2>1 DEF Awaited
<1>3. CASE Synchronized BY <1>3 DEF Synchronized, Awaited
<1>4. CASE Quiet
  <2>1. hand' = hand BY <1>4, QuietHand
  <2>2. CASE End
    <3>1. PICK q \in Active : reader' = [reader EXCEPT ![q] = Out] /\ grace' = grace \ {q}
      BY <2>2 DEF End
    <3>2. r # q BY <1>h, <3>1, ReaderRecord DEF Active, Out, Typed
    <3>3. QED BY <2>1, <3>1, <3>2 DEF Awaited
  <2>3. CASE ~End
    <3>1. grace' = grace
      BY <1>4, <2>3
        DEF Quiet, SetDefault, DelayedDec, Suspend, Taint, StaLeaves, StaReturns,
            Begin, Select, Visit, vars
    <3>2. QED BY <2>1, <3>1 DEF Awaited
  <2>4. QED BY <2>2, <2>3
<1>5. QED BY <1>1, <1>2, <1>3, <1>4, GraceKept

(* Whoever points to a key on its way out is waited for: the grace period  *)
(* begins after the key has left the list and its place, so nobody finds   *)
(* it later.                                                               *)
LEMMA HoldersStep ==
  ASSUME KInv, [Next]_vars PROVE HoldersOut'
<1>h. /\ Typed /\ NoKey \notin Key /\ HoldersOut /\ Works /\ hand.batch \subseteq Key
      /\ hand.old \in Key \cup {NoKey} /\ list \in [Ifaces -> SUBSET Key] /\ ListsRight
  BY HandTypes DEF KInv, Typed
<1>d. ASSUME NEW k, Doomed(k) PROVE k \in Key /\ ~Placed(k) /\ ~Listed(k)
  BY <1>d, <1>h DEF Doomed, Works, Off, Taking, Where, Waits, Placed, Listed
<1>w. \A k : Doomed(k)' => k \in Key
  <2>1. Works' /\ hand' \in Hand BY WorksStep, CourseStep
  <2>2. SUFFICES ASSUME NEW k, Doomed(k)' PROVE k \in Key OBVIOUS
  <2>3. hand'.batch \subseteq Key /\ hand'.old \in Key \cup {NoKey}
    BY <2>1 DEF Hand
  <2>4. QED BY <1>h, <2>1, <2>2, <2>3 DEF Doomed, Works, Off, Taking, Where, Waits
<1>1. ASSUME NEW r \in Active', NEW k, k = reader'[r].key, Doomed(k)'
      PROVE  Awaited(r)' /\ hand'.then \in {"disable", "next"}
  <2>1. k \in Key BY <1>1, <1>w
  <2>2. CASE Graced BY <2>2 DEF Graced, Awaited
  <2>3. CASE ~Graced
    <3>1. Doomed(k) BY <1>1, <2>1, <2>3, DoomedMoves
    <3>2. CASE r \in Active /\ reader'[r] = reader[r]
      <4>1. Awaited(r) /\ hand.then \in {"disable", "next"}
        BY <1>1, <1>h, <3>1, <3>2 DEF HoldersOut
      <4>2. QED BY <1>1, <3>2, <4>1, StillAwaited
    <3>3. CASE Begins(r) BY <1>1, <1>h, <2>1, <3>3 DEF Begins
    <3>4. CASE Selects(r) BY <1>1, <1>d, <3>1, <3>4 DEF Selects
    <3>5. CASE Visits(r)
      BY <1>1, <1>h, <1>d, <2>1, <3>1, <3>5 DEF Visits, ListsRight
    <3>6. QED BY <3>2, <3>3, <3>4, <3>5, ReaderMoves
  <2>4. QED BY <2>2, <2>3
<1>2. QED BY <1>1 DEF HoldersOut, Doomed, Off, Taking, Where, Waits

(***************************************************************************)
(* Keys: counters.                                                         *)
(***************************************************************************)
(* A host has one AP, which its VLANs have above them.                     *)
LEMMA ApsOf ==
  ASSUME NEW s \in Ifaces
  PROVE  \/ Aps(s) = {} /\ \A a \in Ifaces : s \notin Vlans(a)
         \/ \E a \in Ifaces : /\ Aps(s) # {} /\ ApOf(s) = a /\ a # s
                              /\ \A b \in Ifaces : s \in Vlans(b) <=> b = a
                              /\ Vlans(s) = {} /\ \A b \in Ifaces : a \notin Vlans(b)
<1>1. CASE Aps(s) = {} BY <1>1 DEF Aps
<1>2. CASE Aps(s) # {}
  <2>1. PICK a \in Aps(s) : TRUE BY <1>2
  <2>2. a \in Ifaces /\ s \in Vlans(a) BY <2>1 DEF Aps
  <2>3. Type[a] = "AP" /\ Type[s] = "AP_VLAN" BY <2>2 DEF Vlans
  <2>4. \A b \in Ifaces : s \in Vlans(b) => b = a
    BY <2>2, <2>3, KeyAssumption DEF Vlans, KeyAssumption
  <2>5. Aps(s) = {a} BY <2>2, <2>4 DEF Aps
  <2>6. ApOf(s) = a BY <2>5 DEF ApOf
  <2>7. Vlans(s) = {} /\ \A b \in Ifaces : a \notin Vlans(b) BY <2>3 DEF Vlans
  <2>8. a # s BY <2>3
  <2>9. QED BY <1>2, <2>2, <2>4, <2>6, <2>7, <2>8
<1>3. QED BY <1>1, <1>2

(* Own, after a step.                                                      *)
LEMMA OwnNext ==
  ASSUME NEW s \in Ifaces
  PROVE  Own(s)' = needed'[s] - (IF Aps(s) = {} THEN 0 ELSE needed'[ApOf(s)])
BY DEF Own, Aps, Vlans, ApOf

(* Counting up or down changes what one interface counts for itself: its   *)
(* VLANs' counts move with it (key.c:63-80).                               *)
LEMMA CountShifts ==
  ASSUME needed \in [Ifaces -> Int], NEW s \in Ifaces, NEW d \in Int, Count(s, d),
         NEW i \in Ifaces
  PROVE  Own(i)' = Own(i) + (IF i = s THEN d ELSE 0)
<1>1. \A j \in Ifaces : needed'[j] = needed[j] + (IF j = s \/ j \in Vlans(s) THEN d ELSE 0)
  BY DEF Count
<1>2. CASE Aps(i) = {} /\ \A a \in Ifaces : i \notin Vlans(a)
  <2>1. Own(i)' = needed'[i] /\ Own(i) = needed[i]
    BY <1>1, <1>2, OwnNext DEF Own
  <2>2. QED BY <1>1, <1>2, <2>1
<1>3. CASE \E a \in Ifaces : /\ Aps(i) # {} /\ ApOf(i) = a /\ a # i
                             /\ \A b \in Ifaces : i \in Vlans(b) <=> b = a
                             /\ Vlans(i) = {} /\ \A b \in Ifaces : a \notin Vlans(b)
  <2>1. PICK a \in Ifaces : /\ Aps(i) # {} /\ ApOf(i) = a /\ a # i
                            /\ \A b \in Ifaces : i \in Vlans(b) <=> b = a
                            /\ Vlans(i) = {} /\ \A b \in Ifaces : a \notin Vlans(b)
    BY <1>3
  <2>2. Own(i)' = needed'[i] - needed'[a] /\ Own(i) = needed[i] - needed[a]
    BY <2>1, OwnNext DEF Own
  <2>3. needed'[i] = needed[i] + (IF i = s \/ s = a THEN d ELSE 0) BY <1>1, <2>1
  <2>4. needed'[a] = needed[a] + (IF a = s THEN d ELSE 0) BY <1>1, <2>1
  <2>5. needed[i] \in Int /\ needed[a] \in Int OBVIOUS
  <2>6. QED BY <2>1, <2>2, <2>3, <2>4, <2>5
<1>4. QED BY <1>2, <1>3, ApsOf

(* Own is an integer ...                                                   *)
LEMMA OwnInt == ASSUME needed \in [Ifaces -> Int], NEW i \in Ifaces PROVE Own(i) \in Int
<1>1. Aps(i) # {} => ApOf(i) \in Ifaces BY ApsOf
<1>2. QED BY <1>1 DEF Own

(* ... that changes with the counters only.                                *)
LEMMA OwnKept ==
  ASSUME needed' = needed, NEW i \in Ifaces PROVE Own(i)' = Own(i)
BY OwnNext DEF Own

(* The count of an interface is its own and, of a VLAN, that of its AP.    *)
LEMMA OwnCounts ==
  ASSUME needed \in [Ifaces -> Int], \A i \in Ifaces : Own(i) >= 0, NEW s \in Ifaces
  PROVE  /\ needed[s] >= Own(s) /\ needed[s] \in Nat
         /\ \A i \in Covers(s) : i \in Ifaces /\ needed[i] >= needed[s]
<1>1. ASSUME NEW i \in Ifaces PROVE needed[i] >= Own(i) /\ needed[i] \in Nat
  <2>1. CASE Aps(i) = {}
    <3>1. Own(i) = needed[i] BY <2>1 DEF Own
    <3>2. QED BY <3>1
  <2>2. CASE Aps(i) # {}
    <3>1. PICK a \in Ifaces : ApOf(i) = a /\ \A b \in Ifaces : a \notin Vlans(b)
      BY <2>2, ApsOf
    <3>2. Aps(a) = {} BY <3>1 DEF Aps
    <3>3. Own(a) = needed[a] BY <3>2 DEF Own
    <3>4. Own(i) = needed[i] - needed[a] BY <2>2, <3>1 DEF Own
    <3>5. QED BY <3>3, <3>4
  <2>3. QED BY <2>1, <2>2
<1>2. ASSUME NEW i \in Vlans(s) PROVE i \in Ifaces /\ needed[i] >= needed[s]
  <2>1. i \in Ifaces BY <1>2 DEF Vlans
  <2>2. Aps(i) # {} /\ ApOf(i) = s BY <1>2, <2>1, ApsOf
  <2>3. Own(i) = needed[i] - needed[s] BY <2>2 DEF Own
  <2>4. QED BY <2>1, <2>3
<1>3. QED BY <1>1, <1>2 DEF Covers

(* A tally is a number: there are finitely many keys.                      *)
LEMMA TallyIs ==
  ASSUME NEW s
  PROVE  IsFiniteSet(Counted(s)) /\ Tally(s) \in Nat /\ IsFiniteSet(Counted(s)') /\ Tally(s)' \in Nat
<1>1. IsFiniteSet(Key) BY KeyAssumption, FS_Interval DEF KeyAssumption, Key
<1>2. Counted(s) \in SUBSET Key BY DEF Counted
<1>3. Counted(s)' \in SUBSET Key BY DEF Counted
<1>4. IsFiniteSet(Counted(s)) /\ IsFiniteSet(Counted(s)')
  BY <1>1, <1>2, <1>3, FS_Subset
<1>5. QED BY <1>4, FS_CardinalityType DEF Tally

(* One key counts or counts no more: its interface's tally moves by one.   *)
LEMMA TallyMoves ==
  ASSUME KInv, [Next]_vars, NEW k \in Key,
         InCount(k) \/ InCount(k)' => k \in Linked /\ k \in Linked',
         \A j \in Key \ {k} : InCount(j)' <=> InCount(j),
         NEW s \in Ifaces
  PROVE  /\ s = key[k].sdata /\ InCount(k)' /\ ~InCount(k) => Tally(s)' = Tally(s) + 1
         /\ s = key[k].sdata /\ ~InCount(k)' /\ InCount(k) => Tally(s)' = Tally(s) - 1
         /\ s # key[k].sdata \/ (InCount(k)' <=> InCount(k)) => Tally(s)' = Tally(s)
<1>1. \A j \in Key \ {k} : InCount(j) /\ InCount(j)' => key'[j].sdata = key[j].sdata
  BY Persist DEF InCount
<1>2. InCount(k) \/ InCount(k)' => key'[k].sdata = key[k].sdata BY Persist
<1>3. \A j \in Key : j # k => (j \in Counted(s)' <=> j \in Counted(s))
  BY <1>1 DEF Counted
<1>4. \A j : j \in Counted(s) => j \in Key BY DEF Counted
<1>5. \A j : j \in Counted(s)' => j \in Key BY DEF Counted
<1>6. k \in Counted(s) <=> InCount(k) /\ key[k].sdata = s BY DEF Counted
<1>7. k \in Counted(s)' <=> InCount(k)' /\ key[k].sdata = s BY <1>2 DEF Counted
<1>8. PICK A, B : A = Counted(s) /\ B = Counted(s)' OBVIOUS
<1>9. /\ IsFiniteSet(A) /\ Cardinality(A) = Tally(s) /\ Cardinality(B) = Tally(s)'
      /\ Cardinality(A) \in Nat
  BY <1>8, TallyIs DEF Tally
<1>10. \A j : j # k => (j \in B <=> j \in A) BY <1>3, <1>4, <1>5, <1>8
<1>11. CASE s = key[k].sdata /\ InCount(k)' /\ ~InCount(k)
  <2>1. k \in B /\ k \notin A BY <1>6, <1>7, <1>8, <1>11
  <2>2. B = A \cup {k} BY <1>10, <2>1
  <2>3. Cardinality(B) = Cardinality(A) + 1 BY <1>9, <2>1, <2>2, FS_AddElement
  <2>4. QED BY <1>9, <1>11, <2>3
<1>12. CASE s = key[k].sdata /\ ~InCount(k)' /\ InCount(k)
  <2>1. k \notin B /\ k \in A BY <1>6, <1>7, <1>8, <1>12
  <2>2. B = A \ {k} BY <1>10, <2>1
  <2>3. Cardinality(B) = Cardinality(A) - 1 BY <1>9, <2>1, <2>2, FS_RemoveElement
  <2>4. QED BY <1>9, <1>12, <2>3
<1>13. CASE s # key[k].sdata \/ (InCount(k)' <=> InCount(k))
  <2>1. k \in B <=> k \in A BY <1>6, <1>7, <1>8, <1>13
  <2>2. B = A BY <1>10, <2>1
  <2>3. QED BY <1>9, <1>13, <2>2
<1>14. QED BY <1>11, <1>12, <1>13

(* All but five actions change neither whether a key is to be counted nor  *)
(* the counters' share of it.                                              *)
LEMMA InCountKept ==
  ASSUME KInv, [Next]_vars, NEW k \in Key, ~Increment, ~Settle, ~Accelerate, ~NotAccelerated,
         ~Resume
  PROVE  InCount(k)' <=> InCount(k)
<1>h. /\ Typed /\ hand \in Hand /\ key \in KeyTable /\ Course /\ Works /\ Flags
      /\ hand.old \in Key \cup {NoKey} /\ hand.new \in Key \cup {NoKey}
      /\ hand.batch \subseteq Key /\ NoKey \notin Key /\ hand.op \in Ops
  BY HandTypes DEF KInv
<1>l. \A s \in Ifaces : list[s] \subseteq Linked BY ListsLinked DEF KInv
<1>e. key' = key => (Needs(k)' <=> Needs(k)) /\ (k \in Linked' <=> k \in Linked)
  BY DEF Needs, Linked
<1>g. Free => /\ hand.op = "none" /\ hand.old = NoKey /\ hand.new = NoKey /\ hand.batch = {}
              /\ hand.at = "idle" /\ Where = "idle" /\ ~Extra(k) /\ ~Missing(k)
  BY <1>h DEF Course, Idle, Where, Waits, Free, Extra, Missing
<1> USE DEF Where, Waits, Waiting, Taking, Off, HandIs
<1>1. CASE Install \/ RekeyAdd
  <2>1. PICK s \in ifaces, a \in Stas \cup {NoSta}, kind \in AnyKind :
    /\ Link(s, a, kind) /\ s \in Ifaces /\ (a # NoSta => s = Home[a] /\ a \notin removed)
    /\ PlaceOf(s, a, kind) \in Place /\ slot[PlaceOf(s, a, kind)] \in Key \cup {NoKey}
    BY <1>1, <1>h, InstallLinks
  <2> PICK old : old = slot[PlaceOf(s, a, kind)]  OBVIOUS
  <2>2. PICK j \in Key :
    /\ Free /\ key[j] = Blank /\ key' = [key EXCEPT ![j] = Alloc(s, a, kind)]
    /\ HandIs("link", "inc", "add", old, j, {})
    BY <2>1, LinkMoves
  <2>3. /\ j \notin Linked
        /\ (k # j => (k \in Linked' <=> k \in Linked) /\ key'[k] = key[k])
    BY <1>h, <2>1, <2>2, NewKey
  <2>4. ~Extra(k)' /\ (Missing(k)' <=> k = j) BY <2>2 DEF Extra, Missing
  <2>5. QED BY <1>g, <2>2, <2>3, <2>4 DEF InCount, Needs
<1>2. CASE Synchronize \/ Synchronized
  <2>1. hand.at \in {"sync", "wait"} /\ (Go("wait") \/ Go(hand.then)) /\ key' = key
    BY <1>2 DEF Synchronize, Synchronized
  <2>2. hand'.new = hand.new /\ hand'.old = hand.old /\ hand'.op = hand.op
        /\ hand'.then = hand.then /\ hand'.batch = hand.batch
    BY <1>h, <2>1, GoMoves DEF Hand, Spots
  <2>3. hand'.at = "wait" \/ hand'.at = hand.then
    BY <1>h, <2>1, GoMoves DEF Hand, Spots
  <2>4. hand.then \in {"add", "point", "clear", "accel", "disable", "next"}
    BY <1>h, <2>1 DEF Course
  <2>5. Where' = Where  BY <2>1, <2>2, <2>3, <2>4
  <2>6. hand.at \notin {"inc", "free"} /\ hand'.at \notin {"inc", "free"}
    BY <2>1, <2>3, <2>4
  <2>7. (Extra(k)' <=> Extra(k)) /\ (Missing(k)' <=> Missing(k))
    BY <2>2, <2>5, <2>6 DEF Extra, Missing
  <2>8. QED BY <1>e, <2>1, <2>7 DEF InCount
<1>3. CASE AddToList
  <2>1. hand.at = "add" /\ Go("point") /\ hand.op = "link" /\ key' = key
    BY <1>h, <1>3, Stands DEF AddToList
  <2>2. QED BY <1>h, <1>e, <2>1, GoMoves DEF Spots, InCount, Extra, Missing
<1>4. CASE IterRemove
  <2>1. PICK s \in Ifaces : \E i \in list[s] :
      /\ Free /\ i \in Key
      /\ key' = [key EXCEPT ![i].up = FALSE, ![i].dropped = @ \/ key[i].up]
      /\ HandIs("remove", IF key[i].up /\ ~key[i].keeps THEN "inc" ELSE "point", "point",
                i, NoKey, {})
    BY <1>h, <1>4, IterRemoveMoves
  <2>2. PICK i \in list[s] :
      /\ Free /\ i \in Key
      /\ key' = [key EXCEPT ![i].up = FALSE, ![i].dropped = @ \/ key[i].up]
      /\ HandIs("remove", IF key[i].up /\ ~key[i].keeps THEN "inc" ELSE "point", "point",
                i, NoKey, {})
    BY <2>1
  <2>3. i \in Linked BY <1>l, <2>2
  <2>4. KeyIs(i, FALSE, key[i].keeps, key[i].dropped \/ key[i].up)
    BY <1>h, <2>2, <2>3, IterRemoveKey
  <2>5. (k \in Linked' <=> k \in Linked) /\ (k # i => key'[k] = key[k])
        /\ Needs(i)' /\ key'[i].keeps = key[i].keeps
    BY <2>4 DEF KeyIs, SameKeys, Needs
  <2>6. ~Extra(k)' /\ (Missing(k)' <=> k = i /\ key[i].up /\ ~key[i].keeps)
    BY <2>2 DEF Extra, Missing
  <2>7. k # i => (Needs(k)' <=> Needs(k)) BY <2>5 DEF Needs
  <2>8. QED BY <1>g, <2>2, <2>5, <2>6, <2>7 DEF InCount, Needs
<1>5. CASE FreeKeys
  <2>1. Free /\ key' = key /\ HandIs("freekeys", "flush", "idle", NoKey, NoKey, {})
    BY <1>h, <1>5, FreeKeysMoves
  <2>2. QED BY <1>g, <1>e, <2>1 DEF InCount, Extra, Missing
<1>6. CASE FreeStaKeys
  <2>1. Free /\ key' = key /\ hand'.op = "freesta" /\ hand'.at = "next"
    BY <1>h, <1>6, FreeStaKeysMoves
  <2>2. QED BY <1>g, <1>e, <2>1 DEF InCount, Extra, Missing
<1>13. CASE Point
  <2>1. /\ hand.at = "point" /\ Go(IF hand.old = NoKey THEN "accel" ELSE "del")
        /\ key' = key
    BY <1>13 DEF Point
  <2>2. hand.op # "resume" /\ hand'.at \in {"accel", "del"}
    BY <1>h, <2>1, Stands, GoMoves DEF Spots
  <2>3. QED BY <1>h, <1>e, <2>1, <2>2, GoMoves DEF Spots, InCount, Extra, Missing
<1>14. CASE DelFromList
  <2>1. hand.at = "del" /\ hand.old \in Key /\ key' = key
    BY <1>h, <1>14 DEF DelFromList, Works, Linked
  <2>o. hand.op \in {"link", "fail", "remove", "freekeys", "freesta"}
    BY <1>h, <2>1, Stands
  <2>2. CASE hand.op = "freekeys"
    BY <1>h, <1>e, <1>14, <2>1, <2>2, DelMoves DEF InCount, Extra, Missing
  <2>3. CASE hand.op = "freesta"
    BY <1>h, <1>e, <1>14, <2>1, <2>3, DelMoves DEF InCount, Extra, Missing
  <2>4. CASE hand.op \notin {"freekeys", "freesta"}
    BY <1>h, <1>e, <1>14, <2>1, <2>o, <2>4, DelMoves DEF InCount, Extra, Missing
  <2>5. QED  BY <2>2, <2>3, <2>4
<1>15. CASE Disable
  <2>1. hand.at = "disable" /\ hand.op # "resume" /\ key' = key
    BY <1>h, <1>15, Stands DEF Disable
  <2>2. HandIs(hand.op, IF ~key[hand.old].up THEN "settle"
                        ELSE IF key[hand.old].keeps THEN "clear" ELSE "inc",
               "clear", hand.old, hand.new, hand.batch)
    BY <1>h, <1>15, DisableMoves
  <2>3. ~Extra(k) /\ ~Missing(k) BY <2>1 DEF Extra, Missing
  <2>4. CASE ~key[hand.old].up
    <3>1. ~Extra(k)' /\ ~Missing(k)' BY <2>1, <2>2, <2>4 DEF Extra, Missing
    <3>2. QED BY <1>e, <2>1, <2>3, <3>1 DEF InCount
  <2>5. CASE key[hand.old].up /\ key[hand.old].keeps
    <3>1. (Extra(k)' <=> k = hand.old) /\ ~Missing(k)'
      BY <2>1, <2>2, <2>5 DEF Extra, Missing
    <3>2. QED BY <1>e, <2>1, <2>3, <2>5, <3>1 DEF InCount, Needs
  <2>6. CASE key[hand.old].up /\ ~key[hand.old].keeps
    <3>1. (Missing(k)' <=> k = hand.old) /\ ~Extra(k)'
      BY <2>1, <2>2, <2>6 DEF Extra, Missing
    <3>2. QED BY <1>e, <2>1, <2>3, <2>6, <3>1 DEF InCount, Needs
  <2>7. QED BY <2>4, <2>5, <2>6
<1>16. CASE ClearUploaded
  <2>1. hand.at = "clear" /\ hand.op # "resume" /\ hand.old \in Linked
    BY <1>h, <1>16, Stands DEF ClearUploaded, Works
  <2>2. KeyIs(hand.old, FALSE, key[hand.old].keeps, key[hand.old].dropped)
    BY <1>h, <1>16, <2>1, ClearKey DEF ClearUploaded
  <2>3. (k \in Linked' <=> k \in Linked) /\ (k # hand.old => key'[k] = key[k])
        /\ ~key'[hand.old].up
    BY <2>2 DEF KeyIs, SameKeys
  <2>4. (Extra(k) <=> k = hand.old) /\ ~Missing(k) BY <2>1 DEF Extra, Missing
  <2>5. ~Extra(k)' /\ ~Missing(k)'
    BY <1>h, <1>16, <2>1, GoMoves DEF ClearUploaded, Spots, Extra, Missing
  <2>6. QED BY <2>1, <2>3, <2>4, <2>5 DEF InCount, Needs
<1>18. CASE FreeKey
  <2>1. /\ hand.at = "free" /\ hand.old \in Linked
        /\ key' = [key EXCEPT ![hand.old] = Blank]
    BY <1>h, <1>18 DEF FreeKey, Works
  <2>2. /\ hand.old \notin Linked'
        /\ (k # hand.old => (k \in Linked' <=> k \in Linked) /\ key'[k] = key[k])
     BY <1>h, <2>1, FreedKey
  <2>3. /\ ~Extra(k) /\ (Missing(k) <=> k = hand.old)
        /\ hand.op \in {"link", "fail", "remove", "freekeys", "freesta"}
    BY <1>h, <2>1, Stands DEF Extra, Missing
  <2>4. ~Extra(k)' /\ ~Missing(k)'
    <3>1. CASE hand.op \in {"fail", "remove"}
      BY <1>h, <1>18, <3>1, FreeKeyMoves, IdleIs DEF Extra, Missing
    <3>2. CASE hand.op \in {"link", "freekeys", "freesta"}
      BY <1>h, <1>18, <3>2, FreeKeyMoves DEF Extra, Missing
    <3>3. QED BY <2>3, <3>1, <3>2
  <2>5. QED BY <2>2, <2>3, <2>4 DEF InCount, Needs
<1>19. CASE Flush
  <2>1. hand.at = "flush" /\ Go("unlink") /\ key' = key /\ hand.op = "freekeys"
    BY <1>h, <1>19, Stands DEF Flush
  <2>2. QED BY <1>h, <1>e, <2>1, GoMoves DEF Spots, InCount, Extra, Missing
<1>20. CASE UnlinkKey
  <2>1. hand.at = "unlink" /\ hand.op = "freekeys" /\ key' = key
    BY <1>h, <1>20, Stands DEF UnlinkKey
  <2>2. hand.on \in Ifaces  BY <2>1 DEF KInv, Emptied
  <2>3. hand'.at = "point" /\ hand'.op = "freekeys"
    BY <1>h, <1>20, <2>1, <2>2, UnlinkKeyMoves
  <2>4. QED BY <1>e, <2>1, <2>3 DEF InCount, Extra, Missing
<1>21. CASE UnlinkNext
  <2>1. hand.at = "unlink" /\ hand.op = "freekeys" /\ key' = key
    BY <1>h, <1>21, Stands DEF UnlinkNext
  <2>2. QED
    BY <1>h, <1>e, <1>21, <2>1, UnlinkNextMoves DEF InCount, Extra, Missing
<1>22. CASE UnlinkEnd
  <2>1. hand.at = "unlink" /\ hand.op = "freekeys" /\ key' = key
    BY <1>h, <1>22, Stands DEF UnlinkEnd
  <2>2. Grace("next") \/ Go("next") BY <1>22 DEF UnlinkEnd
  <2>4. QED
    BY <1>h, <1>e, <2>1, <2>2, GoMoves, GraceMoves
      DEF InCount, Extra, Missing, Spots
<1>23. CASE NextKey
  <2>1. /\ hand.at = "next" /\ hand.op \in {"freekeys", "freesta", "resume"}
        /\ key' = key
    BY <1>h, <1>23, Stands DEF NextKey
  <2>2. CASE hand.op \in {"freekeys", "freesta"}
    BY <1>h, <1>e, <1>23, <2>1, <2>2, NextKeyMoves DEF InCount, Extra, Missing
  <2>3. CASE hand.op = "resume"
    <3>1. PICK i \in hand.batch : HandIs("resume", "inc", "accel", hand.old, i, hand.batch \ {i})
      BY <1>h, <1>23, <2>3, NextKeyMoves
    <3>2. QED BY <1>e, <2>1, <2>3, <3>1 DEF InCount, Extra, Missing
  <2>5. QED  BY <2>1, <2>2, <2>3
<1>24. CASE LastKey
  <2>1. /\ hand.at = "next" /\ hand.batch = {} /\ key' = key
        /\ HandIs("none", "idle", "idle", NoKey, NoKey, {})
    BY <1>24, IdleIs DEF LastKey
  <2>2. QED BY <1>e, <2>1 DEF InCount, Extra, Missing
<1>25. CASE LinkEnds
  <2>1. /\ hand.at = "accel" /\ hand.op = "link" /\ key' = key
        /\ HandIs("none", "idle", "idle", NoKey, NoKey, {})
    BY <1>h, <1>25, UploadedMoves, IdleIs DEF LinkEnds
  <2>2. QED BY <1>e, <2>1 DEF InCount, Extra, Missing
<1>27. CASE Taint
  <2>1. hand' = hand /\ (k \in Linked' <=> k \in Linked)
        /\ (k \in Linked => key'[k].up = key[k].up /\ key'[k].keeps = key[k].keeps)
    BY <1>h, <1>l, <1>27, TaintedKeys DEF SameKeys, Taint
  <2>2. QED BY <2>1 DEF InCount, Extra, Missing, Needs
<1>28. CASE Quiet /\ ~Taint
  <2>1. hand' = hand BY <1>28, QuietHand
  <2>2. key' = key
    BY <1>28
      DEF Quiet, SetDefault, DelayedDec, Suspend, StaLeaves, StaReturns, Begin,
          Select, Visit, End, vars
  <2>3. QED BY <1>e, <2>1, <2>2 DEF InCount, Extra, Missing
<1>37. QED
  BY <1>1, <1>2, <1>3, <1>4, <1>5, <1>6, <1>13, <1>14, <1>15, <1>16, <1>18, <1>19,
      <1>20, <1>21, <1>22, <1>23, <1>24, <1>25, <1>27, <1>28
    DEF Next, Operation, Step, Others, Quiet

(* The key that an increment is for.                                       *)
RaisedKey == IF hand.then \in {"add", "accel"} THEN hand.new ELSE hand.old

(* increment_tailroom_need_count counts the key it is called for, which    *)
(* was not counted.                                                        *)
LEMMA IncrementCounts ==
  ASSUME KInv, Increment
  PROVE  /\ RaisedKey \in Linked /\ Raised = key[RaisedKey].sdata /\ key' = key
         /\ ~InCount(RaisedKey) /\ InCount(RaisedKey)'
         /\ \A j \in Key \ {RaisedKey} : InCount(j)' <=> InCount(j)
<1>h. /\ Typed /\ hand \in Hand /\ key \in KeyTable /\ Course /\ Works /\ Flags
      /\ hand.old \in Key \cup {NoKey} /\ hand.new \in Key \cup {NoKey}
      /\ hand.batch \subseteq Key /\ NoKey \notin Key /\ hand.op \in Ops
  BY HandTypes DEF KInv
<1> USE DEF Where, Waits, Waiting, Taking, Off, HandIs
<1>1. hand.at = "inc" /\ (Go("sync") \/ Go(hand.then)) /\ key' = key
  BY DEF Increment
<1>2. hand.then \in {"add", "point", "clear", "accel"} BY <1>h, <1>1 DEF Course
<1>3. hand'.new = hand.new /\ hand'.old = hand.old /\ hand'.op = hand.op
      /\ hand'.then = hand.then /\ hand'.batch = hand.batch
      /\ (hand'.at = "sync" \/ hand'.at = hand.then)
  BY <1>h, <1>1, GoMoves DEF Hand, Spots
<1>e. \A j \in Key : (Needs(j)' <=> Needs(j)) /\ (j \in Linked' <=> j \in Linked)
  BY <1>1 DEF Needs, Linked
<1>4. CASE hand.then = "add"
  <2>1. /\ hand.op = "link" /\ hand.new # NoKey /\ hand.new \in Linked
        /\ Needs(hand.new)
    BY <1>h, <1>1, <1>4, Stands DEF Works, Flags, Needs
  <2>2. \A j \in Key : /\ ~Extra(j) /\ ~Extra(j)' /\ ~Missing(j)'
                       /\ Missing(j) <=> j = hand.new
    BY <1>1, <1>3, <1>4, <2>1 DEF Extra, Missing
  <2>3. RaisedKey = hand.new /\ RaisedKey' = hand.new BY <1>3, <1>4 DEF RaisedKey
  <2>4. hand.new \in Key /\ Raised = key[hand.new].sdata
    BY <2>1, <1>4 DEF Linked, Raised
  <2>5. ~InCount(hand.new) BY <2>2, <2>4 DEF InCount
  <2>6. \A j \in Key : InCount(j)' <=> j \in Linked /\ Needs(j)
    BY <1>e, <2>2 DEF InCount
  <2>7. \A j \in Key \ {hand.new} : InCount(j) <=> j \in Linked /\ Needs(j)
    BY <2>2 DEF InCount
  <2>9. PICK k : k = hand.new OBVIOUS
  <2>10. InCount(k)' BY <2>1, <2>4, <2>6, <2>9
  <2>11. InCount(RaisedKey)'
    BY <2>3, <2>9, <2>10 DEF InCount, Extra, Missing, Needs
  <2>12. QED BY <1>1, <2>1, <2>3, <2>4, <2>5, <2>6, <2>7, <2>11
<1>5. CASE hand.then = "accel"
  <2>1. /\ hand.op = "resume" /\ hand.new # NoKey /\ hand.new \in Linked
        /\ hand.new \notin hand.batch
    BY <1>h, <1>1, <1>5 DEF Works, Course
  <2>2. \A j \in Key : /\ ~Extra(j) /\ (Extra(j)' <=> j = hand.new)
                       /\ Missing(j)' <=> j \in hand.batch
                       /\ Missing(j) <=> j = hand.new \/ j \in hand.batch
    BY <1>1, <1>3, <1>5, <2>1 DEF Extra, Missing
  <2>3. RaisedKey = hand.new /\ RaisedKey' = hand.new BY <1>3, <1>5 DEF RaisedKey
  <2>4. hand.new \in Key /\ Raised = key[hand.new].sdata
    BY <2>1, <1>5 DEF Linked, Raised
  <2>5. ~InCount(hand.new) BY <2>2, <2>4 DEF InCount
  <2>6. \A j \in Key : InCount(j)' <=> j \in Linked /\ (j = hand.new \/ (Needs(j) /\ j \notin hand.batch))
    BY <1>e, <2>2 DEF InCount
  <2>7. \A j \in Key \ {hand.new} : InCount(j) <=> j \in Linked /\ Needs(j) /\ j \notin hand.batch
    BY <2>2 DEF InCount
  <2>9. PICK k : k = hand.new OBVIOUS
  <2>10. InCount(k)' BY <2>1, <2>4, <2>6, <2>9
  <2>11. InCount(RaisedKey)'
    BY <2>3, <2>9, <2>10 DEF InCount, Extra, Missing, Needs
  <2>12. QED BY <1>1, <2>1, <2>3, <2>4, <2>5, <2>6, <2>7, <2>11
<1>6. CASE hand.then \in {"point", "clear"}
  <2>1. /\ hand.op # "resume" /\ hand.op # "none" /\ hand.old # NoKey
        /\ hand.old \in Linked
    BY <1>h, <1>1, <1>6, Stands DEF Works, Course
  <2>p. hand.then = "point" => Needs(hand.old)
    BY <1>h, <1>1, <1>6 DEF Course, Flags, Needs
  <2>2. \A j \in Key : /\ ~Extra(j) /\ (Extra(j)' <=> j = hand.old /\ hand.then = "clear")
                       /\ ~Missing(j)'
                       /\ Missing(j) <=> j = hand.old
    BY <1>1, <1>3, <1>6, <2>1 DEF Extra, Missing
  <2>3. RaisedKey = hand.old /\ RaisedKey' = hand.old BY <1>3, <1>6 DEF RaisedKey
  <2>4. hand.old \in Key /\ Raised = key[hand.old].sdata
    BY <2>1, <1>6 DEF Linked, Raised
  <2>5. ~InCount(hand.old) BY <2>2, <2>4 DEF InCount
  <2>6. \A j \in Key : InCount(j)' <=> j \in Linked /\ ((j = hand.old /\ hand.then = "clear") \/ Needs(j))
    BY <1>e, <2>2 DEF InCount
  <2>7. \A j \in Key \ {hand.old} : InCount(j) <=> j \in Linked /\ Needs(j)
    BY <2>2 DEF InCount
  <2>9. PICK k : k = hand.old OBVIOUS
  <2>10. InCount(k)' BY <1>6, <2>p, <2>1, <2>4, <2>6, <2>9
  <2>11. InCount(RaisedKey)'
    BY <2>3, <2>9, <2>10 DEF InCount, Extra, Missing, Needs
  <2>12. QED BY <1>1, <2>1, <2>3, <2>4, <2>5, <2>6, <2>7, <2>11
<1>7. QED BY <1>2, <1>4, <1>5, <1>6

(* decrease_tailroom_need_count, or the decrement left pending, is for a   *)
(* key that was counted (key.c:578-587).                                   *)
LEMMA SettleCounts ==
  ASSUME KInv, Settle, NEW k, k = hand.old
  PROVE  /\ k \in Linked /\ k \in Key /\ key' = key
         /\ InCount(k) /\ ~InCount(k)'
         /\ \A j \in Key \ {k} : InCount(j)' <=> InCount(j)
<1>h. /\ Typed /\ hand \in Hand /\ key \in KeyTable /\ Course /\ Works /\ Flags
  BY HandTypes DEF KInv
<1> USE DEF Where, Waits, Waiting, Taking, Off, HandIs
<1>1. hand.at = "settle" /\ Go("free") /\ key' = key BY DEF Settle
<1>2. hand.op # "resume" /\ k # NoKey /\ k \in Linked /\ k \in Key /\ Needs(k)
  BY <1>h, <1>1, Stands DEF Works, Flags, Needs, Linked
<1>3. \A j \in Key : ~Extra(j) /\ ~Missing(j) BY <1>1, <1>2 DEF Extra, Missing
<1>4. \A j \in Key : ~Extra(j)' /\ (Missing(j)' <=> j = k)
  BY <1>h, <1>1, <1>2, GoMoves DEF Extra, Missing, Spots
<1>5. \A j \in Key : (Needs(j)' <=> Needs(j)) /\ (j \in Linked' <=> j \in Linked)
  BY <1>1 DEF Needs, Linked
<1>6. QED BY <1>1, <1>2, <1>3, <1>4, <1>5 DEF InCount

(* Before the hardware is asked, the key it is asked for is counted.       *)
LEMMA UploadCounts ==
  ASSUME KInv, hand.at = "accel", NEW k, k = hand.new
  PROVE  /\ k \in Linked /\ k \in Key /\ InCount(k) /\ k \notin hand.batch
         /\ hand.op \in {"link", "resume"} /\ hand.old = NoKey
         /\ hand.op = "link" => Needs(k) /\ hand.batch = {} /\ ~key[k].up
         /\ \A j \in Key \ {k} :
              InCount(j) <=> j \in Linked /\ Needs(j) /\ j \notin hand.batch
<1>h. /\ Typed /\ hand \in Hand /\ key \in KeyTable /\ Course /\ Works /\ Flags
  BY HandTypes DEF KInv
<1> USE DEF Where, Waits, Waiting, Taking, Off, HandIs
<1>1. hand.op \in {"link", "resume"} BY <1>h, Stands
<1>2. /\ k # NoKey /\ k \in Linked /\ k \notin hand.batch /\ k \in Key /\ hand.old = NoKey
      /\ hand.op = "link" => Needs(k) /\ hand.batch = {} /\ ~key[k].up
  BY <1>h, <1>1 DEF Works, Flags, Needs, Linked
<1>3. \A j \in Key : /\ Extra(j) <=> hand.op = "resume" /\ j = k
                     /\ Missing(j) <=> hand.op = "resume" /\ j \in hand.batch
  BY <1>1 DEF Extra, Missing
<1>4. QED BY <1>1, <1>2, <1>3 DEF InCount

(* Afterwards it counts if software still needs its room ...               *)
LEMMA UploadedCounts ==
  ASSUME KInv, hand.at = "accel", NEW k, k = hand.new, SameKeys, Uploaded,
         \A j \in Key \ {k} : key'[j] = key[j]
  PROVE  /\ InCount(k)' <=> Needs(k)'
         /\ \A j \in Key \ {k} : InCount(j)' <=> InCount(j)
<1>h. hand \in Hand /\ Works BY HandTypes
<1> USE DEF Where, Waits, HandIs
<1>1. /\ k \in Linked /\ k \in Key /\ k \notin hand.batch /\ hand.op \in {"link", "resume"}
      /\ hand.op = "link" => hand.batch = {}
      /\ \A j \in Key \ {k} :
           InCount(j) <=> j \in Linked /\ Needs(j) /\ j \notin hand.batch
  BY UploadCounts
<1>2. \A j \in Key : ~Extra(j)' /\ (Missing(j)' <=> j \in hand.batch)
  <2>1. CASE hand.op = "link"
    BY <1>h, <1>1, <2>1, UploadedMoves, IdleIs DEF Extra, Missing
  <2>2. CASE hand.op = "resume"
    BY <1>h, <1>1, <2>2, UploadedMoves DEF Extra, Missing
  <2>3. QED BY <1>1, <2>1, <2>2
<1>3. \A j \in Key : j \in Linked' <=> j \in Linked BY DEF SameKeys
<1>4. \A j \in Key \ {k} : Needs(j)' <=> Needs(j) BY DEF Needs
<1>5. QED BY <1>1, <1>2, <1>3, <1>4 DEF InCount

(* ... which it does not if the hardware took it, all of it                *)
(* (key.c:181-183) ...                                                     *)
LEMMA AccelerateCounts ==
  ASSUME KInv, Accelerate
  PROVE  \E keeps \in BOOLEAN, k \in Linked :
           /\ k = hand.new /\ k \in Key /\ k \in Linked' /\ InCount(k) /\ (InCount(k)' <=> keeps)
           /\ \A j \in Key \ {k} : InCount(j)' <=> InCount(j)
           /\ KeyIs(k, TRUE, keeps, key[k].dropped)
           /\ IF keeps THEN needed' = needed ELSE Count(key[k].sdata, -1)
           /\ pending' = pending /\ stale' = stale
<1>h. /\ Typed /\ key \in KeyTable BY HandTypes
<1>1. PICK keeps \in BOOLEAN :
           /\ Uploading /\ Uploaded
           /\ key' = [key EXCEPT ![hand.new].up = TRUE, ![hand.new].keeps = keeps]
           /\ IF keeps THEN UNCHANGED needed ELSE Count(key[hand.new].sdata, -1)
           /\ UNCHANGED <<ptrs, pending, armed, grace, rest>>
  BY DEF Accelerate
<1>2. PICK k : k = hand.new OBVIOUS
<1>3. hand.at = "accel" BY <1>1 DEF Uploading
<1>4. k \in Linked /\ k \in Key /\ InCount(k) BY <1>2, <1>3, UploadCounts
<1>5. KeyIs(k, TRUE, keeps, key[k].dropped)
  BY <1>h, <1>1, <1>2, <1>4, AcceleratedKey
<1>6. Needs(k)' <=> keeps BY <1>5 DEF KeyIs, Needs
<1>7. (InCount(k)' <=> Needs(k)') /\ \A j \in Key \ {k} : InCount(j)' <=> InCount(j)
  BY <1>1, <1>2, <1>3, <1>5, UploadedCounts DEF KeyIs
<1>8. k \in Linked' BY <1>4, <1>5 DEF KeyIs, SameKeys
<1>9. QED BY <1>1, <1>2, <1>4, <1>5, <1>6, <1>7, <1>8

(* ... and does if not; only a key whose uploaded flag was left set from   *)
(* before a suspend is then counted for nothing.                           *)
LEMMA RefusedCounts ==
  ASSUME KInv, NotAccelerated
  PROVE  \E k \in Linked :
           /\ k = hand.new /\ k \in Key /\ k \in Linked' /\ InCount(k)
           /\ ~InCount(k)' => stale'
           /\ \A j \in Key \ {k} : InCount(j)' <=> InCount(j)
           /\ KeyIs(k, key[k].up /\ ~key[k].tainted, key[k].keeps, key[k].dropped)
           /\ needed' = needed /\ pending' = pending /\ (stale => stale')
           /\ hand.op \in {"link", "resume"} /\ (hand.op = "link" => ~key[k].up)
<1>h. /\ Typed /\ key \in KeyTable /\ hand \in Hand BY HandTypes
<1>1. /\ hand.at = "accel" /\ needed' = needed /\ pending' = pending
      /\ \/ Uploaded
         \/ hand.op = "link" /\ hand' = [hand EXCEPT !.op = "fail", !.at = "point",
                                           !.old = hand.new, !.new = NoKey]
      /\ key' = [key EXCEPT ![hand.new].up = @ /\ ~key[hand.new].tainted]
      /\ stale' = (stale \/ key'[hand.new].up)
  BY DEF NotAccelerated, Uploading
<1>2. PICK k : k = hand.new OBVIOUS
<1>4. k \in Linked /\ k \in Key /\ InCount(k) /\ hand.op \in {"link", "resume"}
      /\ (hand.op = "link" => ~key[k].up)
  BY <1>1, <1>2, UploadCounts
<1>5. KeyIs(k, key[k].up /\ ~key[k].tainted, key[k].keeps, key[k].dropped)
  BY <1>h, <1>1, <1>2, <1>4, RefusedKey
<1>8. k \in Linked' BY <1>4, <1>5 DEF KeyIs, SameKeys
<1>6. /\ ~InCount(k)' => stale'
      /\ \A j \in Key \ {k} : InCount(j)' <=> InCount(j)
  <2>1. CASE Uploaded
    <3>1. (InCount(k)' <=> Needs(k)') /\ \A j \in Key \ {k} : InCount(j)' <=> InCount(j)
      BY <1>1, <1>2, <1>5, <2>1, UploadedCounts DEF KeyIs
    <3>2. QED BY <1>1, <1>2, <3>1 DEF Needs
  <2>2. CASE hand.op = "link" /\ hand' = [hand EXCEPT !.op = "fail", !.at = "point",
                                           !.old = hand.new, !.new = NoKey]
    <3>1. HandIs("fail", "point", hand.then, k, NoKey, hand.batch)
      BY <1>h, <1>2, <1>4, <2>2, RefusedMoves
    <3>2. \A j \in Key : ~Extra(j)' /\ ~Missing(j)'
      BY <3>1 DEF HandIs, Extra, Missing, Where, Waits
    <3>3. hand.batch = {} /\ \A j \in Key \ {k} :
              InCount(j) <=> j \in Linked /\ Needs(j) /\ j \notin hand.batch
      BY <1>1, <1>2, <2>2, UploadCounts
    <3>4. Needs(k)' BY <1>4, <1>5, <2>2 DEF KeyIs, Needs
    <3>5. \A j \in Key \ {k} : (j \in Linked' <=> j \in Linked) /\ (Needs(j)' <=> Needs(j))
      BY <1>5 DEF KeyIs, SameKeys, Needs
    <3>6. QED BY <1>4, <1>8, <3>2, <3>3, <3>4, <3>5 DEF InCount
  <2>3. QED BY <1>1, <2>1, <2>2
<1>9. QED BY <1>1, <1>2, <1>4, <1>5, <1>6, <1>8

(* Other steps leave the counters ...                                      *)
LEMMA CountersKept ==
  ASSUME [Next]_vars, ~(\E s \in Ifaces : DelayedDec(s)), ~Resume, ~Increment, ~Settle,
         ~Flush, ~Accelerate
  PROVE  needed' = needed /\ pending' = pending
BY DEF Next, Operation, Step, Others, vars, Install, RekeyAdd, Link, SetDefault,
    IterRemove, RemoveKey, FreeKeys, FreeStaKeys, Synchronize, Synchronized,
    AddToList, Point, DelFromList, Disable, ClearUploaded, FreeKey, UnlinkKey,
    UnlinkNext, UnlinkEnd, NextKey, LastKey, LinkEnds, NotAccelerated, Suspend,
    Taint, StaLeaves, StaReturns, Begin, Select, Visit, End

(* ... and the history alone.                                              *)
LEMMA StaleKept == ASSUME [Next]_vars, ~NotAccelerated PROVE stale' = stale
BY DEF Next, Operation, Step, Others, vars, Install, RekeyAdd, Link, SetDefault,
    IterRemove, RemoveKey, FreeKeys, FreeStaKeys, Resume, DelayedDec, Increment,
    Synchronize, Synchronized, AddToList, Point, DelFromList, Disable,
    ClearUploaded, Settle, FreeKey, Flush, UnlinkKey, UnlinkNext, UnlinkEnd,
    NextKey, LastKey, LinkEnds, Accelerate, Suspend, Taint, StaLeaves, StaReturns,
    Begin, Select, Visit, End

(* What an interface counts beyond its keys and its pending decrements.    *)
Spare(s) == Own(s) - Tally(s) - pending[s]

(* A tally is kept if what counts is.                                      *)
LEMMA TallyKept ==
  ASSUME KInv, [Next]_vars, ~Increment, ~Settle, ~Accelerate, ~NotAccelerated, ~Resume,
         NEW s \in Ifaces
  PROVE  Tally(s)' = Tally(s)
<1>1. \A k \in Key : InCount(k)' <=> InCount(k) BY InCountKept
<1>2. \A k \in Key : InCount(k) /\ InCount(k)' => key'[k].sdata = key[k].sdata
  BY Persist DEF InCount
<1>3. \A k \in Key : k \in Counted(s)' <=> k \in Counted(s)
  BY <1>1, <1>2 DEF Counted
<1>4. Counted(s) \subseteq Key BY DEF Counted
<1>5. Counted(s)' \subseteq Key BY DEF Counted
<1>6. Counted(s)' = Counted(s) BY <1>3, <1>4, <1>5
<1>7. QED BY <1>6 DEF Tally

(* A resume starts to count again from nothing (key.c:746-760).            *)
LEMMA ResumeCounts ==
  ASSUME KInv, [Next]_vars, Resume, NEW s \in Ifaces
  PROVE  Own(s)' = 0 /\ Tally(s)' = 0 /\ pending[s] = 0 /\ pending' = pending
<1>h. /\ Typed /\ hand \in Hand /\ Course /\ Works /\ Homes /\ ListsRight /\ Unused
      /\ needed \in [Ifaces -> Int] /\ ifaces \subseteq Ifaces /\ Balanced
  BY HandTypes, IfacesOf DEF KInv, Typed
<1>1. /\ Free /\ pending[s] = 0 /\ pending' = pending /\ key' = key
      /\ needed' = [i \in Ifaces |->
                  IF i \in ifaces \cup UNION {Vlans(t) : t \in ifaces} THEN 0 ELSE needed[i]]
  BY DEF Resume
<1>2. hand = Idle BY <1>h, <1>1 DEF Course
<1>3. \A k \in Key : k \in Linked => \E t \in ifaces : k \in list[t]
  <2>1. SUFFICES ASSUME NEW k \in Key, k \in Linked PROVE \E t \in ifaces : k \in list[t]
    OBVIOUS
  <2>2. key[k].sdata \in ifaces BY <1>h, <2>1 DEF Homes
  <2>3. Listed(k) BY <1>2, <2>1 DEF Listed, Idle, Where, Waits, Off, Taking
  <2>4. QED BY <1>h, <2>2, <2>3 DEF ListsRight
<1>4. HandIs("resume", "next", "idle", NoKey, NoKey, UNION {list[t] : t \in ifaces})
  BY <1>h, ResumeMoves
<1>5. ASSUME NEW k \in Key, InCount(k)' PROVE FALSE
  <2>1. k \in Linked BY <1>1, <1>5 DEF InCount, Linked
  <2>2. k \in hand'.batch BY <1>3, <1>4, <2>1 DEF HandIs
  <2>3. Missing(k)' /\ ~Extra(k)'
    BY <1>4, <2>2 DEF HandIs, Missing, Extra, Where, Waits
  <2>4. QED BY <1>5, <2>3 DEF InCount
<1>6. Counted(s)' = {} BY <1>5 DEF Counted
<1>7. Tally(s)' = 0 BY <1>6, FS_EmptySet DEF Tally
<1>8. Own(s)' = 0
  <2>1. CASE Aps(s) = {} /\ \A a \in Ifaces : s \notin Vlans(a)
    <3>0. needed[s] \in Int /\ needed'[s] \in Int BY <1>h, CountersTyped
    <3>1. Own(s)' = needed'[s] /\ Own(s) = needed[s]
      BY <2>1, <3>0, OwnNext DEF Own
    <3>2. s \notin ifaces => needed[s] = 0 BY <1>h, <3>1 DEF Unused
    <3>3. QED BY <1>1, <3>1, <3>2
  <2>2. CASE \E a \in Ifaces : /\ Aps(s) # {} /\ ApOf(s) = a /\ a # s
                               /\ \A b \in Ifaces : s \in Vlans(b) <=> b = a
                               /\ Vlans(s) = {} /\ \A b \in Ifaces : a \notin Vlans(b)
    <3>1. PICK a \in Ifaces : /\ Aps(s) # {} /\ ApOf(s) = a /\ a # s
                              /\ \A b \in Ifaces : s \in Vlans(b) <=> b = a
                              /\ Vlans(s) = {} /\ \A b \in Ifaces : a \notin Vlans(b)
      BY <2>2
    <3>2. Own(s)' = needed'[s] - needed'[a] /\ Own(s) = needed[s] - needed[a]
      BY <3>1, OwnNext DEF Own
    <3>3. Aps(a) = {} BY <3>1 DEF Aps
    <3>4. Own(a) = needed[a] BY <1>h, <3>3 DEF Own
    <3>5. s \in UNION {Vlans(t) : t \in ifaces} <=> a \in ifaces BY <1>h, <3>1
    <3>6. a \notin UNION {Vlans(t) : t \in ifaces} BY <1>h, <3>1
    <3>7. a \notin ifaces => needed[a] = 0 BY <1>h, <3>4 DEF Unused
    <3>8. needed'[a] = 0 BY <1>1, <3>6, <3>7
    <3>9. s \notin ifaces => needed[s] = needed[a]
      <4>1. s \notin ifaces => Own(s) = 0 BY <1>h DEF Unused
      <4>2. needed[s] \in Int /\ needed[a] \in Int BY <1>h
      <4>3. QED BY <3>2, <4>1, <4>2
    <3>10. needed'[s] = 0 BY <1>1, <3>5, <3>7, <3>9
    <3>11. QED BY <3>2, <3>8, <3>10
  <2>3. QED BY <2>1, <2>2, ApsOf
<1>9. QED BY <1>1, <1>7, <1>8

(* A step keeps the counters of an interface in balance: what it gains, it *)
(* gains for a key, and what it loses, for a key or a pending decrement.   *)
LEMMA BalanceKept ==
  ASSUME KInv, [Next]_vars, ~Resume, ~NotAccelerated, NEW s \in Ifaces
  PROVE  /\ Own(s)' - Tally(s)' - pending'[s] = Own(s) - Tally(s) - pending[s]
         /\ s \notin ifaces => Own(s)' = Own(s) /\ pending'[s] = pending[s]
<1>h. /\ Typed /\ hand \in Hand /\ key \in KeyTable /\ Course /\ Works /\ Homes /\ Unused
      /\ needed \in [Ifaces -> Int] /\ pending \in [Ifaces -> Nat] /\ ifaces \subseteq Ifaces
      /\ Emptied /\ NoKey \notin Key
  BY HandTypes, IfacesOf DEF KInv, Typed
<1>i. Own(s) \in Int /\ Tally(s) \in Nat /\ pending[s] \in Nat
  BY <1>h, OwnInt, TallyIs
<1>s. \A k \in Linked : key[k].sdata \in Ifaces /\ key[k].sdata \in ifaces
  BY <1>h DEF Homes
<1>1. ASSUME NEW t \in Ifaces, FlushPending(t), Tally(s)' = Tally(s)
      PROVE  /\ Own(s)' - Tally(s)' - pending'[s] = Own(s) - Tally(s) - pending[s]
             /\ s \notin ifaces => Own(s)' = Own(s) /\ pending'[s] = pending[s]
  <2>1. Count(t, -pending[t]) /\ pending' = [pending EXCEPT ![t] = 0]
    BY <1>1 DEF FlushPending
  <2>2. -pending[t] \in Int BY <1>h
  <2>3. Own(s)' = Own(s) + (IF s = t THEN -pending[t] ELSE 0)
    BY <1>h, <2>1, <2>2, CountShifts
  <2>4. pending'[s] = IF s = t THEN 0 ELSE pending[s] BY <1>h, <2>1
  <2>5. s \notin ifaces => pending[s] = 0 BY <1>h DEF Unused
  <2>6. QED BY <1>1, <1>i, <2>3, <2>4, <2>5
<1>2. CASE \E t \in Ifaces : DelayedDec(t)
  <2>1. PICK t \in Ifaces : DelayedDec(t) BY <1>2
  <2>2. FlushPending(t) BY <2>1 DEF DelayedDec
  <2>3. ~Increment /\ ~Settle /\ ~Accelerate
    BY <2>1 DEF DelayedDec, Free, Increment, Settle, Accelerate, Uploading
  <2>4. QED BY <1>1, <2>2, <2>3, TallyKept
<1>3. CASE Flush
  <2>1. hand.at = "flush" /\ FlushPending(hand.on) BY <1>3 DEF Flush
  <2>2. hand.op = "freekeys" BY <1>h, <2>1, Stands
  <2>3. hand.on \in Ifaces BY <1>h, <2>2 DEF Emptied
  <2>4. ~Increment /\ ~Settle /\ ~Accelerate
    BY <2>1 DEF Increment, Settle, Accelerate, Uploading
  <2>5. QED BY <1>1, <2>1, <2>3, <2>4, TallyKept
<1>4. CASE Increment
  <2>1. PICK k : k = RaisedKey OBVIOUS
  <2>2. PICK t : t = key[k].sdata OBVIOUS
  <2>3. /\ k \in Linked /\ Raised = t /\ key' = key /\ ~InCount(k)
        /\ \A j \in Key \ {k} : InCount(j)' <=> InCount(j)
    BY <1>4, <2>1, <2>2, IncrementCounts
  <2>4. k \in Key /\ k \in Linked' BY <2>3 DEF Linked
  <2>5. InCount(k)'
    <3>1. InCount(RaisedKey)' BY <1>4, IncrementCounts
    <3>2. RaisedKey' = RaisedKey
      <4>1. hand.at = "inc" /\ (Go("sync") \/ Go(hand.then)) BY <1>4 DEF Increment
      <4>2. QED BY <1>h, <4>1, GoMoves DEF HandIs, RaisedKey, Hand, Spots
    <3>3. QED BY <2>1, <3>1, <3>2 DEF InCount, Extra, Missing, Needs
  <2>6. Count(t, 1) /\ pending' = pending /\ t \in Ifaces /\ t \in ifaces
    BY <1>4, <1>s, <2>2, <2>3 DEF Increment
  <2>7. Own(s)' = Own(s) + (IF s = t THEN 1 ELSE 0) BY <1>h, <2>6, CountShifts
  <2>8. Tally(s)' = Tally(s) + (IF s = t THEN 1 ELSE 0)
    BY <1>i, <2>2, <2>3, <2>4, <2>5, TallyMoves
  <2>9. QED BY <1>i, <2>6, <2>7, <2>8
<1>5. CASE Settle
  <2>1. PICK k : k = hand.old OBVIOUS
  <2>2. PICK t : t = key[k].sdata OBVIOUS
  <2>3. /\ k \in Linked /\ k \in Key /\ key' = key /\ InCount(k) /\ ~InCount(k)'
        /\ \A j \in Key \ {k} : InCount(j)' <=> InCount(j)
    BY <1>5, <2>1, SettleCounts
  <2>4. k \in Linked' BY <2>3 DEF Linked
  <2>5. t \in Ifaces /\ t \in ifaces BY <1>s, <2>2, <2>3
  <2>6. Tally(s)' = Tally(s) - (IF s = t THEN 1 ELSE 0)
    BY <1>i, <2>2, <2>3, <2>4, TallyMoves
  <2>7. \/ pending' = [pending EXCEPT ![t] = @ + 1] /\ needed' = needed
        \/ Count(t, -1) /\ pending' = pending
    BY <1>5, <2>1, <2>2 DEF Settle
  <2>8. CASE pending' = [pending EXCEPT ![t] = @ + 1] /\ needed' = needed
    <3>1. Own(s)' = Own(s) BY <2>8, OwnKept
    <3>2. pending'[s] = pending[s] + (IF s = t THEN 1 ELSE 0) BY <1>h, <2>5, <2>8
    <3>3. QED BY <1>i, <2>5, <2>6, <3>1, <3>2
  <2>9. CASE Count(t, -1) /\ pending' = pending
    <3>1. Own(s)' = Own(s) + (IF s = t THEN -1 ELSE 0)
      BY <1>h, <2>5, <2>9, CountShifts
    <3>2. QED BY <1>i, <2>5, <2>6, <2>9, <3>1
  <2>10. QED BY <2>7, <2>8, <2>9
<1>6. CASE Accelerate
  <2>1. PICK keeps \in BOOLEAN : \E k \in Linked :
           /\ k = hand.new /\ k \in Key /\ k \in Linked' /\ InCount(k) /\ (InCount(k)' <=> keeps)
           /\ \A j \in Key \ {k} : InCount(j)' <=> InCount(j)
           /\ KeyIs(k, TRUE, keeps, key[k].dropped)
           /\ IF keeps THEN needed' = needed ELSE Count(key[k].sdata, -1)
           /\ pending' = pending /\ stale' = stale
    BY <1>6, AccelerateCounts
  <2>2. PICK k \in Linked :
           /\ k \in Key /\ k \in Linked' /\ InCount(k) /\ (InCount(k)' <=> keeps)
           /\ \A j \in Key \ {k} : InCount(j)' <=> InCount(j)
           /\ IF keeps THEN needed' = needed ELSE Count(key[k].sdata, -1)
           /\ pending' = pending
    BY <2>1
  <2>3. PICK t : t = key[k].sdata OBVIOUS
  <2>4. t \in Ifaces /\ t \in ifaces BY <1>s, <2>2, <2>3
  <2>5. CASE keeps
    <3>1. Tally(s)' = Tally(s) BY <2>2, <2>5, TallyMoves
    <3>2. Own(s)' = Own(s) BY <2>2, <2>5, OwnKept
    <3>3. QED BY <2>2, <3>1, <3>2
  <2>6. CASE ~keeps
    <3>1. Tally(s)' = Tally(s) - (IF s = t THEN 1 ELSE 0)
      BY <1>i, <2>2, <2>3, <2>6, TallyMoves
    <3>2. Own(s)' = Own(s) + (IF s = t THEN -1 ELSE 0)
      BY <1>h, <2>2, <2>3, <2>4, <2>6, CountShifts
    <3>3. QED BY <1>i, <2>2, <2>4, <3>1, <3>2
  <2>7. QED BY <2>5, <2>6
<1>7. CASE /\ ~(\E t \in Ifaces : DelayedDec(t)) /\ ~Flush
           /\ ~Increment /\ ~Settle /\ ~Accelerate
  BY <1>7, CountersKept, OwnKept, TallyKept
<1>8. QED BY <1>2, <1>3, <1>4, <1>5, <1>6, <1>7

(* So an interface counts its keys and what is pending, or more if a       *)
(* resume could not upload a key.                                          *)
LEMMA BalancedStep ==
  ASSUME KInv, [Next]_vars PROVE Balanced' /\ Unused'
<1>h. /\ Typed /\ needed \in [Ifaces -> Int] /\ pending \in [Ifaces -> Nat] /\ Balanced /\ Unused
      /\ ifaces' = ifaces /\ Typed' /\ needed' \in [Ifaces -> Int] /\ pending' \in [Ifaces -> Nat]
  BY RestTyped, CountersTyped, TypedStep DEF KInv, Typed
<1>i. \A s \in Ifaces : /\ Own(s) \in Int /\ Tally(s) \in Nat /\ pending[s] \in Nat
                        /\ Own(s)' \in Int /\ Tally(s)' \in Nat /\ pending'[s] \in Nat
  <2>1. SUFFICES ASSUME NEW s \in Ifaces
                 PROVE  /\ Own(s) \in Int /\ Tally(s) \in Nat /\ pending[s] \in Nat
                        /\ Own(s)' \in Int /\ Tally(s)' \in Nat /\ pending'[s] \in Nat
    OBVIOUS
  <2>2. Aps(s) # {} => ApOf(s) \in Ifaces BY ApsOf
  <2>3. Own(s)' \in Int BY <1>h, <2>2, OwnNext
  <2>4. QED BY <1>h, <2>3, OwnInt, TallyIs
<1>1. ASSUME NEW s \in Ifaces
      PROVE  /\ Own(s)' >= Tally(s)' + pending'[s]
             /\ ~stale' => Own(s)' = Tally(s)' + pending'[s]
             /\ s \notin ifaces => Own(s)' = 0 /\ pending'[s] = 0
  <2>0. /\ Own(s) \in Int /\ Tally(s) \in Nat /\ pending[s] \in Nat
        /\ Own(s)' \in Int /\ Tally(s)' \in Nat /\ pending'[s] \in Nat
        /\ Own(s) >= Tally(s) + pending[s]
        /\ ~stale => Own(s) = Tally(s) + pending[s]
        /\ s \notin ifaces => Own(s) = 0 /\ pending[s] = 0
    BY <1>h, <1>i DEF Balanced, Unused
  <2>1. CASE Resume BY <2>0, <2>1, ResumeCounts
  <2>2. CASE NotAccelerated
    <3>1. PICK k \in Linked :
           /\ k \in Key /\ k \in Linked' /\ InCount(k) /\ (~InCount(k)' => stale')
           /\ \A j \in Key \ {k} : InCount(j)' <=> InCount(j)
           /\ needed' = needed /\ pending' = pending /\ (stale => stale')
      BY <2>2, RefusedCounts
    <3>2. Own(s)' = Own(s) BY <3>1, OwnKept
    <3>3. Tally(s)' = Tally(s) \/ (Tally(s)' = Tally(s) - 1 /\ stale')
      BY <3>1, TallyMoves
    <3>4. QED BY <2>0, <3>1, <3>2, <3>3
  <2>3. CASE ~Resume /\ ~NotAccelerated
    <3>1. /\ Own(s)' - Tally(s)' - pending'[s] = Own(s) - Tally(s) - pending[s]
          /\ s \notin ifaces => Own(s)' = Own(s) /\ pending'[s] = pending[s]
      BY <2>3, BalanceKept
    <3>2. stale' = stale BY <2>3, StaleKept
    <3>3. QED BY <2>0, <3>1, <3>2
  <2>4. QED BY <2>1, <2>2, <2>3
<1>2. QED BY <1>1, <1>h DEF Balanced, Unused

(***************************************************************************)
(* Keys: the room of a frame.                                              *)
(***************************************************************************)
(* The host falls asleep in one way only ...                               *)
LEMMA SleepKept ==
  ASSUME [Next]_vars, ~Suspend PROVE sleep' = sleep \/ sleep' = "awake"
BY DEF Next, Operation, Step, Others, vars, Install, RekeyAdd, Link, SetDefault,
    IterRemove, RemoveKey, FreeKeys, FreeStaKeys, Resume, DelayedDec, Increment,
    Synchronize, Synchronized, AddToList, Point, DelFromList, Disable,
    ClearUploaded, Settle, FreeKey, Flush, UnlinkKey, UnlinkNext, UnlinkEnd,
    NextKey, LastKey, LinkEnds, Accelerate, NotAccelerated, Taint, StaLeaves,
    StaReturns, Begin, Select, Visit, End

(* ... with nobody sending.                                                *)
LEMMA AsleepStep ==
  ASSUME KInv, [Next]_vars PROVE Asleep'
<1>h. Asleep BY DEF KInv
<1>1. ASSUME NEW r \in Active', sleep' # "awake" PROVE FALSE
  <2>1. CASE r \in Active
    <3>1. sleep = "awake" /\ ~Suspend BY <1>h, <2>1 DEF Asleep, Suspend
    <3>2. QED BY <1>1, <3>1, SleepKept
  <2>2. CASE Begins(r) BY <1>1, <2>2 DEF Begins, Begin
  <2>3. QED BY <2>1, <2>2, ReaderMoves DEF Selects, Visits
<1>2. QED BY <1>1 DEF Asleep

(* While a key is counted, who looks at the counter finds it above zero.   *)
LEMMA CountedPositive ==
  ASSUME KInv, NEW k \in Key, InCount(k), NEW s \in Covers(key[k].sdata)
  PROVE  s \in Ifaces /\ needed[s] > 0
<1>h. /\ Typed /\ Balanced /\ Homes /\ needed \in [Ifaces -> Int] /\ ifaces \subseteq Ifaces
      /\ pending \in [Ifaces -> Nat]
  BY IfacesOf DEF KInv, Typed
<1>1. PICK t : t = key[k].sdata OBVIOUS
<1>2. t \in Ifaces BY <1>h, <1>1 DEF Homes, InCount
<1>3. \A i \in Ifaces : Own(i) >= 0
  <2>1. SUFFICES ASSUME NEW i \in Ifaces PROVE Own(i) >= 0 OBVIOUS
  <2>2. /\ Own(i) >= Tally(i) + pending[i] /\ Own(i) \in Int /\ Tally(i) \in Nat
        /\ pending[i] \in Nat
    BY <1>h, OwnInt, TallyIs DEF Balanced
  <2>3. QED BY <2>2
<1>4. Tally(t) > 0
  <2>1. k \in Counted(t) BY <1>1 DEF Counted
  <2>2. Counted(t) # {} BY <2>1
  <2>3. Cardinality(Counted(t)) # 0 BY <2>2, TallyIs, FS_EmptySet
  <2>4. QED BY <2>3, TallyIs DEF Tally
<1>5. Own(t) > 0
  <2>1. /\ Own(t) >= Tally(t) + pending[t] /\ Own(t) \in Int /\ Tally(t) \in Nat
        /\ pending[t] \in Nat
    BY <1>h, <1>2, OwnInt, TallyIs DEF Balanced
  <2>2. QED BY <1>4, <2>1
<1>6. /\ needed[t] >= Own(t) /\ needed[t] \in Nat /\ s \in Ifaces
      /\ needed[s] >= needed[t]
  BY <1>h, <1>1, <1>2, <1>3, OwnCounts
<1>7. Own(t) \in Int /\ needed[s] \in Int BY <1>h, <1>2, <1>6, OwnInt
<1>8. QED BY <1>5, <1>6, <1>7

(* An interface never counts less than nothing for itself (the             *)
(* WARN_ON_ONCE of key.c:121).                                             *)
LEMMA OwnNotNegative ==
  ASSUME KInv, NEW i \in Ifaces PROVE Own(i) >= 0
<1>1. /\ Own(i) >= Tally(i) + pending[i] /\ Own(i) \in Int /\ Tally(i) \in Nat
      /\ pending[i] \in Nat
  BY OwnInt, TallyIs DEF KInv, Typed, Balanced
<1>2. QED BY <1>1

(* Only an increment raises a counter.                                     *)
LEMMA CountersFall ==
  ASSUME KInv, [Next]_vars, ~Increment, ~Resume, NEW s \in Ifaces
  PROVE  needed'[s] <= needed[s]
<1>h. /\ Typed /\ needed \in [Ifaces -> Int] /\ pending \in [Ifaces -> Nat]
      /\ hand \in Hand /\ Course /\ Emptied
  BY HandTypes DEF KInv, Typed
<1>1. ASSUME NEW t, NEW d \in Int, d <= 0, Count(t, d) PROVE needed'[s] <= needed[s]
  BY <1>1, <1>h DEF Count
<1>2. ASSUME NEW t \in Ifaces, FlushPending(t) PROVE needed'[s] <= needed[s]
  <2>1. PICK d \in Int : d = -pending[t] /\ d <= 0 BY <1>h
  <2>2. Count(t, d) BY <1>2, <2>1 DEF FlushPending
  <2>3. QED BY <1>1, <2>1, <2>2
<1>3. CASE \E t \in Ifaces : DelayedDec(t) BY <1>2, <1>3 DEF DelayedDec
<1>4. CASE Flush
  <2>1. hand.at = "flush" /\ FlushPending(hand.on) BY <1>4 DEF Flush
  <2>2. hand.on \in Ifaces BY <1>h, <2>1, Stands DEF Emptied
  <2>3. QED BY <1>2, <2>1, <2>2
<1>5. CASE Settle
  <2>1. needed' = needed \/ Count(key[hand.old].sdata, -1) BY <1>5 DEF Settle
  <2>2. QED BY <1>1, <1>h, <2>1
<1>6. CASE Accelerate
  <2>1. needed' = needed \/ Count(key[hand.new].sdata, -1) BY <1>6 DEF Accelerate
  <2>2. QED BY <1>1, <1>h, <2>1
<1>7. CASE /\ ~(\E t \in Ifaces : DelayedDec(t)) /\ ~Flush /\ ~Settle /\ ~Accelerate
  BY <1>7, <1>h, CountersKept
<1>8. QED BY <1>3, <1>4, <1>5, <1>6, <1>7

(* A counter that leaves zero is followed by a grace period                *)
(* (key.c:106-112), also that of a VLAN, which leaves zero only if its     *)
(* AP's counter does.                                                      *)
LEMMA IncrementWaits ==
  ASSUME KInv, [Next]_vars, Increment, NEW s \in Ifaces, needed'[s] > 0
  PROVE  needed[s] > 0 \/ hand'.at = "sync"
<1>h. /\ Typed /\ needed \in [Ifaces -> Int] /\ hand \in Hand /\ ifaces \subseteq Ifaces /\ Homes
  BY HandTypes, IfacesOf DEF KInv, Typed
<1>1. PICK t : t = Raised OBVIOUS
<1>2. t \in Ifaces BY <1>h, <1>1, IncrementCounts DEF Homes
<1>3. needed'[s] = needed[s] + (IF s = t \/ s \in Vlans(t) THEN 1 ELSE 0)
  BY <1>1 DEF Increment, Count
<1>4. CASE needed[t] = 0
  <2>1. Go("sync") BY <1>1, <1>4 DEF Increment
  <2>2. QED BY <1>h, <2>1, GoMoves DEF HandIs, Spots
<1>5. CASE needed[t] # 0
  <2>1. needed[t] \in Nat /\ \A i \in Covers(t) : needed[i] >= needed[t]
    BY <1>h, <1>2, OwnNotNegative, OwnCounts
  <2>2. CASE s \in Covers(t) BY <1>5, <1>h, <2>1, <2>2
  <2>3. CASE s \notin Covers(t) BY <1>3, <1>h, <2>3 DEF Covers
  <2>4. QED BY <2>2, <2>3
<1>6. QED BY <1>4, <1>5

(* Who looked before the counter rose is waited for.                       *)
LEMMA RoomCountedStep ==
  ASSUME KInv, [Next]_vars PROVE RoomCounted'
<1>h. /\ Typed /\ Asleep /\ RoomCounted /\ needed \in [Ifaces -> Int]
      /\ needed' \in [Ifaces -> Int]
  BY CountersTyped DEF KInv, Typed
<1>1. ASSUME NEW r \in Active', NEW s, s = reader'[r].on, needed'[s] > 0, ~Awaited(r)'
      PROVE  reader'[r].room
  <2>1. CASE Begins(r)
    <3>1. needed' = needed BY <2>1 DEF Begins, Begin
    <3>2. QED BY <1>1, <2>1, <3>1 DEF Begins
  <2>2. CASE r \in Active /\ SameRoom(r)
    <3>1. s \in Ifaces /\ s = reader[r].on
      BY <1>1, <1>h, <2>2, ReaderRecord DEF SameRoom
    <3>2. ~Awaited(r) BY <1>1, <2>2, StillAwaited
    <3>3. ~Resume BY <1>h, <2>2 DEF Asleep, Resume
    <3>4. needed[s] > 0
      <4>1. CASE Increment
        <5>1. hand'.at # "sync" BY <1>1 DEF Awaited
        <5>2. QED BY <1>1, <3>1, <4>1, <5>1, IncrementWaits
      <4>2. CASE ~Increment
        <5>1. needed'[s] <= needed[s] BY <3>1, <3>3, <4>2, CountersFall
        <5>2. needed'[s] \in Int /\ needed[s] \in Int BY <1>h, <3>1
        <5>3. QED BY <1>1, <5>1, <5>2
      <4>3. QED BY <4>1, <4>2
    <3>5. reader[r].room BY <1>h, <2>2, <3>1, <3>2, <3>4 DEF RoomCounted
    <3>6. QED BY <2>2, <3>5 DEF SameRoom
  <2>3. QED BY <2>1, <2>2, ReaderMoves DEF Selects, Visits, SameRoom
<1>2. QED BY <1>1 DEF RoomCounted

(* A key begins to need room only when the hardware gives it back, which   *)
(* is after it has left its place, or when nobody sends.                   *)
LEMMA NeedsMoves ==
  ASSUME KInv, [Next]_vars, NEW k \in Key, k \in Linked, k \in Linked'
  PROVE  /\ key[k].dropped => key'[k].dropped
         /\ Needs(k)' /\ ~key'[k].dropped =>
              \/ Needs(k) /\ ~key[k].dropped
              \/ ClearUploaded /\ k = hand.old
              \/ Active = {}
<1>h. Typed /\ key \in KeyTable /\ Course /\ Works /\ hand \in Hand /\ Asleep
  BY HandTypes DEF KInv
<1>l. \A s \in Ifaces : list[s] \subseteq Linked BY ListsLinked DEF KInv
<1>a. hand.op = "resume" => Active = {} BY <1>h DEF Course, Asleep
<1>1. CASE key'[k] = key[k] BY <1>1 DEF Needs
<1>2. CASE Install \/ RekeyAdd
  <2>1. PICK s \in ifaces, a \in Stas \cup {NoSta}, kind \in AnyKind :
    /\ Link(s, a, kind) /\ s \in Ifaces /\ (a # NoSta => s = Home[a] /\ a \notin removed)
    /\ PlaceOf(s, a, kind) \in Place /\ slot[PlaceOf(s, a, kind)] \in Key \cup {NoKey}
    BY <1>2, <1>h, InstallLinks
  <2>2. PICK j \in Key : key[j] = Blank /\ key' = [key EXCEPT ![j] = Alloc(s, a, kind)]
    BY <2>1, LinkMoves
  <2>3. k # j BY <2>2 DEF Linked
  <2>4. key'[k] = key[k] BY <1>h, <2>1, <2>2, <2>3, NewKey
  <2>5. QED BY <1>1, <2>4
<1>3. CASE FreeKey
  <2>1. hand.old \in Linked /\ key' = [key EXCEPT ![hand.old] = Blank]
    BY <1>h, <1>3 DEF FreeKey, Works, Where, Waits, Taking
  <2>2. k # hand.old BY <1>h, <2>1, FreedKey
  <2>3. key'[k] = key[k] BY <1>h, <2>1, <2>2, FreedKey
  <2>4. QED BY <1>1, <2>3
<1>4. CASE IterRemove
  <2>1. PICK s \in Ifaces : \E i \in list[s] :
          key' = [key EXCEPT ![i].up = FALSE, ![i].dropped = @ \/ key[i].up]
    BY <1>h, <1>4, IterRemoveMoves
  <2>2. PICK i \in list[s] : key' = [key EXCEPT ![i].up = FALSE, ![i].dropped = @ \/ key[i].up]
    BY <2>1
  <2>3. i \in Linked BY <1>l, <2>2
  <2>4. KeyIs(i, FALSE, key[i].keeps, key[i].dropped \/ key[i].up)
    BY <1>h, <2>2, <2>3, IterRemoveKey
  <2>5. CASE k = i BY <2>4, <2>5 DEF KeyIs, Needs
  <2>6. CASE k # i BY <1>1, <2>4, <2>6 DEF KeyIs
  <2>7. QED BY <2>5, <2>6
<1>5. CASE ClearUploaded
  <2>1. hand.at = "clear" /\ hand.old \in Linked
    BY <1>h, <1>5 DEF ClearUploaded, Works, Where, Waits, Taking
  <2>2. KeyIs(hand.old, FALSE, key[hand.old].keeps, key[hand.old].dropped)
    BY <1>h, <1>5, <2>1, ClearKey DEF ClearUploaded
  <2>3. CASE k = hand.old BY <1>5, <2>2, <2>3 DEF KeyIs
  <2>4. CASE k # hand.old BY <1>1, <2>2, <2>4 DEF KeyIs
  <2>5. QED BY <2>3, <2>4
<1>6. CASE Accelerate
  <2>0. hand.at = "accel" BY <1>6 DEF Accelerate, Uploading
  <2>1. PICK keeps \in BOOLEAN : \E j \in Linked :
           j = hand.new /\ KeyIs(j, TRUE, keeps, key[j].dropped)
    BY <1>6, AccelerateCounts
  <2>2. PICK j \in Linked : j = hand.new /\ KeyIs(j, TRUE, keeps, key[j].dropped)
    BY <2>1
  <2>3. hand.op \in {"link", "resume"} /\ (hand.op = "link" => Needs(j))
    BY <2>0, <2>2, UploadCounts
  <2>4. CASE k = j BY <1>a, <2>2, <2>3, <2>4 DEF KeyIs
  <2>5. CASE k # j BY <1>1, <2>2, <2>5 DEF KeyIs
  <2>6. QED BY <2>4, <2>5
<1>7. CASE NotAccelerated
  <2>1. PICK j \in Linked : /\ KeyIs(j, key[j].up /\ ~key[j].tainted, key[j].keeps, key[j].dropped)
                            /\ hand.op \in {"link", "resume"} /\ (hand.op = "link" => ~key[j].up)
    BY <1>7, RefusedCounts
  <2>2. CASE k = j BY <1>a, <2>1, <2>2 DEF KeyIs, Needs
  <2>3. CASE k # j BY <1>1, <2>1, <2>3 DEF KeyIs
  <2>4. QED BY <2>2, <2>3
<1>8. CASE Taint
  <2>1. /\ key'[k].up = key[k].up /\ key'[k].keeps = key[k].keeps
        /\ key'[k].dropped = key[k].dropped
    BY <1>h, <1>l, <1>8, TaintedKeys
  <2>2. QED BY <2>1 DEF Needs
<1>9. CASE /\ ~Install /\ ~RekeyAdd /\ ~FreeKey /\ ~IterRemove /\ ~ClearUploaded
           /\ ~Accelerate /\ ~NotAccelerated /\ ~Taint
  <2>1. key' = key
    BY <1>9
      DEF Next, Operation, Step, Others, vars, SetDefault, FreeKeys, FreeStaKeys,
          Resume, DelayedDec, Increment, Synchronize, Synchronized, AddToList,
          Point, DelFromList, Disable, Settle, Flush, UnlinkKey, UnlinkNext,
          UnlinkEnd, NextKey, LastKey, LinkEnds, Suspend, StaLeaves, StaReturns,
          Begin, Select, Visit, End
  <2>2. QED BY <1>1, <2>1
<1>10. QED BY <1>2, <1>3, <1>4, <1>5, <1>6, <1>7, <1>8, <1>9

(* What is in its place and is nobody's present work is counted.           *)
LEMMA PlacedCounted ==
  ASSUME KInv, NEW k \in Key, Placed(k), Needs(k), ~key[k].dropped, hand.op # "resume"
  PROVE  InCount(k)
<1>h. Course /\ Works /\ Flags /\ hand \in Hand BY HandTypes DEF KInv
<1>1. ASSUME Missing(k) PROVE FALSE
  <2>1. CASE hand.at = "inc" /\ hand.then \in {"add", "accel"} /\ k = hand.new
    <3>1. hand.then = "add" /\ hand.op = "link"
      BY <1>h, <2>1, Stands DEF Course, Waits
    <3>2. QED BY <2>1, <3>1 DEF Placed, Where, Waits
  <2>2. CASE hand.at = "inc" /\ hand.then = "point" /\ k = hand.old
    BY <1>h, <2>2 DEF Course, Waits, Flags
  <2>3. CASE hand.at = "inc" /\ hand.then = "clear" /\ k = hand.old
    BY <2>3 DEF Placed, Where, Waits, Taking
  <2>4. CASE hand.at = "free" /\ k = hand.old
    BY <2>4 DEF Placed, Where, Waits, Taking
  <2>5. QED BY <1>1, <2>1, <2>2, <2>3, <2>4 DEF Missing
<1>2. QED BY <1>1 DEF InCount, Placed

(* Who is in has the room of every key it may yet find: a key is put in    *)
(* its place after the grace period of its count (key.c:681-683).          *)
LEMMA RoomPlacedStep ==
  ASSUME KInv, [Next]_vars PROVE RoomPlaced'
<1>h. /\ Typed /\ Asleep /\ RoomCounted /\ RoomPlaced /\ Course /\ Works /\ Flags /\ hand \in Hand
      /\ NoKey \notin Key
  BY HandTypes DEF KInv
<1>1. ASSUME NEW k \in Key, Placed(k)', Needs(k)', ~key'[k].dropped,
             NEW r \in Active', reader'[r].on \in Covers(key'[k].sdata)
      PROVE  reader'[r].room
  <2>1. CASE Point /\ k = hand.new
    <3>1. hand.at = "point" /\ key' = key /\ reader' = reader /\ k # NoKey
      BY <1>h, <1>1, <2>1 DEF Point
    <3>2. hand.op = "link" /\ k \in Linked
      BY <1>h, <2>1, <3>1 DEF Works, Where, Waits
    <3>3. Needs(k) /\ r \in Active BY <1>1, <3>1 DEF Needs, Active
    <3>4. InCount(k) BY <3>1, <3>2, <3>3 DEF InCount, Missing
    <3>5. needed[reader[r].on] > 0 BY <1>1, <3>1, <3>4, CountedPositive
    <3>6. ~Awaited(r) BY <3>1 DEF Awaited
    <3>7. QED BY <1>h, <3>1, <3>3, <3>5, <3>6 DEF RoomCounted
  <2>2. CASE ~(Point /\ k = hand.new)
    <3>1. Placed(k)
      <4>1. CASE Point
        <5>1. Placed(k)' <=> (Placed(k) /\ k # hand.old) \/ k = hand.new
          BY <4>1, PointPlaces
        <5>2. QED BY <1>1, <2>2, <4>1, <5>1
      <4>2. CASE ~Point BY <1>1, <4>2, PlacedKept
      <4>3. QED BY <4>1, <4>2
    <3>2. k \in Linked /\ k \in Linked' BY <1>1, <3>1 DEF Placed
    <3>3. ~(ClearUploaded /\ k = hand.old)
      BY <3>1 DEF Placed, ClearUploaded, Where, Waits, Taking
    <3>4. key'[k].sdata = key[k].sdata BY <3>2, Persist
    <3>5. reader'[r].on \in Covers(key[k].sdata) BY <1>1, <3>4
    <3>6. CASE Begins(r)
      <4>1. sleep = "awake" /\ needed' = needed /\ key' = key
        BY <3>6 DEF Begins, Begin
      <4>2. hand.op # "resume" BY <1>h, <4>1 DEF Course
      <4>3. Needs(k) /\ ~key[k].dropped BY <1>1, <4>1 DEF Needs
      <4>4. InCount(k) BY <3>1, <4>2, <4>3, PlacedCounted
      <4>5. needed[reader'[r].on] > 0 BY <3>5, <4>4, CountedPositive
      <4>6. QED BY <3>6, <4>5 DEF Begins
    <3>7. CASE r \in Active /\ SameRoom(r)
      <4>1. Needs(k) /\ ~key[k].dropped BY <1>1, <3>2, <3>3, <3>7, NeedsMoves
      <4>2. reader[r].room
        BY <1>h, <3>1, <3>5, <3>7, <4>1 DEF RoomPlaced, SameRoom
      <4>3. QED BY <3>7, <4>2 DEF SameRoom
    <3>8. QED BY <3>6, <3>7, ReaderMoves DEF Selects, Visits, SameRoom
  <2>3. QED BY <2>1, <2>2
<1>2. QED BY <1>1 DEF RoomPlaced, Covers, Vlans

(* The hardware gives back a key that nobody uses.                         *)
LEMMA ClearedUnused ==
  ASSUME KInv, ClearUploaded, NEW r \in Active, Uses(r)
  PROVE  reader[r].key # hand.old
<1>h. /\ Typed /\ hand \in Hand /\ Course /\ Works /\ Flags /\ ReadersRight /\ HoldersOut
  BY HandTypes DEF KInv
<1>0. SUFFICES ASSUME reader[r].key = hand.old PROVE FALSE OBVIOUS
<1>1. hand.at = "clear" /\ Where = "clear" BY DEF ClearUploaded, Where, Waits
<1>2. hand.old \in Linked /\ hand.old \in Key
  BY <1>h, <1>1 DEF Works, Taking, Linked
<1>3. hand.op \in {"link", "fail", "remove", "freekeys", "freesta"}
  BY <1>h, <1>1, Stands DEF Taking
<1>4. ~Awaited(r) BY <1>1 DEF Awaited
<1>5. hand.op = "freesta"
  <2>1. hand.op # "freesta" => Doomed(hand.old)
    BY <1>1, <1>3 DEF Doomed, Off, Taking
  <2>2. QED BY <1>h, <1>0, <1>4, <2>1 DEF HoldersOut
<1>6. key[hand.old].sta \in removed /\ leaving[key[hand.old].sta] = {}
  BY <1>h, <1>2, <1>5 DEF Flags
<1>7. r \in Readers BY <1>h, ReaderRecord
<1>8. QED BY <1>h, <1>0, <1>6, <1>7 DEF ReadersRight

(* Who sends with a key has the room it needs.                             *)
LEMMA EncryptingStep ==
  ASSUME KInv, [Next]_vars PROVE RoomWhenEncrypting'
<1>h. Typed /\ RoomPlaced /\ RoomWhenEncrypting BY DEF KInv
<1>1. ASSUME NEW r \in Readers, NEW k, k = reader'[r].key, reader'[r].at = "sends", Needs(k)'
      PROVE  reader'[r].room \/ key'[k].dropped
  <2>0. r \in Active' BY <1>1 DEF Active
  <2>1. CASE r \in Active /\ reader'[r] = reader[r]
    <3>1. Uses(r) /\ k = reader[r].key BY <1>1, <2>1 DEF Uses
    <3>2. k \in Linked /\ k \in Linked' /\ k \in Key BY <2>1, <3>1, UsedStays
    <3>3. ~(ClearUploaded /\ k = hand.old) BY <2>1, <3>1, ClearedUnused
    <3>4. CASE Needs(k) /\ ~key[k].dropped
      <4>1. key[k] # Blank BY <3>2 DEF Linked
      <4>2. reader[r].room
        BY <1>h, <1>1, <2>1, <3>1, <3>4, <4>1 DEF RoomWhenEncrypting, Needs
      <4>3. QED BY <2>1, <4>2
    <3>5. CASE ~(Needs(k) /\ ~key[k].dropped)
      <4>1. key'[k].dropped BY <1>1, <2>1, <3>2, <3>3, <3>5, NeedsMoves
      <4>2. QED BY <4>1
    <3>6. QED BY <3>4, <3>5
  <2>2. CASE Selects(r)
    <3>1. key' = key BY <2>2 DEF Selects, Select
    <3>2. /\ k \in Key /\ Placed(k) /\ reader[r].on \in Covers(key[k].sdata)
          /\ r \in Active /\ SameRoom(r)
      BY <1>1, <2>2 DEF Selects
    <3>3. Needs(k) BY <1>1, <3>1 DEF Needs
    <3>4. ~key[k].dropped => reader[r].room BY <1>h, <3>2, <3>3 DEF RoomPlaced
    <3>5. QED BY <3>1, <3>2, <3>4 DEF SameRoom
  <2>3. QED BY <1>1, <2>0, <2>1, <2>2, ReaderMoves DEF Begins, Visits
<1>2. QED BY <1>1 DEF RoomWhenEncrypting, Needs

(***************************************************************************)
(* Keys: the theorems.                                                     *)
(***************************************************************************)
(* At first there are no keys, operations or readers.                      *)
LEMMA KeyInit == Init => KInv
<1> SUFFICES ASSUME Init PROVE KInv OBVIOUS
<1>i. /\ ifaces \in Setups /\ key = [k \in Key |-> Blank] /\ slot = [p \in Place |-> NoKey]
      /\ def = [s \in Ifaces |-> [w \in Defaults |-> NoKey]] /\ list = [s \in Ifaces |-> {}]
      /\ needed = [s \in Ifaces |-> 0] /\ pending = [s \in Ifaces |-> 0]
      /\ armed = [s \in Ifaces |-> FALSE] /\ hand = Idle /\ grace = {}
      /\ leaving = [a \in Stas |-> {}] /\ removed = {} /\ sleep = "awake"
      /\ reader = [r \in Readers |-> Out] /\ stale = FALSE
  BY DEF Init
<1>k. NoKey \notin Key BY KeyAssumption DEF KeyAssumption, Key
<1>l. Linked = {} BY <1>i DEF Linked
<1>a. Active = {} BY <1>i DEF Active, Out
<1>h. /\ hand.op = "none" /\ hand.at = "idle" /\ hand.then = "idle" /\ hand.old = NoKey
      /\ hand.new = NoKey /\ hand.batch = {} /\ Where = "idle" /\ hand \in Hand
  BY <1>i DEF Idle, Where, Waits, Hand, Ops, Spots
<1>p. \A k : ~Placed(k) /\ ~Listed(k) BY <1>l DEF Placed, Listed
<1>1. Typed
  <2>1. key \in [Key -> {Blank} \cup KeyRecord] BY <1>i
  <2>2. def \in [Ifaces -> [Defaults -> Key \cup {NoKey}]] BY <1>i
  <2>3. reader \in [Readers -> {Out} \cup Reader] BY <1>i
  <2>4. slot \in [Place -> Key \cup {NoKey}] /\ list \in [Ifaces -> SUBSET Key]
    BY <1>i
  <2>5. needed \in [Ifaces -> Int] /\ pending \in [Ifaces -> Nat] BY <1>i
  <2>6. armed \in [Ifaces -> BOOLEAN] /\ leaving \in [Stas -> SUBSET Readers]
    BY <1>i
  <2>7. QED BY <1>i, <1>h, <2>1, <2>2, <2>3, <2>4, <2>5, <2>6 DEF Typed
<1>2. Course BY <1>i, <1>h DEF Course, Waits, Waiting, Free
<1>3. Works BY <1>h DEF Works, Taking
<1>4. Flags BY <1>h DEF Flags
<1>5. Homes BY <1>l DEF Homes
<1>6. Swap BY <1>h DEF Swap
<1>7. ListsRight BY <1>i, <1>p DEF ListsRight
<1>8. SlotsRight BY <1>i, <1>p DEF SlotsRight
<1>9. DefsRight BY <1>i DEF DefsRight
<1>10. Emptied BY <1>h DEF Emptied
<1>11. ReadersRight BY <1>i DEF ReadersRight, Uses, Out
<1>12. HoldersOut BY <1>a DEF HoldersOut
<1>13. \A s \in Ifaces : Own(s) = 0 /\ Tally(s) = 0 /\ pending[s] = 0
  <2>1. SUFFICES ASSUME NEW s \in Ifaces PROVE Own(s) = 0 /\ Tally(s) = 0 /\ pending[s] = 0
    OBVIOUS
  <2>2. Aps(s) # {} => ApOf(s) \in Ifaces BY ApsOf
  <2>3. Own(s) = 0 BY <1>i, <2>2 DEF Own
  <2>4. Counted(s) = {} BY <1>l DEF Counted, InCount
  <2>5. Tally(s) = 0 BY <2>4, FS_EmptySet DEF Tally
  <2>6. QED BY <1>i, <2>3, <2>5
<1>14. Balanced /\ Unused BY <1>13 DEF Balanced, Unused
<1>15. Asleep /\ RoomCounted /\ RoomPlaced
  BY <1>a DEF Asleep, RoomCounted, RoomPlaced
<1>16. RoomWhenEncrypting BY <1>i DEF RoomWhenEncrypting, Out
<1>17. QED
  BY <1>1, <1>2, <1>3, <1>4, <1>5, <1>6, <1>7, <1>8, <1>9, <1>10, <1>11, <1>12,
      <1>14, <1>15, <1>16
    DEF KInv

(* Every step keeps the invariant.                                         *)
LEMMA KeyNext == KInv /\ [Next]_vars => KInv'
<1> SUFFICES ASSUME KInv, [Next]_vars PROVE KInv' OBVIOUS
<1>1. Typed' /\ Course' /\ Works' /\ Flags'
  BY TypedStep, CourseStep, WorksStep, FlagsStep
<1>2. Homes' /\ Swap' /\ ListsRight' /\ SlotsRight'
  BY HomesStep, SwapStep, ListsStep, SlotsStep
<1>3. DefsRight' /\ Emptied' /\ ReadersRight' /\ HoldersOut'
  BY DefsStep, EmptiedStep, ReadersStep, HoldersStep
<1>4. Balanced' /\ Unused' BY BalancedStep
<1>5. Asleep' /\ RoomCounted' /\ RoomPlaced' /\ RoomWhenEncrypting'
  BY AsleepStep, RoomCountedStep, RoomPlacedStep, EncryptingStep
<1>6. QED BY <1>1, <1>2, <1>3, <1>4, <1>5 DEF KInv

(* The invariant holds in every run of key.c: between any two steps of an  *)
(* operation under key_mtx, its place, the pointers, the counters and the  *)
(* readers fit together.                                                   *)
THEOREM KeyInvariant == Spec => []KInv
BY KeyInit, KeyNext, PTL DEF Spec

(* The invariant has every variable in its domain; that the counters are   *)
(* not negative is the balance.                                            *)
LEMMA KeyTypes == KInv => TypeOK
<1> SUFFICES ASSUME KInv PROVE TypeOK OBVIOUS
<1>1. Typed /\ Homes BY DEF KInv
<1>2. needed \in [Ifaces -> Nat]
  <2>1. needed \in [Ifaces -> Int] BY <1>1 DEF Typed
  <2>2. \A s \in Ifaces : needed[s] \in Nat BY <2>1, OwnNotNegative, OwnCounts
  <2>3. QED BY <2>1, <2>2
<1>3. \A k \in Linked : At(k) \in Place BY <1>1 DEF Homes
<1>4. QED BY <1>1, <1>2, <1>3 DEF Typed, TypeOK, Hand, Ops, Reader

(* Every variable keeps its type: crypto_tx_tailroom_needed_cnt and the    *)
(* pending decrements of an interface never fall below zero (key.c:121),   *)
(* whatever keys are installed, replaced, uploaded and freed.              *)
THEOREM KeyTypeCorrect == Spec => []TypeOK
BY KeyInvariant, KeyTypes, PTL

(* With key_mtx free nothing is ahead or behind, so the tally is the keys  *)
(* that want room.                                                         *)
LEMMA TailroomFromCounts == KInv => TailroomSound
<1> SUFFICES ASSUME KInv, Free, NEW s \in Ifaces
             PROVE  LET own(i) == Cardinality(Wanting(i)) + pending[i]
                        sum == own(s) + IF Aps(s) = {} THEN 0
                                        ELSE own(CHOOSE a \in Aps(s) : TRUE)
                    IN IF stale THEN needed[s] >= sum ELSE needed[s] = sum
  BY DEF TailroomSound, TailroomCounted, KInv
<1>h. /\ Typed /\ Course /\ needed \in [Ifaces -> Int] /\ Balanced
      /\ pending \in [Ifaces -> Nat]
  BY DEF KInv, Typed
<1>1. hand = Idle BY <1>h DEF Course
<1>2. \A k : ~Extra(k) /\ ~Missing(k)
  BY <1>1 DEF Idle, Extra, Missing, Where, Waits
<1>3. ASSUME NEW i \in Ifaces
      PROVE  /\ Cardinality(Wanting(i)) \in Nat /\ pending[i] \in Nat /\ Own(i) \in Int
             /\ IF stale THEN Own(i) >= Cardinality(Wanting(i)) + pending[i]
                ELSE Own(i) = Cardinality(Wanting(i)) + pending[i]
  <2>1. Wanting(i) = Counted(i)
    BY <1>2 DEF Wanting, Counted, InCount, Needs, Linked
  <2>2. Cardinality(Wanting(i)) = Tally(i) BY <2>1 DEF Tally
  <2>3. QED BY <1>h, <2>2, TallyIs, OwnInt DEF Balanced
<1>4. CASE Aps(s) = {}
  <2>1. Own(s) = needed[s] BY <1>h, <1>4 DEF Own
  <2>2. QED BY <1>3, <1>4, <2>1
<1>5. CASE Aps(s) # {}
  <2>1. PICK a \in Ifaces : ApOf(s) = a /\ \A b \in Ifaces : a \notin Vlans(b)
    BY <1>5, ApsOf
  <2>2. Aps(a) = {} BY <2>1 DEF Aps
  <2>3. Own(a) = needed[a] BY <1>h, <2>2 DEF Own
  <2>4. Own(s) = needed[s] - needed[a] /\ needed[s] \in Int /\ needed[a] \in Int
    BY <1>h, <1>5, <2>1 DEF Own
  <2>5. (CHOOSE b \in Aps(s) : TRUE) = a BY <2>1 DEF ApOf
  <2>6. PICK ws, wa : ws = Cardinality(Wanting(s)) /\ wa = Cardinality(Wanting(a))
    OBVIOUS
  <2>7. /\ ws \in Nat /\ wa \in Nat /\ pending[s] \in Nat /\ pending[a] \in Nat
        /\ IF stale THEN Own(s) >= ws + pending[s] ELSE Own(s) = ws + pending[s]
        /\ IF stale THEN Own(a) >= wa + pending[a] ELSE Own(a) = wa + pending[a]
    BY <1>3, <2>6
  <2>8. IF stale THEN needed[s] >= ws + pending[s] + (wa + pending[a])
        ELSE needed[s] = ws + pending[s] + (wa + pending[a])
    BY <2>3, <2>4, <2>7
  <2>9. QED BY <1>5, <2>5, <2>6, <2>8
<1>6. QED BY <1>4, <1>5

(* The tailroom count is right whenever nobody holds key_mtx, of VLANs     *)
(* too, and whoever encrypts in software has the room (key.c:63-125,       *)
(* 221-254, 568-590).                                                      *)
THEOREM TailroomHolds == Spec => []TailroomSound
BY KeyInvariant, TailroomFromCounts, PTL

(* With key_mtx free every linked key is in its place and list; at any     *)
(* time what is there is linked.                                           *)
LEMMA PointersFromPlaces == KInv => PointersAgree
<1> SUFFICES ASSUME KInv PROVE PointersAgree OBVIOUS
<1>h. /\ Typed /\ Course /\ Homes /\ ListsRight /\ SlotsRight /\ DefsRight
      /\ list \in [Ifaces -> SUBSET Key] /\ key \in KeyTable
  BY HandTypes DEF KInv, Typed
<1>1. UNION {list[s] : s \in Ifaces} \subseteq Linked BY <1>h, ListsLinked
<1>2. \A p \in Place : slot[p] \in Linked \cup {NoKey}
  BY <1>h DEF SlotsRight, Placed
<1>3. ASSUME NEW s \in Ifaces, NEW w \in Defaults, def[s][w] # NoKey
      PROVE  \E p \in Place : p.sdata = s /\ p.sta = NoSta /\ slot[p] = def[s][w]
  <2>1. PICK k : k = def[s][w] OBVIOUS
  <2>2. Placed(k) /\ key[k].sdata = s /\ key[k].sta = NoSta
    BY <1>h, <1>3, <2>1 DEF DefsRight
  <2>3. k \in Key /\ k \in Linked BY <2>2 DEF Placed, Linked
  <2>4. At(k) \in Place /\ slot[At(k)] = k
    BY <1>h, <2>2, <2>3 DEF Homes, SlotsRight
  <2>5. At(k).sdata = s /\ At(k).sta = NoSta BY <2>2 DEF At, PlaceOf
  <2>6. QED BY <2>1, <2>4, <2>5
<1>4. ASSUME Free
      PROVE  /\ \A k \in Linked : slot[At(k)] = k
             /\ \A s \in Ifaces : list[s] = {k \in Linked : key[k].sdata = s}
  <2>1. hand = Idle BY <1>h, <1>4 DEF Course
  <2>2. \A k \in Linked : Placed(k) /\ Listed(k)
    BY <2>1 DEF Idle, Placed, Listed, Where, Waits, Taking, Off
  <2>3. \A k \in Linked : slot[At(k)] = k BY <1>h, <2>2 DEF SlotsRight, Linked
  <2>4. ASSUME NEW s \in Ifaces PROVE list[s] = {k \in Linked : key[k].sdata = s}
    <3>1. \A k \in Key : k \in list[s] <=> k \in Linked /\ key[k].sdata = s
      BY <1>h, <2>2 DEF ListsRight, Listed
    <3>2. list[s] \subseteq Key /\ Linked \subseteq Key BY <1>h DEF Linked
    <3>3. QED BY <3>1, <3>2
  <2>5. QED BY <2>3, <2>4
<1>5. QED BY <1>1, <1>2, <1>3, <1>4 DEF PointersAgree

(* No place, list or default leads to a freed key at any time, and they    *)
(* agree whenever nobody holds key_mtx (key.c:312-376, 843-940).           *)
THEOREM PointersHold == Spec => []PointersAgree
BY KeyInvariant, PointersFromPlaces, PTL

(* A key is not freed under a transmitter that chose it or an iterator     *)
(* that was handed it: the grace periods of key.c:602 and 884, and that of *)
(* a station's removal, reach every one of them.                           *)
THEOREM HoldersSafe == Spec => HeldKeysLive
<1>1. ASSUME KInv, [Next]_vars, NEW k \in Linked, key'[k] = Blank, NEW r \in Active, reader[r].key = k
      PROVE  reader[r].at = "on" /\ key[k].sta \in removed
  <2>h. Typed /\ key \in KeyTable BY <1>1, HandTypes
  <2>1. k \in Key /\ k \notin Linked' BY <1>1 DEF Linked
  <2>2. ~Ordinary BY <1>1, <2>1, OrdinaryKeys
  <2>3. CASE Install \/ RekeyAdd
    <3>1. PICK s \in ifaces, a \in Stas \cup {NoSta}, kind \in AnyKind :
      /\ Link(s, a, kind) /\ s \in Ifaces /\ (a # NoSta => s = Home[a] /\ a \notin removed)
      /\ PlaceOf(s, a, kind) \in Place /\ slot[PlaceOf(s, a, kind)] \in Key \cup {NoKey}
      BY <2>3, <2>h, InstallLinks
    <3>2. PICK j \in Key : key[j] = Blank /\ key' = [key EXCEPT ![j] = Alloc(s, a, kind)]
      BY <3>1, LinkMoves
    <3>3. k # j BY <1>1, <3>2 DEF Linked
    <3>4. QED BY <1>1, <2>h, <2>1, <3>1, <3>2, <3>3, NewKey
  <2>4. CASE FreeKey
    <3>1. hand.old \in Linked /\ key' = [key EXCEPT ![hand.old] = Blank]
      BY <1>1, <2>4, HandTypes DEF FreeKey, Works, Where, Waits, Taking
    <3>2. k = hand.old BY <1>1, <2>h, <2>1, <3>1, FreedKey
    <3>3. QED BY <1>1, <2>4, <3>2, FreedUnused
  <2>5. QED BY <1>1, <2>2, <2>3, <2>4 DEF Next, Operation, Step, Others, Ordinary
<1>2. KInv /\ [Next]_vars =>
        [\A k \in Linked : key'[k] = Blank =>
           \A r \in Active : reader[r].key = k =>
             reader[r].at = "on" /\ key[k].sta \in removed]_vars
  BY <1>1
<1>3. QED BY <1>2, KeyInvariant, PTL DEF Spec, HeldKeysLive

(* A key is never replaced by one with the same material: the comparison   *)
(* of key.c:671 is still true when the place changes, though readers and a *)
(* grace period come in between.                                           *)
THEOREM NeverReinstalled == Spec => NotReinstalled
<1>1. ASSUME KInv, [Next]_vars, NEW p \in Place, NEW o, NEW n, o = slot[p], n = slot'[p],
             o # n, o # NoKey, n # NoKey, key[o].kind.cipher = key[n].kind.cipher,
             key[o].kind.tk = key[n].kind.tk,
             \/ key[o].kind.mic = key[n].kind.mic
             \/ Type[p.sdata] = "STATION" /\ ~key[n].kind.pairwise
      PROVE  FALSE
  <2>h. /\ Typed /\ NoKey \notin Key /\ Swap /\ Works /\ SlotsRight /\ key \in KeyTable
        /\ slot \in [Place -> Key \cup {NoKey}]
    BY <1>1, HandTypes DEF KInv, Typed
  <2>1. Point BY <1>1, SlotKept
  <2>2. /\ hand.at = "point" /\ Where = "point"
        /\ slot' = [slot EXCEPT ![At(IF hand.old = NoKey THEN hand.new ELSE hand.old)] = hand.new]
    BY <2>1 DEF Point, Where, Waits
  <2>3. PICK k : k = IF hand.old = NoKey THEN hand.new ELSE hand.old OBVIOUS
  <2>4. /\ At(k) \in Place /\ slot[At(k)] = hand.old
        /\ hand.new # NoKey => hand.new \in Linked /\ At(hand.new) = At(k)
    BY <1>1, <2>1, <2>3, PointPlaces
  <2>5. p = At(k) /\ n = hand.new /\ o = hand.old BY <1>1, <2>h, <2>2, <2>3, <2>4
  <2>6. hand.op = "link" BY <1>1, <2>h, <2>2, <2>5 DEF Works
  <2>7. ~Identical(key[n].sdata, o, key[n].kind)
    BY <2>h, <2>2, <2>5, <2>6 DEF Swap
  <2>8. p.sdata = key[n].sdata BY <1>1, <2>4, <2>5 DEF At, PlaceOf
  <2>9. o \in Linked /\ n \in Linked
    BY <1>1, <2>h, <2>4, <2>5 DEF SlotsRight, Placed
  <2>10. key[o].kind \in AnyKind /\ key[n].kind \in AnyKind
    BY <2>h, <2>9, LinkedRecord DEF KeyRecord
  <2>11. key[n].kind.cipher # "TKIP" => key[o].kind.mic = key[n].kind.mic
    BY <1>1, <2>10, KeyAssumption DEF KeyAssumption
  <2>12. QED BY <1>1, <2>7, <2>8, <2>11 DEF Identical
<1>2. ASSUME KInv, [Next]_vars, NEW p \in Place
      PROVE  LET o == slot[p]
                 n == slot'[p]
             IN o # n /\ NoKey \notin {o, n} =>
                  LET was == key[o].kind
                      now == key[n].kind
                  IN ~/\ was.cipher = now.cipher /\ was.tk = now.tk
                      /\ was.mic = now.mic \/ (Type[p.sdata] = "STATION" /\ ~now.pairwise)
  BY <1>1, <1>2
<1>3. KInv /\ [Next]_vars =>
        [\A p \in Place :
           LET o == slot[p]
               n == slot'[p]
           IN o # n /\ NoKey \notin {o, n} =>
                LET was == key[o].kind
                    now == key[n].kind
                IN ~/\ was.cipher = now.cipher /\ was.tk = now.tk
                    /\ was.mic = now.mic \/ (Type[p.sdata] = "STATION" /\ ~now.pairwise)
        ]_vars
  BY <1>2
<1>4. QED BY <1>3, KeyInvariant, PTL DEF Spec, NotReinstalled
=============================================================================
