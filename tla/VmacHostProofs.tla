--------------------------- MODULE VmacHostProofs ---------------------------
(***************************************************************************)
(* Invariance proofs for VmacHost, for any number of devices of any kind,  *)
(* of frames and of processes.                                             *)
(***************************************************************************)
EXTENDS VmacHost, SequenceTheorems, WellFoundedInduction, TLAPS

----------------------------------------------------------------------------
(* The loop over the bands.                                                *)

Count == [channels : Nat, rates : Nat]
Zero == [channels |-> 0, rates |-> 0]

\* The body of the loop.
OneBand(c, b) == [channels |-> c.channels + b.channels,
                  rates |-> IF c.rates < b.rates THEN b.rates ELSE c.rates]

(* Induction on the naturals, for a set.                                   *)
LEMMA NatSet ==
  ASSUME NEW S, 0 \in S, \A n \in Nat : n \in S => n + 1 \in S
  PROVE  Nat \subseteq S
<1>1. SUFFICES ASSUME Nat \ S # {} PROVE FALSE  OBVIOUS
<1>2. PICK x \in Nat \ S : \A y \in Nat \ S : <<y, x>> \notin OpToRel(<, Nat)
  BY <1>1, NatLessThanWellFounded, WFMin
<1>3. x - 1 \in Nat /\ x - 1 < x  OBVIOUS
<1>4. <<x - 1, x>> \in OpToRel(<, Nat)  BY <1>3 DEF OpToRel
<1>5. x - 1 \in S  BY <1>2, <1>3, <1>4
<1>6. QED  BY <1>3, <1>5

(* There is a function that counts as the loop does, for any number of     *)
(* bands.                                                                  *)
LEMMA CountExists ==
  ASSUME NEW N \in Nat, NEW b \in [1..N -> Count]
  PROVE  \E f \in [0..N -> Count] :
           f[0] = Zero /\ \A i \in 1..N : f[i] = OneBand(f[i - 1], b[i])
<1> DEFINE Good(n, f) == f[0] = Zero /\ \A i \in 1..n : f[i] = OneBand(f[i - 1], b[i])
           S == {n \in Nat : n <= N => \E f \in [0..n -> Count] : Good(n, f)}
<1>1. 0 \in S
  <2>1. [i \in 0..0 |-> Zero] \in [0..0 -> Count] /\ Good(0, [i \in 0..0 |-> Zero])
    BY DEF Zero, Count
  <2>2. QED  BY <2>1
<1>2. ASSUME NEW n \in Nat, n \in S, n + 1 <= N PROVE n + 1 \in S
  <2>1. PICK f \in [0..n -> Count] : Good(n, f)  BY <1>2
  <2> DEFINE g == [i \in 0..n + 1 |-> IF i = n + 1 THEN OneBand(f[n], b[n + 1]) ELSE f[i]]
  <2>2. OneBand(f[n], b[n + 1]) \in Count
    <3>1. f[n] \in Count /\ b[n + 1] \in Count  BY <1>2
    <3>2. QED  BY <3>1 DEF OneBand, Count
  <2>3. g \in [0..n + 1 -> Count]  BY <2>2
  <2>4. ASSUME NEW i \in 1..n + 1 PROVE g[i] = OneBand(g[i - 1], b[i])
    <3>1. CASE i = n + 1
      <4>1. g[n + 1] = OneBand(f[n], b[n + 1]) /\ g[n] = f[n]  OBVIOUS
      <4>2. QED  BY <3>1, <4>1
    <3>2. CASE i \in 1..n
      <4>1. f[i] = OneBand(f[i - 1], b[i])  BY <3>2, <2>1
      <4>2. g[i] = f[i] /\ g[i - 1] = f[i - 1]  BY <3>2
      <4>3. QED  BY <4>1, <4>2
    <3>3. QED  BY <3>1, <3>2
  <2>5. g[0] = Zero  BY <2>1
  <2>6. Good(n + 1, g)  BY <2>4, <2>5
  <2> HIDE DEF g, Good
  <2>7. QED  BY <2>3, <2>6
<1>3. \A n \in Nat : n \in S => n + 1 \in S  BY <1>2
<1> HIDE DEF S
<1>4. N \in S  BY <1>1, <1>3, NatSet
<1>5. QED  BY <1>4 DEF S

(* What Counted is, for bands as the drivers have them.                    *)
Band == [channels : Nat, rates : Nat, caps : SUBSET {"ht", "vht"}]
Bands(k) == k.bands \in Seq(Band)

LEMMA BandsTyped ==
  ASSUME NEW k, Bands(k)
  PROVE  /\ Len(k.bands) \in Nat
         /\ \A i \in 1..Len(k.bands) : k.bands[i].channels \in Nat /\ k.bands[i].rates \in Nat
<1>1. k.bands \in Seq(Band)  BY DEF Bands
<1>2. Len(k.bands) \in Nat  BY <1>1, LenProperties
<1>3. \A i \in 1..Len(k.bands) : k.bands[i] \in Band  BY <1>1, ElementOfSeq
<1>4. QED  BY <1>2, <1>3 DEF Band

LEMMA CountedStep ==
  ASSUME NEW k, Bands(k)
  PROVE  /\ Counted(k) \in [0..Len(k.bands) -> Count]
         /\ Counted(k)[0] = Zero
         /\ \A i \in 1..Len(k.bands) :
              Counted(k)[i] = OneBand(Counted(k)[i - 1], k.bands[i])
<1> DEFINE N == Len(k.bands)
           body(c, i) == IF i = 0 THEN Zero ELSE OneBand(c[i - 1], k.bands[i])
           C == CHOOSE c : c = [i \in 0..N |-> body(c, i)]
           b == [i \in 1..N |-> [channels |-> k.bands[i].channels, rates |-> k.bands[i].rates]]
<1>1. Counted(k) = C  BY DEF Counted, Zero, OneBand
<1>2. N \in Nat /\ b \in [1..N -> Count]
  <2>1. N \in Nat /\ \A i \in 1..N : k.bands[i].channels \in Nat /\ k.bands[i].rates \in Nat
    BY BandsTyped
  <2>2. QED  BY <2>1 DEF Count
<1>3. PICK f \in [0..N -> Count] : f[0] = Zero /\ \A i \in 1..N : f[i] = OneBand(f[i - 1], b[i])
  BY <1>2, CountExists
<1>4. \A i \in 1..N : \A c : OneBand(c, b[i]) = OneBand(c, k.bands[i])
  BY <1>2 DEF OneBand
<1> HIDE DEF b
<1>5. f = [i \in 0..N |-> body(f, i)]
  <2>1. \A i \in 0..N : f[i] = body(f, i)  BY <1>2, <1>3, <1>4
  <2>2. QED  BY <2>1, <1>3
<1>6. C = [i \in 0..N |-> body(C, i)]  BY <1>5, Zenon
<1> HIDE DEF C, N
<1>7. C[0] = Zero /\ \A i \in 1..N : C[i] = OneBand(C[i - 1], k.bands[i])
  BY <1>2, <1>6
<1>8. \A n \in Nat : n \in 0..N => C[n] = f[n]
  <2> DEFINE S == {n \in Nat : n \in 0..N => C[n] = f[n]}
  <2>1. 0 \in S  BY <1>3, <1>7
  <2>2. ASSUME NEW n \in Nat, n \in S, n + 1 \in 0..N PROVE C[n + 1] = f[n + 1]
    <3>1. C[n] = f[n] /\ n + 1 \in 1..N /\ (n + 1) - 1 = n  BY <2>2, <1>2
    <3>2. QED  BY <3>1, <1>3, <1>4, <1>7
  <2>3. \A n \in Nat : n \in S => n + 1 \in S  BY <2>2
  <2> HIDE DEF S
  <2>4. Nat \subseteq S  BY <2>1, <2>3, NatSet
  <2>5. QED  BY <2>4 DEF S
<1>9. C = f
  <2>1. \A n \in 0..N : C[n] = f[n]  BY <1>2, <1>8
  <2> HIDE DEF body
  <2>2. C = [n \in 0..N |-> C[n]]  BY <1>6
  <2>3. f = [n \in 0..N |-> f[n]]  BY <1>3
  <2>4. QED  BY <2>1, <2>2, <2>3
<1>10. QED  BY <1>1, <1>3, <1>7, <1>9 DEF N

(* No band has more channels than are counted after it, in the end too.    *)
LEMMA CountedGrows ==
  ASSUME NEW k, Bands(k), NEW i \in 1..Len(k.bands)
  PROVE  Counted(k)[i - 1].channels + k.bands[i].channels <= AllBands(k).channels
<1> DEFINE N == Len(k.bands)
           ch(n) == Counted(k)[n].channels
           S == {n \in Nat : i + n <= N => ch(i) <= ch(i + n)}
<1>1. N \in Nat /\ \A n \in 0..N : Counted(k)[n] \in Count  BY CountedStep, BandsTyped
<1>2. \A n \in 1..N : k.bands[n].channels \in Nat  BY BandsTyped
<1>3. \A n \in 1..N : ch(n) = ch(n - 1) + k.bands[n].channels
  <2>1. \A n \in 1..N : Counted(k)[n] = OneBand(Counted(k)[n - 1], k.bands[n])
    BY CountedStep
  <2>2. \A c, x : OneBand(c, x).channels = c.channels + x.channels  BY DEF OneBand
  <2>3. QED  BY <2>1, <2>2
<1>4. \A n \in 0..N : ch(n) \in Nat  BY <1>1 DEF Count
<1> HIDE DEF ch, N
<1>5. 0 \in S
  <2>1. i \in 0..N  BY DEF N
  <2>2. QED  BY <2>1, <1>4
<1>6. ASSUME NEW n \in Nat, n \in S, i + (n + 1) <= N PROVE ch(i) <= ch(i + (n + 1))
  <2>1. i \in 1..N  BY DEF N
  <2>2. i + (n + 1) \in 1..N /\ i + n \in 0..N /\ (i + (n + 1)) - 1 = i + n
    BY <1>1, <1>6, <2>1
  <2>3. ch(i + (n + 1)) = ch(i + n) + k.bands[i + (n + 1)].channels  BY <1>3, <2>2
  <2>4. ch(i) <= ch(i + n)  BY <1>6, <1>1, <2>1
  <2>5. QED  BY <1>2, <1>4, <2>1, <2>2, <2>3, <2>4
<1>7. \A n \in Nat : n \in S => n + 1 \in S  BY <1>6
<1> HIDE DEF S
<1>8. N - i \in S  BY <1>1, <1>5, <1>7, NatSet DEF N
<1>9. ch(i) <= ch(N)  BY <1>1, <1>8 DEF S, N
<1>10. ch(i) = ch(i - 1) + k.bands[i].channels  BY <1>3 DEF N
<1>11. QED  BY <1>9, <1>10 DEF ch, N, AllBands

----------------------------------------------------------------------------
(* The inductive invariant: what each place of the registration knows of   *)
(* its device. Only the last places are in ErrorBeforeEffects and          *)
(* ConfigSound, which are not inductive: what holds there is established   *)
(* at earlier ones.                                                        *)
Places == {"new", "check", "checked", "ready", "started", "vif", "adding", "up", "failed"}
Device == [at : Places, kind : DevKinds, wiphy : BOOLEAN, runs : BOOLEAN,
           queues : Nat, scan : 0..LenMod - 1, room : Nat]

NoEffect(r) == r.at \in {"none", "new", "check", "checked", "ready", "failed"} =>
                 ~r.wiphy /\ ~r.runs
Accepted(r) == r.at \in {"checked", "ready", "started", "vif", "adding", "up"} =>
                 (r.kind.wide => r.kind.chanctx = 5 /\ ~r.kind.radar)
Prepared(r) == r.at \in {"ready", "started", "vif", "adding", "up"} =>
                 /\ r.room = AllBands(r.kind).channels
                 /\ Offer(r.kind) >= ScanIesLen(r.kind) => r.scan < Offer(r.kind)
Clamped(r) == r.at \in {"started", "vif", "adding", "up"} =>
                 (r.queues > MaxQueues => r.kind.old /\ r.wiphy)
Sound(r) == NoEffect(r) /\ Accepted(r) /\ Prepared(r) /\ Clamped(r)

\* vmon is of a device that has come as far as SetVmon.
MonitorSet == vmon # NULL => dev[vmon].at \in {"adding", "up"}

HostInv ==
  /\ TypeOK
  /\ \A d \in Devices : Sound(dev[d])
  /\ MonitorSet
  /\ FreedOnce

LEMMA InitHost == Init => HostInv
<1> SUFFICES ASSUME Init PROVE HostInv  OBVIOUS
<1>1. TypeOK  BY DEF Init, TypeOK
<1>2. \A d \in Devices : dev[d] = Unplugged  BY DEF Init
<1>3. Sound(Unplugged)
  BY DEF Unplugged, Sound, NoEffect, Accepted, Prepared, Clamped
<1>4. MonitorSet /\ FreedOnce  BY DEF Init, MonitorSet, FreedOnce
<1>5. QED  BY <1>1, <1>2, <1>3, <1>4 DEF HostInv

(* A step of a probe that gives its device a sound record, and the pointer *)
(* to the hardware or to the interface, if any, that device.               *)
LEMMA DeviceStep ==
  ASSUME HostInv, NEW d \in Devices, NEW r \in Device, Sound(r),
         dev' = [dev EXCEPT ![d] = r], vhw' \in {vhw, d},
         \/ vmon' = vmon /\ (r.at \in {"adding", "up"} \/ dev[d].at \notin {"adding", "up"})
         \/ vmon' = d /\ r.at = "adding",
         UNCHANGED <<queueVars, frameVars>>
  PROVE  HostInv'
<1> USE DEF HostInv
<1>1. /\ dev \in [Devices -> {Unplugged} \cup Device]
      /\ dev'[d] = r /\ \A x \in Devices \ {d} : dev'[x] = dev[x]
  BY DEF TypeOK, Device, Places
<1>2. TypeOK'
  <2>1. dev' \in [Devices -> {Unplugged} \cup Device]  BY <1>1
  <2>2. {vhw', vmon'} \subseteq Devices \cup {NULL}  BY DEF TypeOK
  <2>3. QED  BY <2>1, <2>2 DEF TypeOK, Device, Places, queueVars, frameVars
<1>3. \A x \in Devices : Sound(dev'[x])  BY <1>1
<1>4. MonitorSet'
  <2>1. vmon \in Devices \cup {NULL}  BY DEF TypeOK
  <2>2. QED  BY <1>1, <2>1 DEF MonitorSet
<1>5. FreedOnce'  BY DEF FreedOnce, frameVars
<1>6. QED  BY <1>2, <1>3, <1>4, <1>5

(* The device an action starts from.                                       *)
LEMMA PluggedDevice ==
  ASSUME HostInv, NEW d \in Devices, dev[d].at # "none"
  PROVE  dev[d] \in Device /\ Sound(dev[d]) /\ Kind(d) \in DevKinds /\ Bands(Kind(d))
<1>1. dev[d] \in {Unplugged} \cup Device /\ Sound(dev[d])  BY DEF HostInv, TypeOK, Device, Places
<1>2. dev[d] \in Device  BY <1>1 DEF Unplugged
<1>3. Kind(d) \in DevKinds  BY <1>2 DEF Device, Kind
<1>4. Bands(Kind(d))  BY <1>3, HostAssumption DEF Bands, Band
<1>5. QED  BY <1>1, <1>2, <1>3, <1>4

LEMMA AllocHost == ASSUME HostInv, NEW d \in Devices, Alloc(d) PROVE HostInv'
<1>1. PICK k \in DevKinds, mem \in BOOLEAN :
        dev' = [dev EXCEPT ![d] = IF AllocAccepts(k) /\ mem THEN Fresh(k)
                                  ELSE [Fresh(k) EXCEPT !.at = "failed"]]
  BY DEF Alloc
<1> DEFINE r == IF AllocAccepts(k) /\ mem THEN Fresh(k) ELSE [Fresh(k) EXCEPT !.at = "failed"]
<1>2. k.queues \in Nat /\ 0 \in 0..LenMod - 1  BY HostAssumption
<1>3. r \in Device  BY <1>2 DEF Device, Places, Fresh
<1>4. r.at \in {"new", "failed"} /\ ~r.wiphy /\ ~r.runs  BY DEF Fresh
<1>5. Sound(r)  BY <1>4 DEF Sound, NoEffect, Accepted, Prepared, Clamped
<1>6. dev[d].at = "none" /\ UNCHANGED <<vhw, vmon, queueVars, frameVars>>  BY DEF Alloc
<1> HIDE DEF r
<1>7. QED  BY <1>1, <1>3, <1>5, <1>6, DeviceStep DEF r

LEMMA PublishHost == ASSUME HostInv, NEW d \in Devices, Publish(d) PROVE HostInv'
<1> DEFINE r == [dev[d] EXCEPT !.at = "check"]
<1>1. dev[d] \in Device /\ Sound(dev[d]) /\ dev[d].at = "new"
  BY PluggedDevice DEF Publish
<1>2. r \in Device /\ r.at = "check" /\ ~r.wiphy /\ ~r.runs
  BY <1>1 DEF Device, Places, Sound, NoEffect
<1>3. Sound(r)  BY <1>2 DEF Sound, NoEffect, Accepted, Prepared, Clamped
<1>4. dev' = [dev EXCEPT ![d] = r]  BY DEF Publish
<1> HIDE DEF r
<1>5. QED  BY <1>1, <1>2, <1>3, <1>4, DeviceStep DEF Publish

LEMMA CheckHost == ASSUME HostInv, NEW d \in Devices, Check(d) PROVE HostInv'
<1> DEFINE k == Kind(d)
           r == [dev[d] EXCEPT !.at = IF RegisterAccepts(k) THEN "checked" ELSE "failed"]
<1>1. dev[d] \in Device /\ Sound(dev[d]) /\ dev[d].at = "check" /\ k \in DevKinds
  BY PluggedDevice DEF Check
<1>2. r \in Device /\ ~r.wiphy /\ ~r.runs /\ r.kind = k
      /\ r.at = IF RegisterAccepts(k) THEN "checked" ELSE "failed"
  BY <1>1 DEF Device, Places, Sound, NoEffect, Kind
<1>3. RegisterAccepts(k) /\ k.wide => k.chanctx = 5 /\ ~k.radar
  BY <1>1, HostAssumption DEF RegisterAccepts, UseChanctx
<1>4. dev' = [dev EXCEPT ![d] = r]  BY DEF Check
<1> HIDE DEF r, k
<1>5. Sound(r)  BY <1>2, <1>3 DEF Sound, NoEffect, Accepted, Prepared, Clamped
<1>6. QED  BY <1>1, <1>2, <1>4, <1>5, DeviceStep DEF Check

(* The elements of a scan request are never none, so that a driver that    *)
(* offers enough is left with less.                                        *)
LEMMA ScanIesLenPositive ==
  ASSUME NEW k \in DevKinds
  PROVE  ScanIesLen(k) \in Nat \ {0} /\ Offer(k) \in Nat /\ AllBands(k) \in Count
<1>1. Bands(k)  BY HostAssumption DEF Bands, Band
<1>2. AllBands(k) \in Count  BY <1>1, CountedStep, BandsTyped DEF AllBands
<1>3. AllBands(k).rates \in Nat  BY <1>2 DEF Count
<1>4. ScanIesLen(k) \in Nat \ {0}  BY <1>3 DEF ScanIesLen
<1>5. Offer(k) \in Nat  BY HostAssumption DEF Offer
<1>6. QED  BY <1>2, <1>4, <1>5

LEMMA PrepareHost == ASSUME HostInv, NEW d \in Devices, Prepare(d) PROVE HostInv'
<1> DEFINE k == Kind(d)
           left == IF Offer(k) = 0 THEN 0 ELSE (Offer(k) - ScanIesLen(k)) % LenMod
           good == [dev[d] EXCEPT !.at = "ready", !.room = AllBands(k).channels, !.scan = left]
           bad == [dev[d] EXCEPT !.at = "failed"]
<1>1. dev[d] \in Device /\ Sound(dev[d]) /\ dev[d].at = "checked" /\ k \in DevKinds
  BY PluggedDevice DEF Prepare
<1>2. ScanIesLen(k) \in Nat \ {0} /\ Offer(k) \in Nat /\ AllBands(k).channels \in Nat
  BY <1>1, ScanIesLenPositive DEF Count
<1>3. LenMod \in Nat \ {0}  BY HostAssumption
<1>4. left \in 0..LenMod - 1  BY <1>2, <1>3
<1>5. Offer(k) >= ScanIesLen(k) => left < Offer(k)
  <2>1. SUFFICES ASSUME Offer(k) >= ScanIesLen(k) PROVE left < Offer(k)  OBVIOUS
  <2>2. \A m \in Nat : m % LenMod <= m  BY <1>3
  <2>3. Offer(k) - ScanIesLen(k) \in Nat /\ Offer(k) - ScanIesLen(k) < Offer(k)  BY <1>2, <2>1
  <2>4. QED  BY <1>2, <1>4, <2>1, <2>2, <2>3
<1>6. dev' = [dev EXCEPT ![d] = good] \/ dev' = [dev EXCEPT ![d] = bad]
  BY DEF Prepare
<1> HIDE DEF left, k
<1>7. /\ good \in Device /\ good.at = "ready" /\ ~good.wiphy /\ ~good.runs
      /\ good.kind = k /\ good.room = AllBands(k).channels /\ good.scan = left
      /\ k.wide => k.chanctx = 5 /\ ~k.radar
  BY <1>1, <1>2, <1>4 DEF Device, Places, Sound, NoEffect, Accepted, k, Kind
<1>8. bad \in Device /\ bad.at = "failed" /\ ~bad.wiphy /\ ~bad.runs
  BY <1>1 DEF Device, Places, Sound, NoEffect
<1>9. dev[d].at = "checked" /\ UNCHANGED <<vhw, vmon, queueVars, frameVars>>
  BY DEF Prepare
<1> HIDE DEF good, bad
<1>10. Sound(good)  BY <1>5, <1>7 DEF Sound, NoEffect, Accepted, Prepared, Clamped
<1>11. Sound(bad)  BY <1>8 DEF Sound, NoEffect, Accepted, Prepared, Clamped
<1>12. QED  BY <1>6, <1>7, <1>8, <1>9, <1>10, <1>11, DeviceStep

LEMMA RegisterWiphyHost == ASSUME HostInv, NEW d \in Devices, RegisterWiphy(d) PROVE HostInv'
<1> DEFINE q(ok) == IF dev[d].queues > MaxQueues /\ (~dev[d].kind.old \/ ~ok)
                    THEN MaxQueues ELSE dev[d].queues
           r(ok) == [dev[d] EXCEPT !.at = "started", !.wiphy = ok, !.queues = q(ok)]
<1>1. dev[d] \in Device /\ Sound(dev[d]) /\ dev[d].at = "ready" /\ dev[d].kind \in DevKinds
  BY PluggedDevice DEF RegisterWiphy, Kind
<1>2. PICK ok \in BOOLEAN : dev' = [dev EXCEPT ![d] = r(ok)]  BY DEF RegisterWiphy
<1>3. q(ok) \in Nat /\ (q(ok) > MaxQueues => dev[d].kind.old /\ ok)
  BY <1>1, HostAssumption DEF Device
<1> HIDE DEF q
<1>4. /\ r(ok) \in Device /\ r(ok).at = "started" /\ r(ok).kind = dev[d].kind
      /\ r(ok).room = dev[d].room /\ r(ok).scan = dev[d].scan /\ r(ok).queues = q(ok)
      /\ r(ok).wiphy = ok
  BY <1>1, <1>3 DEF Device, Places
<1> HIDE DEF r
<1>5. Sound(r(ok))  BY <1>1, <1>3, <1>4 DEF Sound, NoEffect, Accepted, Prepared, Clamped
<1>6. QED  BY <1>1, <1>2, <1>4, <1>5, DeviceStep DEF RegisterWiphy

(* From there on nothing that was prepared changes.                        *)
LEMMA LaterPlace ==
  ASSUME HostInv, NEW d \in Devices, dev[d].at \in {"started", "vif", "adding"},
         NEW a \in {"vif", "adding", "up"}, NEW runs \in BOOLEAN
  PROVE  LET r == [dev[d] EXCEPT !.at = a, !.runs = runs]
         IN r \in Device /\ Sound(r) /\ r.at = a
<1> DEFINE r == [dev[d] EXCEPT !.at = a, !.runs = runs]
<1>1. dev[d] \in Device /\ Sound(dev[d])  BY PluggedDevice
<1>2. /\ r \in Device /\ r.at = a /\ r.kind = dev[d].kind /\ r.queues = dev[d].queues
      /\ r.room = dev[d].room /\ r.scan = dev[d].scan /\ r.wiphy = dev[d].wiphy
  BY <1>1 DEF Device, Places
<1> HIDE DEF r
<1>3. Sound(r)  BY <1>1, <1>2 DEF Sound, NoEffect, Accepted, Prepared, Clamped
<1>4. QED  BY <1>2, <1>3 DEF r

LEMMA StartHost == ASSUME HostInv, NEW d \in Devices, Start(d) PROVE HostInv'
<1>1. PICK ok \in BOOLEAN : dev' = [dev EXCEPT ![d] = [dev[d] EXCEPT !.at = "vif", !.runs = ok]]
  BY DEF Start
<1> DEFINE r == [dev[d] EXCEPT !.at = "vif", !.runs = ok]
<1>2. r \in Device /\ Sound(r) /\ r.at = "vif"  BY LaterPlace DEF Start
<1>3. dev' = [dev EXCEPT ![d] = r]  BY <1>1
<1> HIDE DEF r
<1>4. QED  BY <1>2, <1>3, DeviceStep DEF Start

LEMMA InterfaceHost ==
  ASSUME HostInv, NEW d \in Devices, SetVmon(d) \/ Configure(d) PROVE HostInv'
<1>1. dev[d] \in Device  BY PluggedDevice DEF SetVmon, Configure
<1>2. CASE SetVmon(d)
  <2> DEFINE r == [dev[d] EXCEPT !.at = "adding", !.runs = dev[d].runs]
  <2>1. dev[d].runs \in BOOLEAN /\ dev[d].at = "vif"  BY <1>1, <1>2 DEF SetVmon, Device
  <2>2. r \in Device /\ Sound(r) /\ r.at = "adding"  BY <2>1, LaterPlace
  <2>3. dev' = [dev EXCEPT ![d] = r]  BY <1>1, <1>2 DEF SetVmon, Device
  <2> HIDE DEF r
  <2>4. QED  BY <1>2, <2>2, <2>3, DeviceStep DEF SetVmon
<1>3. CASE Configure(d)
  <2> DEFINE r == [dev[d] EXCEPT !.at = "up", !.runs = dev[d].runs]
  <2>1. dev[d].runs \in BOOLEAN /\ dev[d].at = "adding"  BY <1>1, <1>3 DEF Configure, Device
  <2>2. r \in Device /\ Sound(r) /\ r.at = "up"  BY <2>1, LaterPlace
  <2>3. dev' = [dev EXCEPT ![d] = r]  BY <1>1, <1>3 DEF Configure, Device
  <2> HIDE DEF r
  <2>4. QED  BY <1>3, <2>2, <2>3, DeviceStep DEF Configure
<1>4. QED  BY <1>2, <1>3

(* Frames: whoever frees one has it.                                       *)
LEMMA FrameHost ==
  ASSUME HostInv, UNCHANGED devVars, UNCHANGED queueVars, UNCHANGED pidt,
         NEW f \in Frames, where[f] # "gone",
         \/ FreeIt(f)
         \/ /\ UNCHANGED freed
            /\ \E to \in {"queued", "core", "mgmt", "nl", "lost"} : where' = [where EXCEPT ![f] = to]
  PROVE  HostInv'
<1> USE DEF HostInv, devVars, queueVars
<1>1. TypeOK'
  <2>1. /\ where' \in [Frames -> {"out", "queued", "driver", "core", "mgmt", "nl", "gone", "lost"}]
        /\ freed' \in [Frames -> Nat]
    BY DEF TypeOK, FreeIt
  <2>2. QED  BY <2>1 DEF TypeOK
<1>2. \A d \in Devices : Sound(dev'[d])  OBVIOUS
<1>3. MonitorSet'  BY DEF MonitorSet
<1>4. FreedOnce'  BY DEF TypeOK, FreedOnce, FreeIt
<1>5. QED  BY <1>1, <1>2, <1>3, <1>4

(* The steps of queuethread: it has hardware when it works.                *)
LEMMA QueueHost == ASSUME HostInv, QueueWakes \/ AskSlot \/ LowTx PROVE HostInv'
<1> USE DEF HostInv
<1>1. UNCHANGED devVars /\ freed' = freed /\ pidt' = pidt
  BY DEF QueueWakes, AskSlot, LowTx, frameVars
<1>2. TypeOK'
  <2>1. CASE QueueWakes  BY <2>1 DEF QueueWakes, TypeOK, devVars, frameVars
  <2>2. CASE AskSlot  BY <2>2 DEF AskSlot, TypeOK, devVars, frameVars
  <2>3. CASE LowTx  BY <2>3 DEF LowTx, TypeOK, devVars
  <2>4. QED  BY <2>1, <2>2, <2>3
<1>3. (\A d \in Devices : Sound(dev'[d])) /\ MonitorSet'  BY <1>1 DEF devVars, MonitorSet
<1>4. FreedOnce'  BY <1>1 DEF QueueWakes, AskSlot, LowTx, frameVars, FreedOnce, TypeOK
<1>5. QED  BY <1>2, <1>3, <1>4

LEMMA SpeakHost == ASSUME HostInv, NEW p \in Procs, UserSpeaks(p) PROVE HostInv'
<1> USE DEF HostInv
<1>1. TypeOK'  BY DEF UserSpeaks, TypeOK, devVars, queueVars
<1>2. FreedOnce'  BY DEF UserSpeaks, FreedOnce, TypeOK
<1>3. (\A d \in Devices : Sound(dev'[d])) /\ MonitorSet'  BY DEF UserSpeaks, devVars, MonitorSet
<1>4. QED  BY <1>1, <1>2, <1>3

LEMMA NextHost == HostInv /\ [Next]_vars => HostInv'
<1> SUFFICES ASSUME HostInv, [Next]_vars PROVE HostInv'  OBVIOUS
<1>1. ASSUME NEW d \in Devices, Probe(d) PROVE HostInv'
  BY <1>1, AllocHost, PublishHost, CheckHost, PrepareHost, RegisterWiphyHost, StartHost,
     InterfaceHost DEF Probe
<1>2. CASE QueueWakes \/ AskSlot \/ LowTx  BY <1>2, QueueHost
<1>3. ASSUME NEW f \in Frames, TxStatus(f) \/ RxVmac(f) \/ Reception(f) PROVE HostInv'
  <2>1. CASE TxStatus(f)  BY <2>1, FrameHost DEF TxStatus
  <2>2. CASE RxVmac(f)
    <3>1. FreeIt(f) \/ (UNCHANGED freed /\ \E to \in {"queued", "core", "mgmt", "nl", "lost"} :
                          where' = [where EXCEPT ![f] = to])
      BY <2>2 DEF RxVmac
    <3>2. QED  BY <2>2, <3>1, FrameHost DEF RxVmac
  <2>3. CASE Reception(f)
    <3>1. CASE Core(f)  BY <3>1, FrameHost DEF Core
    <3>2. CASE ServeDack(f)  BY <3>2, FrameHost DEF ServeDack
    <3>3. CASE NlSend(f)  BY <3>3, FrameHost DEF NlSend
    <3>4. QED  BY <2>3, <3>1, <3>2, <3>3 DEF Reception
  <2>4. QED  BY <1>3, <2>1, <2>2, <2>3
<1>4. ASSUME NEW p \in Procs, UserSpeaks(p) PROVE HostInv'  BY <1>4, SpeakHost
<1>5. CASE UNCHANGED vars
  BY <1>5 DEF vars, devVars, queueVars, frameVars, HostInv, TypeOK, MonitorSet, FreedOnce
<1>6. QED  BY <1>1, <1>2, <1>3, <1>4, <1>5 DEF Next

----------------------------------------------------------------------------
(* Every variable stays in its domain, and queuethread has hardware when it*)
(* is awake (queue.c:230-243).                                             *)
THEOREM HostTypeCorrect == Spec => []TypeOK
<1>1. HostInv => TypeOK  BY DEF HostInv
<1>2. QED  BY <1>1, InitHost, NextHost, PTL DEF Spec

(* A registration that returns an error has set vhw and nothing else, and a*)
(* device that went past the checks, whatever wiphy_register and its       *)
(* driver's start then returned, has what its checks and its preparation   *)
(* promised each other; its queues fit the arrays, but for a registered    *)
(* device of a kernel before 4.10 (hooks.c:61-662). For any bands and      *)
(* limits a driver may have.                                               *)
THEOREM RegistrationSoundHolds == Spec => []RegistrationSound
<1>1. HostInv => RegistrationSound
  <2> SUFFICES ASSUME HostInv PROVE RegistrationSound  OBVIOUS
  <2>1. ASSUME NEW d \in Devices, dev[d].at = "failed"
        PROVE  ~dev[d].wiphy /\ ~dev[d].runs /\ vmon # d
    <3>1. Sound(dev[d]) /\ MonitorSet /\ NULL \notin Devices  BY HostAssumption DEF HostInv
    <3>2. QED  BY <2>1, <3>1 DEF Sound, NoEffect, MonitorSet
  <2>2. ASSUME NEW d \in Devices, dev[d].at \in {"started", "vif", "adding", "up"},
               NEW i \in DOMAIN Kind(d).bands, NEW c \in 1..Kind(d).bands[i].channels
        PROVE  Counted(Kind(d))[i - 1].channels + c <= dev[d].room
    <3> DEFINE k == Kind(d)
    <3>1. Bands(k) /\ Sound(dev[d])  BY <2>2, PluggedDevice
    <3>2. i \in 1..Len(k.bands)  BY <3>1, LenProperties DEF Bands
    <3> HIDE DEF k
    <3>3. Counted(k)[i - 1].channels + k.bands[i].channels <= AllBands(k).channels
      BY <3>1, <3>2, CountedGrows
    <3>4. dev[d].room = AllBands(k).channels  BY <2>2, <3>1 DEF Sound, Prepared, k, Kind
    <3>5. i - 1 \in 0..Len(k.bands) /\ Len(k.bands) \in 0..Len(k.bands)
          /\ k.bands[i].channels \in Nat
      BY <3>1, <3>2, BandsTyped
    <3>6. Counted(k)[i - 1].channels \in Nat /\ AllBands(k).channels \in Nat
      BY <3>1, <3>5, CountedStep DEF Count, AllBands
    <3>7. c \in Nat /\ c <= k.bands[i].channels  BY <2>2, <3>5 DEF k
    <3>8. Counted(k)[i - 1].channels + c <= AllBands(k).channels
      BY <3>3, <3>5, <3>6, <3>7
    <3>9. QED  BY <3>4, <3>8 DEF k
  <2>3. ASSUME NEW d \in Devices, dev[d].at \in {"started", "vif", "adding", "up"}
        PROVE  LET k == Kind(d)
               IN /\ k.wide => k.chanctx = 5 /\ ~k.radar
                  /\ dev[d].queues > MaxQueues => k.old /\ dev[d].wiphy
                  /\ Offer(k) >= ScanIesLen(k) => dev[d].scan < Offer(k)
    BY <2>3, PluggedDevice DEF Sound, Accepted, Prepared, Clamped, Kind
  <2>4. ErrorBeforeEffects  BY <2>1 DEF ErrorBeforeEffects
  <2>5. ConfigSound  BY <2>2, <2>3 DEF ConfigSound
  <2>6. QED  BY <2>4, <2>5 DEF RegistrationSound
<1>2. QED  BY <1>1, InitHost, NextHost, PTL DEF Spec

(* No frame is freed twice, or while somebody has it (rx.c:391-497,        *)
(* rx.c:48-110, hooks.c:1038-1050).                                        *)
THEOREM FreedOnceHolds == Spec => []FreedOnce
<1>1. HostInv => FreedOnce  BY DEF HostInv
<1>2. QED  BY <1>1, InitHost, NextHost, PTL DEF Spec
=============================================================================
