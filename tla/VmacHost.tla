------------------------------- MODULE VmacHost ------------------------------
(***************************************************************************)
(* What surrounds the protocol: the driver of a device, which allocates    *)
(* and registers it with hooks.c and gives and takes frames, queuethread's *)
(* way to that driver, and netlink, to and from the user processes.        *)
(*                                                                         *)
(* A device is registered by its own probe, step by step; queuethread, the *)
(* interrupts of the driver and the user processes run between the steps.  *)
(***************************************************************************)
EXTENDS Integers, Sequences

CONSTANTS
  Devices,      \* devices that are plugged in
  DevKinds,     \* what a device may be, see Demands and Prepare; old says that
                \* the module was built for a kernel before 4.10
  MaxQueues,    \* IEEE80211_MAX_QUEUES
  MaxDataLen,   \* IEEE80211_MAX_DATA_LEN: 2304
  LenMod,       \* range of max_scan_ie_len: 2^16
  Overhearing,  \* built with ENABLE_OVERHEARING
  Frames,       \* frames of the instance
  Procs,        \* user processes
  NULL, Nobody  \* no device; pidt = -1

ASSUME HostAssumption ==
  /\ {MaxQueues, MaxDataLen, LenMod} \subseteq Nat \ {0}
  /\ \A k \in DevKinds :
       /\ {k.wide, k.radar, k.wds, k.hwscan, k.old} \subseteq BOOLEAN
       /\ {k.chanctx, k.queues, k.offer} \subseteq Nat
       /\ k.bands \in Seq([channels : Nat, rates : Nat, caps : SUBSET {"ht", "vht"}])
  /\ Overhearing \in BOOLEAN
  /\ NULL \notin Devices /\ Nobody \notin Procs

VARIABLES
  dev,        \* dev[d]: where its registration stands, and what it set up
  vhw, vmon,  \* getvhw() and, by the device whose probe set it, getvmon()
  qpc,        \* where queuethread stands
  local,      \* its pointer to the hardware
  low,        \* vmac_low_tx's pointer to the hardware
  handed,     \* history: the last frame given to a driver, and how
  where,      \* where[f]: who has a frame
  freed,      \* freed[f]: how often it was freed
  pidt        \* the process that gets frames

devVars   == <<dev, vhw, vmon>>
queueVars == <<qpc, local, low, handed>>
frameVars == <<where, freed, pidt>>
vars == <<devVars, queueVars, frameVars>>

Unplugged == [at |-> "none", wiphy |-> FALSE, runs |-> FALSE]
Kind(d) == dev[d].kind

Init ==
  /\ dev = [d \in Devices |-> Unplugged] /\ vhw = NULL /\ vmon = NULL
  /\ qpc = "sleep" /\ local = NULL /\ low = NULL
  /\ handed = [to |-> NULL, asked |-> NULL, vif |-> NULL]
  /\ where = [f \in Frames |-> "out"] /\ freed = [f \in Frames |-> 0]
  /\ pidt = Nobody

----------------------------------------------------------------------------
(* ieee80211_alloc_hw_nm and ieee80211_register_hw.                        *)

\* Channel contexts are used when all five operations on them exist.
UseChanctx(k) == k.chanctx = 5
AllocAccepts(k) == k.ops /\ k.chanctx \in {0, 5}

\* The checks of ieee80211_register_hw that return an error: what a feature
\* demands of the driver, and the interface combinations.
Demands(k) == {"queue control", "tdls", "nan", "features"}
             \cup (IF k.old THEN {"wowlan"} ELSE {"fragmentation"})
RegisterAccepts(k) ==
  /\ k.unmet \notin Demands(k)
  /\ IF UseChanctx(k) THEN ~k.wds /\ ~(k.radar /\ k.wide) ELSE ~k.wide

\* What alloc_hw fills in, then the driver.
Fresh(k) == [at |-> "new", kind |-> k, wiphy |-> FALSE, runs |-> FALSE,
             queues |-> k.queues, scan |-> 0, room |-> 0]

\* Without memory for the wiphy there is no device either.
Alloc(d) == \E k \in DevKinds, mem \in BOOLEAN :
  /\ dev[d].at = "none"
  /\ dev' = [dev EXCEPT ![d] = IF AllocAccepts(k) /\ mem THEN Fresh(k)
                              ELSE [Fresh(k) EXCEPT !.at = "failed"]]
  /\ UNCHANGED <<vhw, vmon, queueVars, frameVars>>

\* The global pointer is set first of all, and never cleared.
Publish(d) ==
  /\ dev[d].at = "new"
  /\ dev' = [dev EXCEPT ![d].at = "check"] /\ vhw' = d
  /\ UNCHANGED <<vmon, queueVars, frameVars>>

Check(d) ==
  /\ dev[d].at = "check"
  /\ dev' = [dev EXCEPT ![d].at =
               IF RegisterAccepts(Kind(d)) THEN "checked" ELSE "failed"]
  /\ UNCHANGED <<vhw, vmon, queueVars, frameVars>>

\* The loop over the bands: the channels and the most rates after each of them
Counted(k) ==
  LET c[i \in 0..Len(k.bands)] ==
        IF i = 0 THEN [channels |-> 0, rates |-> 0]
        ELSE LET b == k.bands[i]
             IN [channels |-> c[i - 1].channels + b.channels,
                 rates |-> IF c[i - 1].rates < b.rates THEN b.rates ELSE c[i - 1].rates]
  IN c
AllBands(k) == Counted(k)[Len(k.bands)]

\* scan_ies_len: rates, DS parameters and the HT and VHT capabilities
ScanIesLen(k) ==
  LET has(c) == \E i \in DOMAIN k.bands : c \in k.bands[i].caps
  IN 4 + AllBands(k).rates + 3
       + (IF has("ht") THEN 2 + 26 ELSE 0) + (IF has("vht") THEN 2 + 12 ELSE 0)
\* max_scan_ie_len as the driver leaves it, 0 when it wants no elements
Offer(k) == IF k.hwscan THEN k.offer ELSE MaxDataLen

\* The limit that is checked late: one ad-hoc interface in a combination.
LateLimit(k) == k.unmet = "adhoc"

\* Mistake: the wiphy is registered before the memory is there.
PrepareLate(d) ==
  /\ dev[d].at = "checked"
  /\ \E mem \in BOOLEAN : dev' = [dev EXCEPT
       ![d].wiphy = TRUE,
       ![d].at = IF LateLimit(Kind(d)) \/ ~mem THEN "failed" ELSE "ready"]
  /\ UNCHANGED <<vhw, vmon, queueVars, frameVars>>

\* The bands, the one limit checked late, int_scan_req and the scan lengths.
Prepare(d) ==
  LET k == Kind(d)
  IN /\ dev[d].at = "checked"
     /\ \E mem \in BOOLEAN : dev' = [dev EXCEPT ![d] =
          IF LateLimit(k) \/ ~mem THEN [@ EXCEPT !.at = "failed"]
          ELSE [@ EXCEPT !.at = "ready", !.room = AllBands(k).channels,
                  !.scan = IF Offer(k) = 0 THEN 0
                           ELSE (Offer(k) - ScanIesLen(k)) % LenMod]]
     /\ UNCHANGED <<vhw, vmon, queueVars, frameVars>>

\* The result of wiphy_register is not looked at. From 4.10 on the queues are
\* clamped whatever it is; before, the clamp is the statement of the if that was
\* to handle an error.
RegisterWiphy(d) ==
  /\ dev[d].at = "ready"
  /\ \E ok \in BOOLEAN : dev' = [dev EXCEPT
       ![d].at = "started", ![d].wiphy = ok,
       ![d].queues = IF @ > MaxQueues /\ (~dev[d].kind.old \/ ~ok) THEN MaxQueues ELSE @]
  /\ UNCHANGED <<vhw, vmon, queueVars, frameVars>>

\* local->started, then the driver's start, whose result is not looked at. The
\* kzalloc of the two channels is taken to succeed: its results are not tested.
Start(d) ==
  /\ dev[d].at = "started"
  /\ \E ok \in BOOLEAN :
       dev' = [dev EXCEPT ![d].at = "vif", ![d].runs = ok]
  /\ UNCHANGED <<vhw, vmon, queueVars, frameVars>>

\* vmon points to the interface on the stack of this call.
SetVmon(d) ==
  /\ dev[d].at = "vif"
  /\ dev' = [dev EXCEPT ![d].at = "adding"] /\ vmon' = d
  /\ UNCHANGED <<vhw, queueVars, frameVars>>

\* add_interface, sta_add, bss_info_changed, conf_tx, configure_filter, and
\* the call returns 0.
Configure(d) ==
  /\ dev[d].at = "adding"
  /\ dev' = [dev EXCEPT ![d].at = "up"]
  /\ UNCHANGED <<vhw, vmon, queueVars, frameVars>>

----------------------------------------------------------------------------
(* Frames to the driver: queuethread and vmac_low_tx.                      *)

\* Mistake: the lists are walked though there was no hardware.
QueueWakesBlind ==
  /\ qpc = "sleep" /\ qpc' = "awake"
  /\ local' = IF local = NULL THEN vhw ELSE local
  /\ UNCHANGED <<devVars, low, handed, frameVars>>

\* After msleep(500) and each short sleep, for which nothing but time is
\* waited.  Without hardware it goes on sleeping as long as the lists are
\* empty, and dereferences the null pointer for the first frame.
QueueWakes ==
  /\ qpc = "sleep"
  /\ local' = IF local = NULL THEN vhw ELSE local
  /\ \/ local' # NULL /\ qpc' = "awake"
     \/ local' = NULL /\ qpc' = "oops" /\ \E f \in Frames : where[f] = "queued"
  /\ UNCHANGED <<devVars, low, handed, frameVars>>

\* It asks the driver of local for a slot, and vmac_low_tx reads vhw.
AskSlot ==
  /\ qpc = "awake"
  /\ \/ qpc' = "sleep" /\ UNCHANGED low         \* no slot or no frame
     \/ /\ \E f \in Frames : where[f] = "queued"
        /\ qpc' = "low" /\ low' = vhw
  /\ UNCHANGED <<devVars, local, handed, frameVars>>

\* vmac_low_tx reads vmon, and gives the frame to the driver of low.
LowTx ==
  /\ qpc = "low"
  /\ \E f \in Frames :
       where[f] = "queued" /\ where' = [where EXCEPT ![f] = "driver"]
  /\ handed' = [to |-> low, asked |-> local, vif |-> vmon]
  /\ qpc' = "awake"
  /\ UNCHANGED <<devVars, local, low, freed, pidt>>

FreeIt(f) == /\ where' = [where EXCEPT ![f] = "gone"]
             /\ freed' = [freed EXCEPT ![f] = @ + 1]

\* ieee80211_tx_status, called by the driver for a frame it was given
TxStatus(f) ==
  /\ where[f] = "driver" /\ FreeIt(f)
  /\ UNCHANGED <<devVars, queueVars, pidt>>

----------------------------------------------------------------------------
(* Frames from the driver.                                                 *)

Receives == \E d \in Devices : dev[d].runs

\* Mistake: a DACK that was queued is also freed.
RxVmacFreesDack(f) ==
  /\ Receives /\ where[f] = "out"
  /\ \/ where' = [where EXCEPT ![f] = "mgmt"]
        /\ freed' = [freed EXCEPT ![f] = @ + 1]
     \/ FreeIt(f)
  /\ UNCHANGED <<devVars, queueVars, pidt>>

\* ieee80211_rx_vmac: frames of V-MAC's own kinds go to vmac_rx, DACKs to
\* add_mgmt, which loses one when it has no memory; other kinds are freed, and
\* so are frames of others unless they are overheard.
RxVmac(f) ==
  /\ Receives /\ where[f] = "out"
  /\ \/ \E to \in {"core", "mgmt", "lost"} \cup (IF Overhearing THEN {"nl"} ELSE {}) :
          where' = [where EXCEPT ![f] = to] /\ UNCHANGED freed
     \/ FreeIt(f)
  /\ UNCHANGED <<devVars, queueVars, pidt>>

\* vmac_rx passes a frame on to the user or frees it.
Core(f) ==
  /\ where[f] = "core"
  /\ \/ where' = [where EXCEPT ![f] = "nl"] /\ UNCHANGED freed
     \/ FreeIt(f)
  /\ UNCHANGED <<devVars, queueVars, pidt>>

\* rqueuethread has vmac_rx serve the DACK, which is freed.
ServeDack(f) ==
  /\ where[f] = "mgmt" /\ FreeIt(f)
  /\ UNCHANGED <<devVars, queueVars, pidt>>

\* Mistake: without a process the frame is neither sent nor freed.
NlSendKeeps(f) ==
  /\ where[f] = "nl" /\ pidt # Nobody
  /\ FreeIt(f) /\ UNCHANGED <<devVars, queueVars, pidt>>

\* nl_send: the frame is freed whether it was sent, could not be sent or there
\* is no process; without memory for the message it is forgotten.
NlSend(f) ==
  /\ where[f] = "nl"
  /\ \/ FreeIt(f)
     \/ /\ pidt # Nobody
        /\ where' = [where EXCEPT ![f] = "lost"] /\ UNCHANGED freed
  /\ UNCHANGED <<devVars, queueVars, pidt>>

----------------------------------------------------------------------------
(* nl_recv: the process that spoke last gets the frames; a frame of it is  *)
(* copied, if there is memory, and goes through vmac_tx to uqueue.         *)
UserSpeaks(p) ==
  /\ pidt' = p
  /\ \/ UNCHANGED where
     \/ \E f \in Frames :
          where[f] = "out" /\ where' = [where EXCEPT ![f] = "queued"]
  /\ UNCHANGED <<devVars, queueVars, freed>>

Probe(d) == Alloc(d) \/ Publish(d) \/ Check(d) \/ Prepare(d)
              \/ RegisterWiphy(d) \/ Start(d) \/ SetVmon(d) \/ Configure(d)
Reception(f) == Core(f) \/ ServeDack(f) \/ NlSend(f)

Next == \/ \E d \in Devices : Probe(d)
        \/ QueueWakes \/ AskSlot \/ LowTx
        \/ \E f \in Frames : TxStatus(f) \/ RxVmac(f) \/ Reception(f)
        \/ \E p \in Procs : UserSpeaks(p)

\* The receive path runs in the driver's tasklet and in rqueuethread.
Spec == Init /\ [][Next]_vars /\ \A f \in Frames : WF_vars(Reception(f))

----------------------------------------------------------------------------
\* Every variable stays in its domain.
TypeOK ==
  /\ dev \in [Devices -> {Unplugged} \cup
       [at : {"new", "check", "checked", "ready", "started", "vif", "adding", "up",
              "failed"}, kind : DevKinds, wiphy : BOOLEAN, runs : BOOLEAN,
        queues : Nat, scan : 0..LenMod - 1, room : Nat]]
  /\ {vhw, vmon, local, low} \subseteq Devices \cup {NULL}
  /\ qpc \in {"sleep", "awake", "low", "oops"}
  /\ qpc \in {"awake", "low"} => local # NULL
  /\ where \in [Frames -> {"out", "queued", "driver", "core", "mgmt", "nl",
                           "gone", "lost"}]
  /\ freed \in [Frames -> Nat] /\ pidt \in Procs \cup {Nobody}

\* What an error of ieee80211_register_hw leaves behind. It undoes nothing: vhw,
\* which is set before the first check (hooks.c:78, 323), stays the device's, and
\* nothing is said of it here. The other effects come after the last check that
\* returns an error: the wiphy of a device that got one is not registered, its
\* driver was not started, and no interface of the call is in vmon.
ErrorBeforeEffects == \A d \in Devices :
  dev[d].at = "failed" => ~dev[d].wiphy /\ ~dev[d].runs /\ vmon # d

\* What a device that went past the last of these checks was given: the scan
\* request has room for every channel of every band; it never runs on two
\* channels without channel contexts, or with radar detection; and the scan
\* limit of a driver that offers enough is its offer less the elements added.
\* Errors of wiphy_register and of the driver's start are not looked at
\* (hooks.c:280, 540, 608), so that this is all there is: such a device may have
\* no wiphy and no running driver. The queues fit the arrays they index on
\* kernels from 4.10. Before, the clamp is the statement of the if that was to
\* handle the error of wiphy_register (hooks.c:541-549): a device whose wiphy is
\* registered keeps as many queues as its driver has.
ConfigSound == \A d \in Devices :
  dev[d].at \in {"started", "vif", "adding", "up"} =>
    LET k == Kind(d)
    IN /\ \A i \in DOMAIN k.bands : \A c \in 1..k.bands[i].channels :
            Counted(k)[i - 1].channels + c <= dev[d].room
       /\ k.wide => k.chanctx = 5 /\ ~k.radar
       /\ dev[d].queues > MaxQueues => k.old /\ dev[d].wiphy
       /\ Offer(k) >= ScanIesLen(k) => dev[d].scan < Offer(k)

\* What the order of the checks, the preparation and the effects gives: an error
\* comes before the effects, vhw excepted, and whoever gets none was prepared,
\* whether or not its driver runs, the queues of older kernels excepted.
RegistrationSound == ErrorBeforeEffects /\ ConfigSound

\* A frame is freed once, and not while somebody has it (the kfree_skb calls
\* of ieee80211_rx_vmac, vmac_rx and nl_send, and ieee80211_tx_status).
FreedOnce == \A f \in Frames :
  freed[f] = (IF where[f] = "gone" THEN 1 ELSE 0)

\* A frame that was received is freed in the end, unless memory failed it:
\* nobody keeps it, whether or not a process is there to get it.
FramesLeave == \A f \in Frames :
  where[f] \in {"core", "mgmt", "nl"} ~> where[f] \in {"gone", "lost"}

\* A frame goes to the driver that was asked for a slot, with an interface of
\* its own, and the driver is "initialized" (queuethread's msleep(500)).
SentWhenReady == handed.to # NULL =>
  /\ handed.to = handed.asked /\ handed.vif = handed.to
  /\ dev[handed.to].at = "up"
============================================================================
