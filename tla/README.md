# V-MAC: a verification development

V-MAC is a publish/subscribe multicast MAC layer for Linux. A sender multicasts
the data frames of an *encoding* (a name); receivers that asked for the
encoding report the frames they miss in *DACKs*; the sender retransmits copies
out of a buffer. The kernel module lives in `src/vmac`, with a patch for the
ath9k_htc driver in `src/ath9k_htc`. This directory holds TLA+ models of it,
TLC configurations, and TLAPS proofs.

## 1. Inventory

| Part | State | Operations | Runs in |
|---|---|---|---|
| netlink entry, tables (`main.c`) | `rx_enc`, `tx_enc` (32 buckets each), `pidt` | `nl_recv`, `find_rx/tx`, `add_rx/tx`, `vmac_init/exit` | threads of the user process |
| send side (`tx.c`) | `encoding_tx`: `seq`, `retransmission_buffer[500]`, `timer[500]` | `vmac_tx` (interest, data, announcement, injected), `vmac_low_tx` | user threads; `queuethread` |
| receive side (`rx.c`) | `encoding_rx`: `window[700]`, `latest`, `round`, `lastin`, `alpha`, frame times | `ieee80211_rx_vmac`, `vmac_rx`, `nl_send` | driver tasklet; DACKs in `rqueuethread` |
| DACKs (`dack.c`) | `dqueue`, `dackreqnum`; per entry `dac_info`, `dacklok`, `dack_timer` | `request_DACK`, `dackgen`, `prepDACK`, `__sendDACK` | tasklet; `dackgen` thread; timer softirq |
| queues (`queue.c`) | `uqueue`, `mqueue`, `rx_upper` | `enq_uqueue`, `retrx`, `add_DACK`, `add_mgmt`, `queuethread`, `rqueuethread` | all of the above; two threads |
| clean-up (`clean.c`) | the entries | `process`, `__cleanup_rx/tx` | timer softirq |
| rate adaptation (`rate.c`) | `global`: three rate indices and a history for each encoding; `ratelok` | `rate_init`, `copyrate`, `rate_c` | nothing calls it yet (`main.c:145` is commented out) |
| hooks (`hooks.c`) | `vhw`, `vmon`, the registered hardware | `ieee80211_alloc_hw_nm`, `ieee80211_register_hw` (for kernels before and after 4.10), `ieee80211_tx_status` | the driver's probe; its tasklet |
| driver (`ath9k_htc`) | transmit slots | `get_stats` | `queuethread` |
| keys (`key.c`) | keys, their places, defaults and lists; `crypto_tx_tailroom_needed_cnt` | `ieee80211_key_link`, `_key_free`, `_free_keys`, `_free_sta_keys`, `_set_default_key`, `_remove_key`, `_gtk_rekey_add`, the iterators, suspend and resume | holders of `key_mtx`; transmitters and iterators under RCU. Taken over from Linux mac80211; the Makefile does not build it |
| `ieee80211_i.h`, `sta_info.h`, `hw.h`, `ieee80211.h` | declarations copied from Linux mac80211 | | |
| `vmac.mod.c` | generated | | |

How they interact:

- user process → `nl_recv` → `vmac_tx` → `uqueue` → `queuethread` →
  `vmac_low_tx` → driver. For a data frame `vmac_tx` keeps a copy for
  retransmission; for an interest it creates the receive entry.
- the probe of a device → `ieee80211_alloc_hw`, `ieee80211_register_hw`: sets
  `vhw` before it checks anything and `vmon` after the driver's `start`, while
  `queuethread` reads both.
- driver → `ieee80211_rx_vmac`: a data frame goes through `vmac_rx` at once,
  which updates the window, every five frames queues a request for a DACK
  (`request_DACK`), and hands the frame to the user process (`nl_send`); a
  DACK goes to `rx_upper` and through `vmac_rx` in `rqueuethread`, which queues
  copies of the missing frames (`retrx` → `mqueue`).
- `dackgen` → `prepDACK`: reads the window, builds the report, leaves it in
  the entry and starts `dack_timer`; `__sendDACK` takes it and queues it
  (`add_DACK` → `mqueue`).

What is hard here: five kinds of contexts share the entries, mostly without
locks. The window is written by the tasklet while `prepDACK` scans it; the
retransmission buffer is written and freed by user threads while
`rqueuethread` copies out of it; the lists are walked without their locks;
`dac_info` is handed between a thread and a timer with `spin_trylock`, whose
failure has a path of its own on both sides. Frames are lost, repeated and
reordered by the medium. Sequence numbers are u16, pacing timers and
`dac_info.round` u8. Every `kmalloc`/`skb_copy` may fail. `vmalloc`'d entries
are only partly initialised.

What makes each part correct:

- DACKs: a report has one owner at every moment; it is sent or freed once,
  never lost, in order, and never waits without a timer.
- Receive window: it tells what was delivered, so that a frame reaches the
  user once and a report asks for what is missing.
- Send side: what a receiver may ask for is in the buffer and alive; copies
  per DACK are bounded and paced.
- Queues: order within a class, nothing lost or sent twice, DACKs and
  retransmissions before user frames, no frame beyond the driver's slots.
- Tables and clean-up: an encoding has one entry, nobody uses it after it
  is freed but by a race that can be named, and it takes every buffered copy
  with it.
- Hooks and delivery: an error of a registration comes before its effects, and
  a device that gets none was checked and prepared; a frame is freed once, and
  given only to a driver that was started and asked.
- Rates: the indices stay in their tables, apart and in order; a copy of them
  is of one moment.
- Keys: whoever encrypts in software has the tailroom, no pointer outlives its
  key, no key is installed over itself.

## 2. Plan

Modules, in order:

1. `VmacMailbox` (abstract), `VmacDack`: the ownership of reports. *Done,
   proved, the refinement included.*
2. `VmacHoles`, `VmacReceiver`: window and scan. *Done, proved.*
3. `VmacSender`: buffer, retransmission, pacing. *Done, proved.*
4. `VmacAir` (abstract), `VmacQueue`: the queues. *Done, proved, the refinement
   included.*
5. `VmacTable`: the receive entries, from the interest that creates one to the
   timeout that frees it. *Done, proved.*
6. `VmacSendTable`: the send entries, shared by threads that send, DACKs and a
   timeout that frees the buffered copies. *Done, proved.*
7. `VmacHost`: what surrounds the protocol: registration, delivery, netlink,
   `queuethread` before the hardware is there. *Done, proved.*
8. `VmacRate`, `VmacKey`. *Done, proved.*
9. Left: `VmacProtocol`, one sender and several receivers over a lossy medium,
   built from the operators of `VmacHoles` and the sender (does a frame lost
   once reach every receiver in the end; what a sender that starts again at 0
   does to a receiver's window).

Two modules planned earlier are not written. The branch that suppresses a
report heard from another receiver (rx.c:373-387) is unreachable, because
`vmacr = NULL` (rx.c:326) precedes its test: there is no state to model. The
delay of a DACK (dack.c:309-323) decides when a timer fires and nothing else,
and the models let a timer fire at any time.

Abstract specifications: `VmacMailbox` for the life of a report, `VmacAir` for
the queues, `HolesOf` for the scan.

Theorems: every safety invariant and every action property that a passing run
checks is a theorem, and so are the two refinements (section 5). Left: the
invariants of `VmacProtocol` once it is written.

## 3. The modules

All modules name variables and actions after the code; a program counter
(`genpc`, `tpc`, `txpc`, `dpc`, `pc`, `rpc`, `rxpc`) stands for the place of a
context in its function. A step is what happens between two accesses to memory
that another context may change. Definitions named as a *mistake* are variants
of the definition that follows them, a plausible slip of the code each; the
properties are strong enough to tell them from the code. No specification uses
them.

**VmacMailbox, VmacDack.** `VmacMailbox` says what an encoding may rely on: a
report that was asked for may be posted if it is younger than all before it and
replaces the one that waits, which is else collected, and goes out or is lost.
`VmacDack` implements it with one entry for each encoding: `send`, `dack`,
`dacklok`, `armed` (dack_timer). `RequestDACK` is rx.c:307-312 with
`request_DACK`; `Gen*` is the `dackgen` thread inside `prepDACK`; `Timer*` is
`__sendDACK` with `add_DACK`. `mqueued`, `freed`, `lost` collect where frames
went. The initial `dack` is NULL or `Junk`, because tx.c:118-139 never sets it.
Left out: `dacksheard`, `dac_info.round` and `vmac->DACK`, which are only
written. The prefetch of the next request by `list_for_each_safe` changes
nothing, since requests are only appended elsewhere and only removed by this
thread.

**VmacHoles, VmacReceiver.** `VmacHoles` states the scan of dack.c:261-283 as
an operator on a window, including its index `tmp % WINDOW - 1`.
`VmacReceiver` runs `vmac_rx` for data frames (`RxDiscard`, `RxBegin`,
`RxAdvance` for each turn of the loop, `RxAccept`) against the scan, one window
access at a time (`Prep*`). The medium loses, repeats and reorders: frame `n`
may arrive any number of times while it is at most `Lag` behind and at most
`Gap` ahead of the newest. The word in front of the window is the lower half of
what precedes it in `struct encoding_rx`; it is 0 or not. Assumed: one CPU at a
time runs `vmac_rx` for data frames (one receive tasklet). Not modelled: the
value of `alpha`, but its divisor is.

**VmacSender.** `TxNumber` to `TxEnqueue` are `vmac_tx` for a data frame,
`Dack*` is `vmac_rx` for a DACK. A DACK that arrives is any list of holes in
order below the newest frame that left. `src` is the pointer `skb_copy` reads
from between two steps; `skb2` keeps its value from frame to frame as in the
code; the slot test reads one past the buffer, into the first `PtrBytes` pacing
timers (vmac.h:179-180). `freed` is what `kfree_skb` was given. `skb_copy` may
fail in `vmac_tx`, up to `MaxMissing` times, and always in `vmac_rx`; `missing`
are the frames whose copy failed.

**VmacAir, VmacQueue.** `VmacAir` says what the transmit queues promise:
each class of frames leaves in its order, once. `VmacQueue` is `queue.c` with
`vmac_low_tx`: the walks look at slots, send, and unlink in three steps, and
remember whether another entry followed. The driver is a count of free slots
(`get_stats`, htc_drv_main.c). `hw` is `getvhw()`.

**VmacTable.** `bucket` is `rx_enc`; blocks of `vmalloc` are numbered in the
order they are handed out and never reused, so that freed memory is recognised.
`Tx*` is the interest branch of `vmac_tx`, `Rx*` a data frame in `vmac_rx`,
`Gen*` `prepDACK`, `DackFire` `__sendDACK`, `Clean*` `__cleanup_rx` with
`process`; each holds its pointer `ent[x]` between steps. What the window and
the lock do inside an entry is left to `VmacReceiver` and `VmacDack`: here
`send` is `dack = "frame"`, which `SendMeansDack` proves. `find_rx` returns the
oldest entry of the bucket whatever its key, and so does the model. A step that
uses freed memory, a null entry, a timer before its set-up or an unset pointer
sets `fault`, after which nothing is said. The timeout counts from the last
`mod_timer` of the entry. Assumed of time (`Elapsed`): 30 s after it, what that
interest or frame led to is over: the rest of `vmac_rx`, the request it queued
with `prepDACK`, and the DACK timer (at most 100 jiffies). Nothing is assumed of
a context that has found the entry and has not come to its own `mod_timer` yet
(`NotRestarted`: tx.c:109-155, rx.c:263-274): the timeout may overtake it, as it
may meet what comes *while* the handler runs. `raced` has the entries of both.
The hash is the number modulo the number of buckets: all that matters is that
encodings may share one.

**VmacSendTable.** The same for `tx_enc`. `Tx*` is the data branch of
`vmac_tx`, `Dack*` `vmac_rx` for a DACK, `Clean*` `__cleanup_tx` with `process`,
which frees the buffered copies one by one and reads `seq` again for each. A
DACK copies any frame below the `seq` it read: which ones and how many is
`VmacSender`. A slot of a new entry is NULL or was never written. `seq[e]` counts
the frames of an entry; what the code keeps of it is `Value(seq[e])`, the u16
(vmac.h:181), and a frame's slot is `Place` of its number. All tests of the code
are made with these, so that after a wrap slots are taken for empty again and
the clean-up sweeps only what is below the new `seq`. History:
`met` (entries in somebody's hand when their clean-up began, or found during
it), `crossed` (entries that shared a bucket, that the handler of another entry
found, or two threads of which were at the same slot), `failed` (entries a copy
failed for); an entry outside the first two is `~Raced`. Assumed of time: 30 s
after a `mod_timer` the call of `vmac_tx` that made it is over (`CleanFire`). A
thread between `find_tx` and `mod_timer` (tx.c:163-191) may be overtaken, and a
DACK may come at any moment.

**VmacHost.** `dev[d]` is where the registration of a device stands:
`Alloc` is `ieee80211_alloc_hw_nm`, `Publish` to `Configure` are
`ieee80211_register_hw` in the order of its effects: `vhw`, the checks, the
preparation, `wiphy_register`, `start`, `vmon`, the first calls of the driver.
The results of the last two calls with one are not looked at, so that a device
that is `up` may have no wiphy and no running driver (`wiphy`, `runs`).
A device's kind says what the checks ask about: operations, channel contexts,
interface limits and widths, demands that are not met, queues, bands, scan
lengths, and whether the kernel is `old` (before 4.10, which has another copy
of both functions). `QueueWakes`, `AskSlot` and `LowTx` are `queuethread` and
`vmac_low_tx` with the three pointers they read at three times; `RxVmac` to
`NlSend` are the ways of a received frame, `UserSpeaks` is `nl_recv`. Which
frames wait in which list is `VmacQueue`.

**VmacRate.** `RateLower` and `RateRaise` are the two halves of `rate_c`, each
three dependent updates, as a fold over the indices; `Copy*` is `copyrate`, one
read at a time. Since nothing calls them, the callers are assumed: one thread
for each encoding, whose rounds grow. What happens when a `u8` round wraps is
in section 6.

**VmacKey.** The operation that holds `key_mtx` is the record `hand`: its name
(`op`), the place it is at (`at`), where an increment or a grace period returns
to (`then`), the key it takes off and the one it puts on (`old`, `new`), and for
the loops the interface they are at, those ahead and the keys ahead (`on`,
`ifs`, `batch`). `Link`, `RemoveKey`, `FreeKeys`, `FreeStaKeys` and `Resume` start
the five operations. What they share is one action each, as in the code:
`Increment` is `increment_tailroom_need_count`; `AddToList`, `Point` and
`DelFromList` are `ieee80211_key_replace`; `Disable` to `FreeKey` are
`ieee80211_key_destroy` and what it calls; `Accelerate` and `NotAccelerated` are
`ieee80211_key_enable_hw_accel`. `synchronize_net` is two steps: it notes the
readers that are in (`grace`) and goes on when they are out. A reader is a
transmitter, which looks at the tailroom count once and chooses a key later, or
an iterator (`ieee80211_iter_keys_rcu`), which stands on a key of the list.
`key[k].up` and `keeps` are `UPLOADED_TO_HARDWARE` and whether the hardware left
the MIC or the tailroom to the host. The removal of a station (`StaLeaves`) and
suspend are mac80211 as far as `key.c` relies on them. `stale` notes that a
resume could not upload a key whose flag stayed set.

## 4. The runs

`key`, `host`, `host_ready` and `rate` check for deadlock. The other runs set
CHECK_DEADLOCK FALSE: their models bound the frames that come, and once these
have come the system rests.

| Run | Bounds | Shows |
|---|---|---|
| `dack` | 2 encodings, 2 rounds, allocations may fail | `VmacDack` implements `VmacMailbox`; ownership, order, deadline and liveness of reports |
| `receiver` | 11 frames, window 6, 2 holes to a report | window, delivery, requests, reports |
| `sender` | 5 frames, buffer 3, DACKs of up to 2 holes in 2 rounds, 1 copy for each, 1 failed copy, 1 caller | buffer, freeing, retransmission, pacing |
| `queue` | 3+3 frames out, 2 DACKs in, 2 slots, allocations may fail | `VmacQueue` implements `VmacAir`; priority; slots; queues drain |
| `table` | 2 encodings of one bucket, 3 blocks, 4 interests or frames, 1 caller | entries are created once, kept in the table until their timeout, freed once, and in the end; every misuse of memory is one of the named races |
| `sendtable` | 1 encoding, 2 callers, 2 blocks, 5 frames, buffer 2, sequence numbers modulo 3 | every misuse of an entry or a copy is one of the named races; without one an entry takes all its copies since the last wrap with it |
| `rate` | 1 encoding, 1 sender, tables of 4 and 1, 7 rounds | indices in their tables and in order; copies of one moment |
| `key` | 2 keys; an AP with a VLAN and a station, or a client; 1 reader | tailroom, pointers, lifetime, no re-installation |
| `host` | 1 device of any of 72 kinds, 2 frames, 1 process | an error of a registration comes before all effects but `vhw`; who gets none was checked and prepared; frames freed once, in the end |
| `receiver_wrap` | window 3, sequence numbers modulo 8 | section 6 |
| `table_alias` | as `table` | section 6 |
| `host_ready` | 2 devices, 1 frame | section 6 |

Why the bounds are enough: `dack` needs a second round for a replacement, and a
second encoding for `dackgen` to serve one entry while the timer of the other
runs; the proofs remove the bound. In `receiver` the stream goes almost twice
around the window and a third hole exists beyond the two that fit a report
(with a window of five this never happens for a scan that ends with true
holes). In `sender` the stream goes around the buffer and back into it, one
DACK asks for more than `MaxRetx` copies, and rounds are `Pace` apart. In
`queue` a walk is broken off in each list, and frames come behind the last entry
of a walk. In `table` an entry can time out, be met by a frame in the middle of
that, overtake one that has found it, and be created again; all five kinds of
`fault` are reached. In `sendtable` so are all five of its own, with two threads
numbering frames of one entry; the third frame takes the slot of the first, the
fourth has the number 0 again and takes that slot for empty, and a clean-up may
come after any of them. `rate` has room for every test of neighbours
to succeed and fail, for the jump between the two tables in both directions,
and for two raises of an index
(rounds 3 and 6). In `key` a second key exists for every place,
so that every replacement happens; one reader is enough because readers do not
see each other, and `MaxPending` 1 because a pending decrement adds to the count
alone. In `host` the checks depend on one device alone, and two frames are
enough for one to pass another; two devices are needed only for whose interface
a frame is sent with. WINDOW, WINDOW_TX, ROUND, HOLES_MAX, MaxRetx and Pace are
700, 500, 5, 40, 20 and 6 in the code and constants here; Top and Wide are 11
and 35.

Fairness. `VmacDack`: weak fairness of `dackgen` and of each timer with its
handler; the kernel schedules a runnable thread and fires an armed timer.
`VmacQueue`: weak fairness of both threads (they only sleep for microseconds)
and of the driver giving slots back. `VmacTable`:
weak fairness of each thread, of the tasklet and of each pending timer.
`VmacHost`: weak fairness of the receive path, which runs in the driver's
tasklet and in `rqueuethread`. Nothing is assumed of arrivals, of probes, or of
what a driver does with a frame.
`QueuesDrain` is about a stream that ends: as long as DACKs are queued as fast
as they are sent, the walk of `mqueue` goes on and user frames wait.

Some properties carry an exception, which is a defect of the code stated
exactly. `WindowSound` leaves out frame 0, whose slot is never initialised;
`ReportSound` a zero word in front of the window; `BufferSound` and
`ResendSound` frames whose copy failed, and frame WINDOW_TX; `sender` assumes
one caller. `EntriesKept` is about one caller. In `table` and `sendtable` the
exceptions are a property themselves: `MisuseExplained` says which race each
misuse of memory needs, and that there is no other. `RemovedForGood` leaves out
the copies of before a wrap of `seq`, which tx.c:200 and clean.c:96 leak, and
`RegistrationSound` `vhw` after an error and the queues of a registered device
of a kernel before 4.10; it claims nothing of whether a device's `wiphy_register`
or `start` succeeded. `EachOnce` allows the leak of a frame whose queue entry
cannot be allocated. `TailroomSound` lets the
count be too large after a resume that could not upload a key, and a frame be
sized too small while `ieee80211_remove_key` is between clearing a flag and
counting. `HeldKeysLive` lets an iterator stand on a key that is freed when the
station of the key is being removed. `RatesSound` lets the two faster indices
meet at the end of their table. Section 6 says what happens otherwise.

## 5. The proofs

The proofs of a module `M` are in `MProofs`, which extends `M`; those of the two
modules about code that nothing calls yet, `VmacRate` and `VmacKey`, are together
in `VmacSpareProofs`. Each holds for
every value of the constants that the named assumptions of `M` allow: any
number of encodings, frames, rounds, entries, slots, devices, threads. The
assumptions say that bounds are natural numbers (sizes positive), that pointers
differ from NULL and from what was never written, and for `VmacRate` and
`VmacHost` what the tables and the kinds of devices look like. `KeyAssumption`
says besides that a host has one AP with its VLANs (`update_vlan_tailroom_need_count`
counts the keys of an AP in each of its VLANs, and which AP a VLAN belongs to is
not part of the model's state), and that only a TKIP key has MIC keys.

Some theorems have a hypothesis besides, stated in the theorem:

- `OneCaller`, in `VmacTableProofs` and `VmacSenderProofs`: one thread at a time
  is in `vmac_tx`, because one process sends and netlink runs `nl_recv` of a
  socket once at a time. Two threads break these properties (section 6);
  `VmacSendTableProofs` has any number of them.
- `NoWrap`, for `PacedApart`: the last round plus `Pace` fits the u8 timer. In
  `VmacReceiverProofs`: fewer frames than sequence numbers.
- `LagFits`, in `VmacReceiverProofs`: the medium does not deliver a frame more
  than a window late. `ReceiverTypeCorrect` and `ReportExactHolds` need neither.

| Module | Theorem | Property |
|---|---|---|
| `VmacDack` | `TypeCorrect` | `TypeOK` |
| | `SendMeansDackHolds` | `SendMeansDack` |
| | `PendingHasDeadlineHolds` | `PendingHasDeadline` |
| | `LockDisciplineHolds` | `LockDiscipline` (proved only, no run checks it) |
| | `OnlyFramesLeaveHolds` | `OnlyFramesLeave` |
| | `OneHolderHolds` | `OneHolder` |
| | `NoFrameForgottenHolds` | `NoFrameForgotten` |
| | `QueuedInOrderHolds` | `QueuedInOrder` (proved only; `MailboxSpec` implies it) |
| | `MailboxRefined` | `MailboxSpec`: the specification implements `VmacMailbox` |
| `VmacReceiver` | `ReceiverTypeCorrect` | `TypeOK` |
| | `WindowSoundHolds` | `WindowSound` |
| | `RoundsSoundHolds` | `RoundsSound` |
| | `ReportCoversHolds` | `ReportCovers`, the half of `ReportSound` about reports that race with arrivals |
| | `ReportExactHolds` | `ReportExact`, the half about reports that do not; needs neither hypothesis |
| | `ReportSoundHolds` | `ReportSound` |
| `VmacSender` | `SenderTypeCorrect` | `TypeOK` |
| | `BufferSoundHolds` | `BufferSound` |
| | `ResendSoundHolds` | `ResendSound` |
| | `NoCopyForgottenHolds` | `NoCopyForgotten` |
| | `PacedApartHolds` | `PacedApart` |
| `VmacQueue` | `QueueTypeCorrect` | `TypeOK` |
| | `MgmtFirstHolds` | `MgmtFirstUnlessFull` |
| | `EachOnceHolds` | `EachOnce` |
| | `AirRefined` | `AirSpec`: the specification implements `VmacAir` |
| `VmacTable` | `TableTypeCorrect` | `TypeOK` |
| | `EntriesKeptHolds` | `EntriesKept` |
| | `TableMisuseHolds` | `MisuseExplained` |
| `VmacSendTable` | `SendTableTypeCorrect` | `TypeOK` |
| | `SendMisuseHolds` | `MisuseExplained` |
| | `RemovedForGoodHolds` | `RemovedForGood` |
| `VmacHost` | `HostTypeCorrect` | `TypeOK` |
| | `RegistrationSoundHolds` | `RegistrationSound` |
| | `FreedOnceHolds` | `FreedOnce` |
| `VmacRate` | `RateTypeCorrect` | `RateTypeOK` |
| | `RatesSoundHolds` | `RatesSound` |
| `VmacKey` | `KeyTypeCorrect` | `TypeOK` |
| | `TailroomHolds` | `TailroomSound` |
| | `PointersHold` | `PointersAgree` |
| | `HoldersSafe` | `HeldKeysLive` |
| | `NeverReinstalled` | `NotReinstalled` |

The arguments, by module:

**VmacDack** has two invariants. `Control` says where each local pointer is
set: `skb` only between building and installing, `ptr` only after a
replacement, the handler's pointer only between taking and queueing; with the
lock this makes `send` and `dack` agree. None of its parts is inductive alone:
that the handler takes a frame needs `SendMeansDack`, which needs that
`prepDACK` holds the lock, which needs `LockDiscipline`, which needs that the
request being served stays at the head of the list. `Ownership` orders the
frames of an encoding along their way out (management queue and handler,
replaced frame, entry, frame under construction, requests waiting): rounds
grow along it, so two holders never have the same frame and the queue gets
rounds in order. `OneHolder` does not say enough by itself because a frame's
name could come back from a waiting request. `MailboxRefined` maps the box to
`dac_info.dack`, the hand to `__sendDACK`'s pointer and what went out to the
management queue. `GenReplace` and `GenInstall` post, `TimerTake` collects and
`TimerAdd` puts out or loses; each other step leaves all three. That what is
posted is the youngest (`PostedIsYoungest`) is the order of `Ownership`.

**VmacReceiver.** `WindowSound` speaks between frames; the invariant also says
what holds in the middle of `vmac_rx`. `SlotsTell` reads every recent slot as
the delivery of its frame, `LatestSound` places the frame in hand between the
window and the newest, `RequestSound` keeps the newest frame within a round of
the last request. A slot is shared by frames a window apart, so the proof rests
on lemmas about remainders: two different frames of one window have different
slots. For a report, `HolesUnheard` says that the holes and the one being built
cover frames that had not been delivered when the scan began, and `Passed` that
a missing frame the scan went by is covered. The window moves during the scan:
a frame that was passed may leave it or be delivered, which only weakens what
is to be shown.

That an undisturbed scan computes `HolesOf` is an invariant over what it still
has to do: the holes found so far, followed by the hole being built and those
ahead of it, are all the holes of the window (`Found`). The edges and the holes
ahead are recursive functions of the position; lemmas on sets of naturals
(`WalkDown`, `WalkUp`, `ScanUnfolds`) show that the functions exist and what
they return, so that one step of the loop is one step of the recursion.
`Counted` adds why `loss` is right although prepDACK adds to it on the walk
back: unless it reads the word in front of the window, the frame before a hole
came, and it never walks back.

**VmacSender.** The buffer follows the numbering with a delay, the frame whose
copy is being stored: `Kept` is where it stands. `SlotsSound` says a slot has
the newest frame of its own that did not fail, `FreesSound` that what left its
slot is a window old, `WalkSound` and `CopiesSound` that every copy the walk of a
DACK made is of a slot written before. `PacedApart` needs that a pacing timer is
set from the round of the last copy, unless its slot has a new frame
(`PaceSound`).

**VmacQueue.** `TxInv` says what is in the lists at each place of the walk, and
that the lists with what has been sent are the frames that came, in order. A
walk that has passed an entry but not unlinked it is where the refinement
mapping of `VmacAir` looks at the tail of the list; `AirRefined` then takes one
step of `VmacQueue` after the other and shows a step of `VmacAir` or a stutter.

**VmacTable.** `EntrySound` ties an entry's bucket, its clean-up and its maker
together, `LateFinders` says that nobody but who had it in hand when the timer
fired, or came during the clean-up, still knows an entry being removed, and `RequestsServed` that a waiting request has
its entry, or had one that such a late finder used. `MisuseExplained` is
inductive only with all of these: each access to memory needs to know why its
entry is still there.

**VmacSendTable** is the hardest, because any number of threads may number
frames of one entry and create entries for one bucket. Frames of
an entry are numbered once, and each is stored or about to be, whatever the
threads do (`SeqSound`). The frames of one slot are `WINDOW_TX` apart within a
round of the u16, and the first `WINDOW_TX` frames of a round take their slots
as empty; so the invariant is about the copies since `seq` was last 0 (`Start`,
`Current`), and a wrap begins anew, for any `SEQ_MOD` that is not below
`WINDOW_TX`. Most of the rest is about an entry that nobody raced
for (`~Raced`, or outside `crossed`): its bucket has it alone and its own
handler finds it (`EntrySound`), threads that are about to store frames of one
slot do so in turn (`InTurn`), the slot then has the newest copy stored in it
(`SlotsSound`), a freed copy left the window or was swept by the clean-up
(`FreedSound`, `CleanSound`), and each copy is in its slot, freed, or in the
hand of one thread (`Reachable`). A race marks the entries it touches before it
can do harm; that this marking is complete is what is proved.

**VmacHost.** For each device, what it has follows from where its registration
stands (`Sound`); `MonitorSet` ties `vmon` to a device whose interface was made.
The room for channels is a recursive function over the bands, for which
induction over sets of naturals (the library's facts on well-founded sets) gives
that the sum never falls.

**VmacRate.** Each of the three dependent updates of `rate_c` keeps the indices
in order or meeting at `Top` (`LowerOrdered` and its twin), and the lock keeps
the reads of `copyrate` together (`LockHeld`, `ReadsThree`).

**VmacKey.** Each property is exact when nobody holds `key_mtx` and not in
between, so the invariant says what is exact at each place of each operation:

- `Course` says at which places an operation may be and `Works`, `Flags`, `Swap`
  and `Emptied` with which keys: the old and the new key of a place belong to one
  place and differ in material, the keys of a loop are linked and nobody else's.
  `Swap` keeps the result of the comparison (key.c:671) until the place changes,
  which is `NeverReinstalled`.
- `Placed` and `Listed` are the keys that are in their place and in their list:
  all but the one that is being put on and those that are being taken off.
  `PointersAgree` is these two when the hand is idle.
- `Own` is the part of an interface's count that is not its AP's; it equals the
  keys it has counted (`InCount`) and the decrements pending, or more once a
  resume failed (`Balanced`). A count that lags or leads in the middle of an operation is in
  `Missing` and `Extra`. That the sum is right needs lemmas on the cardinality of a
  set that gains or loses one key (`TallyMoves`).
- `Doomed` are the keys that nobody finds any more and that a grace period comes
  before the freeing of, `Awaited` the readers it still waits for. `HoldersOut`: who
  holds a doomed key is awaited. For the keys of a station in removal, which have
  no grace period of their own, `ReadersRight` says that only who was in when the
  station left can hold one, but for iterators that skip it.
- `RoomCounted` and `RoomPlaced` say why `Increment` has to wait for readers only
  when the count was 0: who looked at a positive count has room for whatever comes,
  and who looked at 0 is awaited before the first key that needs room is in reach.

Only model-checked:

- `PendingGoesOut`, `QueuesDrain`, `EntriesExpire`, `FramesLeave`: liveness, which
  is beyond the prover.
- What the runs of section 6 find.

## 6. What the code does not do

Each of these runs finds a behaviour that contradicts a comment of the source.

- `receiver_wrap`: after 65536 frames no DACK is asked for any more
  (rx.c:277, 307: u16 compared as plain integers).
- `table_alias`: an encoding whose bucket is taken gets no entry of its own;
  its frames are counted in the window of the other (main.c:120-128; tx.c:39
  "look up tx table for the same encoding").
- `host_ready`: a frame is given to a driver that was not started, or with no
  interface, or to another device than the one asked for a slot: `queuethread`
  waits for time only (queue.c:233-245, tx.c:270-284, hooks.c:78).

Seen with the same models, without a run of its own. Send side and receive side:

- A buffered frame may be freed while a DACK copies it (rx.c:358, tx.c:217; the
  comment at rx.c:185 speaks of a lock that is not there). `BufferSound` and
  `MisuseExplained` say when: its frame has left the window.
- A report may ask for frames that arrived, because the walk to the left reads
  `window[-1]` at multiples of WINDOW (dack.c:266).
- Rounds above 249 do not fit the u8 pacing timer (rx.c:361; `TimerMod` in
  `VmacSender`).
- An interest that nobody answers ends in `kfree_skb` of a pointer that was
  never set (clean.c:79, tx.c:118-139); `vmalloc`'s result is not tested
  (tx.c:118, 166).
- The first frame of a stream may be freed as a repetition, because `window[0]`
  is never initialised (rx.c:285, tx.c:118-139).
- Frame 500 may queue the former copy again (rx.c:356 tests with `>` and reads
  past the buffer; `skb2` keeps its value).
- A frame that arrives while the timeout is being handled finds the entry,
  starts its timer again, and the entry is freed under both (rx.c:274,
  clean.c:81); the request it makes finds no entry, which `prepDACK` does not
  test (dack.c:250).
- The timeout counts from the last `mod_timer`, not from the lookup: an interest
  or a frame that has found the entry and is overtaken by the timer before its
  own `mod_timer` uses an entry that is freed (tx.c:109-155, rx.c:263-274); so
  does a data frame of the user, which may also store a copy in it (tx.c:163-213).
- An entry is in the table before its timers are set up (tx.c:140-147, where
  tx.c:44-45 has "setup encoding timeout", then "insert entry into LET").
- Two user threads may create two entries for one bucket, in either table; the
  timeout of the hidden one removes the one in use.
- `prepDACK` throws its report away when the handler holds the lock
  (dack.c:325-329): a round may stay unanswered until the next one.
- A DACK does not start the timeout of a send entry again: it may hold the entry
  and a copy when the clean-up frees both (clean.c:96-102).
- When `skb_copy` fails in `vmac_tx`, the slot keeps the pointer that is freed
  next (tx.c:210-218): it is freed again when the slot comes around or the entry
  is removed, or resent; a slot still NULL lets the former `skb2` through.
- With two threads of the user process in `vmac_tx` (`Callers = {c1, c2}` in
  `VmacSender`) frame n+1 may leave before the copy of n is stored; a DACK then
  copies from a slot that was never written; and one thread may store frame
  n + WINDOW_TX before the other stored n.
- A DACK that tested the timer of a slot before `vmac_tx` reset it may pace the
  new frame of the slot (rx.c:352-361, tx.c:196).
- A user frame may overtake waiting DACKs when a slot is given back between the
  two walks (queue.c:246-288); `MgmtFirstUnlessFull` is what remains.
- A u16 wrap of `seq` at the sender leaves up to 500 copies without a pointer
  (tx.c:200: numbers below WINDOW_TX are taken for a fresh buffer).
- `mlock` is a plain `spin_lock` that `queuethread` takes with interrupts on and
  `add_DACK` takes in a timer handler (queue.c:143, 259): on one CPU the handler
  waits for the thread it interrupted.

Hooks and start-up:

- A user frame sent before a driver registers makes `queuethread` read through a
  null pointer (queue.c:248; `EarlyFrames = TRUE` with `HardwareThere` in
  `VmacQueue`, "oops" in `VmacHost`).
- `vhw` stays that of a device whose registration failed (hooks.c:78, 323), and
  `vmon` points to a structure on the stack of a call that has returned
  (hooks.c:630). There is nothing to undo a registration:
  `ieee80211_unregister_hw` and `ieee80211_free_hw` are empty.
- The results of `wiphy_register` and `start` are not looked at. Before 4.10 the
  clamp of the queues is the statement of the `if` that was to handle the failure
  (hooks.c:541-549), and `result` is tested before it is set (hooks.c:524).
- `vmac_init` returns -1 after it started its threads when the netlink socket fails,
  and `vmac_exit` leaves them running (main.c:149-170).

Rates:

- The two faster indices may meet at the end of their table: the jump from 35
  to 11 comes after the neighbour test (rate.c:76-90).
- `round_dec` and `round_inc` are u8 and compared with `<`: after a change in
  round 255, or from 253 on for a raise, an encoding never moves that index in
  that direction again.
- A `copyrate` whose trylock fails leaves its caller with what the caller had,
  which is not initialised.

Keys:

- `ieee80211_remove_key` clears `UPLOADED_TO_HARDWARE` before it counts the key
  (key.c:1103-1107): a frame may be sized without the room it needs.
- `ieee80211_free_sta_keys` has no grace period of its own (key.c:913-940): an
  iterator that has come in since the station was removed may step on from a
  key that is freed.
- A resume that cannot upload a key leaves its flag set; the count is too large
  from then on, and `ieee80211_free_keys` warns (key.c:899).
- `ieee80211_gtk_rekey_add` returns the configuration of a key that
  `ieee80211_key_link` has freed, when it was identical (key.c:1135-1144).
- `ieee80211_free_keys_iface` uses the list entry of a key again while iterators
  may be on it (key.c:858).

## 7. Not modelled

The value of `alpha` and the delay of a DACK; suppression of DACKs heard, which
is unreachable (section 2); `vmac_exit` and a failing `vmac_init`; interrupts of
a lock's owner; announcement and injected frames beyond their way through
`uqueue`; `ieee80211_get_key_rx_seq`, `ieee80211_set_key_rx_seq`,
`ieee80211_gtk_rekey_notify` and debugfs in `key.c`; the stubs of `hooks.c` and
the fields it fills in that no check reads; netlink message layout, 802.11
headers and the rates in them; the driver beyond its slots; headers copied from
Linux and generated code.

Where a model differs from the code in what no property depends on:

- `Start` in `VmacHost` takes the two `kzalloc` of hooks.c:595-599 to succeed;
  their results are used untested.
- `Identical` in `VmacKey` compares the ciphers of two keys, where key.c:620
  compares the lengths of their material: cryptographic suites of one length are
  told apart.
- `Init` of `VmacSender` has the pacing timers at 0, where tx.c:166-188 leaves
  them as `vmalloc` gave them; tx.c:196 resets the timer of a slot before its
  frame can be asked for.
- In both tables a context past its `mod_timer` is taken to finish within 30 s.
