------------------------------- MODULE VmacKey -------------------------------
(***************************************************************************)
(* The keys of the interfaces (key.c, taken over from mac80211; the        *)
(* Makefile does not build it).  Every operation runs under key_mtx and    *)
(* waits, in synchronize_net, for the readers that hold key pointers       *)
(* without it: the transmit path and the drivers' iterators.               *)
(*                                                                         *)
(* The operation that holds key_mtx is hand: which one, where it stands,   *)
(* and the keys it works on.  All take a key off in the same steps, point  *)
(* to free; these ask which operation it is only to know what comes next.  *)
(* A reader runs between any two steps.                                    *)
(***************************************************************************)
EXTENDS Integers, FiniteSets

CONSTANTS
  MaxKeys,          \* bound: keys allocated at a time
  Setups,           \* sets of interfaces (ieee80211_sub_if_data) a host has
  Type,             \* Type[s]: "AP", "AP_VLAN" (of that AP) or "STATION"
  Stas,             \* stations
  Home,             \* Home[a]: the interface of station a
  Kinds,            \* Kinds[s]: the keys installed on s or its stations,
                    \* as [idx, pairwise, cipher, tk, mic]
  DefaultIdx,       \* 0..NUM_DEFAULT_KEYS-1
  MgmtIdx,          \* the indices of management keys
  SwControl,        \* the hardware has SW_CRYPTO_CONTROL
  MaxPending,       \* bound: decrements pending on an interface
  Readers,          \* threads that transmit or call ieee80211_iter_keys_rcu
  NoKey, NoSta      \* NULL

Ifaces == UNION Setups
AnyKind == UNION {Kinds[s] : s \in Ifaces}

ASSUME KeyAssumption ==
  /\ {MaxKeys, MaxPending} \subseteq Nat \ {0}
  /\ Type \in [Ifaces -> {"AP", "AP_VLAN", "STATION"}]
  /\ \A s, t \in Ifaces : Type[s] = "AP" /\ Type[t] = "AP" => s = t
  /\ Home \in [Stas -> Ifaces] /\ SwControl \in BOOLEAN
  /\ \A c \in AnyKind : c.idx \in DefaultIdx \cup MgmtIdx
  /\ \A c \in AnyKind : c.cipher # "TKIP" => c.mic = 0   \* TKIP's only
  /\ DefaultIdx \cap MgmtIdx = {}
  /\ NoKey \notin 1..MaxKeys /\ NoSta \notin Stas

VARIABLES
  ifaces,   \* local->interfaces
  key,      \* key[k]: struct ieee80211_key, Blank when not allocated
  slot,     \* sdata->keys, sta->ptk and sta->gtk: the key of a place
  def,      \* def[s]: default_unicast_key, _multicast_key and _mgmt_key
  list,     \* list[s]: sdata->key_list
  needed,   \* crypto_tx_tailroom_needed_cnt
  pending,  \* crypto_tx_tailroom_pending_dec
  armed,    \* armed[s]: dec_tailroom_needed_wk is scheduled
  hand,     \* the operation that holds key_mtx, or Idle
  grace,    \* readers synchronize_net still waits for
  leaving,  \* leaving[a]: readers the removal of station a waits for
  removed,  \* stations with sta->removed
  sleep,    \* "awake", "wowlan" or "off"
  reader,   \* readers of key pointers
  stale     \* history: a key kept UPLOADED though resume could not upload it

vars == <<ifaces, key, slot, def, list, needed, pending, armed, hand, grace, leaving,
          removed, sleep, reader, stale>>
cnts == <<needed, pending, armed>>
ptrs == <<slot, def, list>>
rest == <<ifaces, leaving, removed, sleep, reader, stale>>

Key == 1..MaxKeys
Blank == [life |-> "none"]
KeyRecord == [life : {"linked"}, kind : AnyKind, sdata : Ifaces, sta : Stas \cup {NoSta},
              up : BOOLEAN, keeps : BOOLEAN, tainted : BOOLEAN, dropped : BOOLEAN]
Linked == {k \in Key : key[k] # Blank}
Defaults == {"uni", "multi", "mgmt"}

\* Where a key is stored: sta->ptk, sta->gtk or sdata->keys, at its index.
PlaceOf(s, a, kind) == [sdata |-> s, sta |-> a, idx |-> kind.idx,
                        pairwise |-> a # NoSta /\ kind.pairwise]
Place == {PlaceOf(IF a = NoSta THEN s ELSE Home[a], a, kind) :
            s \in Ifaces, a \in Stas \cup {NoSta}, kind \in AnyKind}
At(k) == PlaceOf(key[k].sdata, key[k].sta, key[k].kind)

Vlans(s) == IF Type[s] = "AP" THEN {v \in Ifaces : Type[v] = "AP_VLAN"} ELSE {}
Aps(s) == {a \in Ifaces : s \in Vlans(a)}

Active == {r \in Readers : reader[r].at # "out"}
Out == [at |-> "out"]

\* An operation: its name; its place, and the place after an increment or a
\* grace period; the key it takes off and the one it puts on; the interface
\* it empties and those it will empty; the keys it has yet to come to.
Idle == [op |-> "none", at |-> "idle", then |-> "idle", old |-> NoKey,
         new |-> NoKey, on |-> NoKey, ifs |-> {}, batch |-> {}]
Free == hand.at = "idle"

(***************************************************************************)
(* Starting an operation: key_mtx is free and is taken.                    *)
(***************************************************************************)

\* ieee80211_key_alloc: software encryption until the hardware takes it.
Alloc(s, a, kind) ==
  [life |-> "linked", kind |-> kind, sdata |-> s, sta |-> a, up |-> FALSE,
   keeps |-> FALSE, tainted |-> FALSE, dropped |-> FALSE]

\* Mistake: the whole TKIP key is compared, the unused TX MIC key included.
IdenticalWithMic(s, old, new) == old # NoKey /\ key[old].kind = new

\* ieee80211_key_identical: same length (cipher) and bytes; a station does
\* not compare the TX MIC key of a TKIP group key, which it never uses.
Identical(s, old, new) ==
  /\ old # NoKey
  /\ LET was == key[old].kind
     IN /\ was.cipher = new.cipher /\ was.tk = new.tk
        /\ \/ was.mic = new.mic
           \/ Type[s] = "STATION" /\ new.cipher = "TKIP" /\ ~new.pairwise

\* ieee80211_key_alloc and ieee80211_key_link, called with one key.  One that
\* is identical to the installed one is freed unused, which changes nothing.
Link(s, a, kind) ==
  LET old == slot[PlaceOf(s, a, kind)]
  IN /\ Free /\ pending[s] < MaxPending
     /\ ~Identical(s, old, kind)
     /\ \E k \in Key :
          /\ key[k] = Blank /\ \A i \in 1..k - 1 : key[i] # Blank
          /\ key' = [key EXCEPT ![k] = Alloc(s, a, kind)]
          /\ hand' = [Idle EXCEPT !.op = "link", !.at = "inc", !.then = "add",
                                  !.old = old, !.new = k]
     /\ UNCHANGED <<cnts, ptrs, grace, rest>>

\* A key set by the user for an interface or for a station of it.
Install == \E s \in ifaces : \E kind \in Kinds[s], a \in Stas \cup {NoSta} :
  /\ sleep = "awake" /\ a \notin removed
  /\ kind.pairwise <=> a # NoSta
  /\ a # NoSta => s = Home[a]
  /\ Link(s, a, kind)

\* ieee80211_gtk_rekey_add: a group key the device got while the host slept.
RekeyAdd == \E s \in ifaces : \E kind \in Kinds[s] :
  /\ sleep = "wowlan" /\ Type[s] = "STATION" /\ ~kind.pairwise
  /\ Link(s, NoSta, kind)

\* The group key of s at index i; an index out of range has none.
DefaultKey(s, i, which) ==
  LET here == {p \in Place : p.sdata = s /\ p.sta = NoSta /\ p.idx = i}
  IN IF i \in (IF which = {"mgmt"} THEN MgmtIdx ELSE DefaultIdx) /\ here # {}
     THEN slot[CHOOSE p \in here : TRUE] ELSE NoKey

\* __ieee80211_set_default_key and __ieee80211_set_default_mgmt_key
Appoint(s, which, new) ==
  def' = [def EXCEPT ![s] = [w \in Defaults |-> IF w \in which THEN new ELSE @[w]]]

\* ieee80211_set_default_key and ieee80211_set_default_mgmt_key: an index
\* out of range clears the pointer.
SetDefault == \E s \in ifaces, i \in DefaultIdx \cup MgmtIdx \cup {-1},
                 which \in {{"uni"}, {"multi"}, {"uni", "multi"}, {"mgmt"}} :
  /\ Free /\ sleep = "awake"
  /\ Appoint(s, which, DefaultKey(s, i, which))
  /\ UNCHANGED <<key, slot, list, cnts, hand, grace, rest>>

\* ieee80211_remove_key clears the flag first and counts the key then.
RemoveKey(k) ==
  /\ Free
  /\ key' = [key EXCEPT ![k].up = FALSE, ![k].dropped = @ \/ key[k].up]
  /\ hand' = [Idle EXCEPT !.op = "remove", !.then = "point", !.old = k,
                 !.at = IF key[k].up /\ ~key[k].keeps THEN "inc" ELSE "point"]
  /\ UNCHANGED <<cnts, ptrs, grace, rest>>

\* ieee80211_iter_keys, with a callback that gives one key back
IterRemove == \E s \in Ifaces : \E k \in list[s] : RemoveKey(k)

\* ieee80211_free_keys: all keys of an interface, and of the VLANs of an AP.
FreeKeys == \E s \in ifaces :
  /\ Free /\ sleep = "awake"
  /\ armed' = [armed EXCEPT ![s] = FALSE]
  /\ hand' = [Idle EXCEPT !.op = "freekeys", !.at = "flush", !.on = s,
                          !.ifs = Vlans(s)]
  /\ UNCHANGED <<key, ptrs, needed, pending, grace, rest>>

\* ieee80211_free_sta_keys: the caller has waited for the readers that were
\* in when the station was taken off; keys are freed as they are found.
FreeStaKeys == \E a \in removed :
  LET keys == {slot[p] : p \in {q \in Place : q.sta = a}} \ {NoKey}
  IN /\ Free /\ leaving[a] = {}
     /\ keys # {} /\ \A k \in keys : pending[key[k].sdata] < MaxPending
     /\ hand' = [Idle EXCEPT !.op = "freesta", !.at = "next", !.batch = keys]
     /\ UNCHANGED <<key, ptrs, cnts, grace, rest>>

\* update_vlan_tailroom_need_count and the counter of the interface itself
Count(s, d) ==
  needed' = [i \in Ifaces |->
               needed[i] + (IF i = s \/ i \in Vlans(s) THEN d ELSE 0)]

\* decrease_tailroom_need_count by the pending decrements of s
FlushPending(s) ==
  /\ Count(s, -pending[s])
  /\ pending' = [pending EXCEPT ![s] = 0]

\* ieee80211_delayed_tailroom_dec
DelayedDec(s) ==
  /\ Free /\ armed[s]
  /\ armed' = [armed EXCEPT ![s] = FALSE]
  /\ FlushPending(s)
  /\ UNCHANGED <<key, ptrs, hand, grace, rest>>

\* ieee80211_reset_crypto_tx_tailroom of every interface, while nobody sends;
\* ieee80211_enable_keys of each is next.  Nothing is pending (its WARN_ON).
Resume ==
  /\ Free /\ sleep # "awake" /\ \A s \in Ifaces : pending[s] = 0
  /\ needed' = [i \in Ifaces |->
                  IF i \in ifaces \cup UNION {Vlans(s) : s \in ifaces}
                  THEN 0 ELSE needed[i]]
  /\ hand' = [Idle EXCEPT !.op = "resume", !.at = "next",
                          !.batch = UNION {list[s] : s \in ifaces}]
  /\ UNCHANGED <<key, ptrs, pending, armed, grace, rest>>

(***************************************************************************)
(* The steps of the holder.                                                *)
(***************************************************************************)
Go(place) == hand' = [hand EXCEPT !.at = place]
Grace(place) == hand' = [hand EXCEPT !.at = "sync", !.then = place]

\* The interface whose count goes up: of the key that is put on, or of one
\* that the hardware has given back or will.
Raised == key[IF hand.then \in {"add", "accel"} THEN hand.new ELSE hand.old].sdata

\* Mistake: the count goes from 0 to 1 without waiting for the transmitters.
IncrementUnsynced ==
  /\ hand.at = "inc" /\ Count(Raised, 1) /\ Go(hand.then)
  /\ UNCHANGED <<key, ptrs, pending, armed, grace, rest>>

\* increment_tailroom_need_count
Increment ==
  /\ hand.at = "inc" /\ Count(Raised, 1)
  /\ Go(IF needed[Raised] = 0 THEN "sync" ELSE hand.then)
  /\ UNCHANGED <<key, ptrs, pending, armed, grace, rest>>

\* synchronize_net: wait for the readers that are in now.
Synchronize ==
  /\ hand.at = "sync" /\ Go("wait") /\ grace' = Active
  /\ UNCHANGED <<key, ptrs, cnts, rest>>
Synchronized ==
  /\ hand.at = "wait" /\ grace = {} /\ Go(hand.then)
  /\ UNCHANGED <<key, ptrs, cnts, grace, rest>>

\* ieee80211_key_replace: the new key comes into the list, the place changes,
\* the old key leaves the list.
AddToList ==
  /\ hand.at = "add" /\ Go("point")
  /\ list' = [list EXCEPT ![key[hand.new].sdata] = @ \cup {hand.new}]
  /\ UNCHANGED <<key, slot, def, cnts, grace, rest>>

\* Mistake: a default stays what it was when its key is taken off.
PointKeepsDefaults ==
  LET k == IF hand.old = NoKey THEN hand.new ELSE hand.old
  IN /\ hand.at = "point" /\ Go(IF hand.old = NoKey THEN "accel" ELSE "del")
     /\ slot' = [slot EXCEPT ![At(k)] = hand.new]
     /\ UNCHANGED <<key, def, list, cnts, grace, rest>>

\* The place gets the new key, and so does each default that was the old one;
\* nobody reads both with one look.
Point ==
  LET old == hand.old
      k == IF old = NoKey THEN hand.new ELSE old
  IN /\ hand.at = "point" /\ Go(IF old = NoKey THEN "accel" ELSE "del")
     /\ slot' = [slot EXCEPT ![At(k)] = hand.new]
     /\ IF key[k].sta # NoSta \/ old = NoKey THEN UNCHANGED def
        ELSE Appoint(key[k].sdata,
                     {w \in Defaults : def[key[k].sdata][w] = old}, hand.new)
     /\ UNCHANGED <<key, list, cnts, grace, rest>>

\* After it the key is destroyed: ieee80211_key_destroy waits for the readers
\* first, ieee80211_free_keys does when it has taken off all keys, and
\* ieee80211_free_sta_keys does not.
DelFromList ==
  /\ hand.at = "del"
  /\ list' = [list EXCEPT ![key[hand.old].sdata] = @ \ {hand.old}]
  /\ CASE hand.op = "freekeys" ->
            hand' = [hand EXCEPT !.at = "unlink", !.batch = @ \cup {hand.old},
                                 !.old = NoKey]
       [] hand.op = "freesta" -> Go("disable")
       [] OTHER -> Grace("disable")
  /\ UNCHANGED <<key, slot, def, cnts, grace, rest>>

\* Mistake: a key the hardware had is not counted when it is taken back.
DisableUncounted ==
  /\ hand.at = "disable" /\ Go(IF key[hand.old].up THEN "clear" ELSE "settle")
  /\ UNCHANGED <<key, ptrs, cnts, grace, rest>>

\* ieee80211_key_disable_hw_accel: count the key before the hardware drops it.
Disable ==
  LET k == hand.old
  IN /\ hand.at = "disable"
     /\ hand' = [hand EXCEPT !.then = "clear",
                   !.at = IF ~key[k].up THEN "settle"
                          ELSE IF key[k].keeps THEN "clear" ELSE "inc"]
     /\ UNCHANGED <<key, ptrs, cnts, grace, rest>>

\* KEY_FLAG_UPLOADED_TO_HARDWARE is cleared.
ClearUploaded ==
  /\ hand.at = "clear" /\ Go("settle")
  /\ key' = [key EXCEPT ![hand.old].up = FALSE]
  /\ UNCHANGED <<ptrs, cnts, grace, rest>>

\* The key is no longer counted: now, or when the delayed work has run, if
\* it made room for another or its station is leaving (delay_tailroom).
Settle ==
  LET s == key[hand.old].sdata
  IN /\ hand.at = "settle" /\ Go("free")
     /\ IF hand.op \in {"link", "fail", "freesta"}
        THEN /\ pending' = [pending EXCEPT ![s] = @ + 1]
             /\ armed' = [armed EXCEPT ![s] = TRUE]
             /\ UNCHANGED needed
        ELSE Count(s, -1) /\ UNCHANGED <<pending, armed>>
     /\ UNCHANGED <<key, ptrs, grace, rest>>

\* ieee80211_key_free_common, and what follows it: the hardware is given the
\* key that was put on, the loop goes on, or the operation ends.
FreeKey ==
  /\ hand.at = "free"
  /\ key' = [key EXCEPT ![hand.old] = Blank]
  /\ hand' = IF hand.op \in {"fail", "remove"} THEN Idle
             ELSE [hand EXCEPT !.old = NoKey,
                               !.at = IF hand.op = "link" THEN "accel" ELSE "next"]
  /\ UNCHANGED <<ptrs, cnts, grace, rest>>

\* ieee80211_free_keys_iface, interface by interface, key by key
Flush ==
  /\ hand.at = "flush" /\ FlushPending(hand.on) /\ Go("unlink")
  /\ UNCHANGED <<key, ptrs, armed, grace, rest>>

UnlinkKey ==
  /\ hand.at = "unlink"
  /\ \E k \in list[hand.on] : hand' = [hand EXCEPT !.at = "point", !.old = k]
  /\ UNCHANGED <<key, ptrs, cnts, grace, rest>>

UnlinkNext == \E v \in hand.ifs :
  /\ hand.at = "unlink" /\ list[hand.on] = {}
  /\ hand' = [hand EXCEPT !.at = "flush", !.on = v, !.ifs = @ \ {v}]
  /\ UNCHANGED <<key, ptrs, cnts, grace, rest>>

\* The rest of ieee80211_free_keys; force_synchronize matters only here.
UnlinkEnd ==
  /\ hand.at = "unlink" /\ list[hand.on] = {} /\ hand.ifs = {}
  /\ Grace("next") \/ (hand.batch = {} /\ Go("next"))
  /\ UNCHANGED <<key, ptrs, cnts, grace, rest>>

\* The loops of ieee80211_free_keys, ieee80211_free_sta_keys and
\* ieee80211_enable_keys come to their next key.
NextKey == \E k \in hand.batch :
  /\ hand.at = "next"
  /\ LET rec == [hand EXCEPT !.batch = @ \ {k}]
     IN hand' = CASE hand.op = "freekeys" -> [rec EXCEPT !.old = k, !.at = "disable"]
                  [] hand.op = "freesta" -> [rec EXCEPT !.old = k, !.at = "point"]
                  [] hand.op = "resume" ->
                       [rec EXCEPT !.new = k, !.at = "inc", !.then = "accel"]
  /\ UNCHANGED <<key, ptrs, cnts, grace, rest>>

LastKey ==
  /\ hand.at = "next" /\ hand.batch = {} /\ hand' = Idle
  /\ sleep' = IF hand.op = "resume" THEN "awake" ELSE sleep
  /\ UNCHANGED <<ifaces, key, ptrs, cnts, grace, leaving, removed, reader, stale>>

\* What follows the upload of a key.
Uploaded == hand' = IF hand.op = "link" THEN Idle
                    ELSE [hand EXCEPT !.new = NoKey, !.at = "next"]

\* ieee80211_key_link asks for the upload unless the host sleeps.
LinkEnds ==
  /\ hand.at = "accel" /\ hand.op = "link" /\ sleep = "wowlan" /\ Uploaded
  /\ UNCHANGED <<key, ptrs, cnts, grace, rest>>
Uploading == hand.at = "accel" /\ ~(hand.op = "link" /\ sleep = "wowlan")

\* The driver is not told of the group keys of VLANs.
Offloadable(k) ==
  ~(Type[key[k].sdata] = "AP_VLAN" /\ ~key[k].kind.pairwise)

\* ieee80211_key_enable_hw_accel when the driver takes the key, with keeps if
\* it left the MIC or the tailroom to the host.
Accelerate == \E keeps \in BOOLEAN :
  LET k == hand.new
  IN /\ Uploading /\ Uploaded
     /\ ~key[k].tainted /\ Offloadable(k)
     /\ key' = [key EXCEPT ![k].up = TRUE, ![k].keeps = keeps]
     /\ IF keeps THEN UNCHANGED needed ELSE Count(key[k].sdata, -1)
     /\ UNCHANGED <<ptrs, pending, armed, grace, rest>>

\* ... and when it is not uploaded: software does it, or there is an error
\* and ieee80211_key_link frees the key (ieee80211_enable_keys does not).  The
\* flag of a key that was uploaded before the suspend is left set.
NotAccelerated == \E error \in BOOLEAN :
  LET k == hand.new
      fails == \/ key[k].tainted \/ key[k].kind.cipher = "SCHEME"
               \/ SwControl /\ ~Offloadable(k)
  IN /\ Uploading
     /\ (fails => error) /\ (error => fails \/ SwControl)
     /\ IF error /\ hand.op = "link"
        THEN hand' = [hand EXCEPT !.op = "fail", !.at = "point", !.old = k,
                                  !.new = NoKey]
        ELSE Uploaded
     /\ key' = [key EXCEPT ![k].up = @ /\ ~key[k].tainted]
     /\ stale' = (stale \/ key'[k].up)
     /\ UNCHANGED <<ifaces, ptrs, cnts, grace, leaving, removed, sleep, reader>>

(***************************************************************************)
(* The rest of mac80211, as far as key.c meets it.                         *)
(***************************************************************************)
Suspend == \E how \in {"wowlan", "off"} :
  /\ Free /\ sleep = "awake" /\ Active = {} /\ sleep' = how
  /\ UNCHANGED <<ifaces, key, ptrs, cnts, hand, grace, leaving, removed, reader, stale>>

\* ieee80211_resume_disconnect: the keys of a client are not to be used again.
Taint == \E s \in Ifaces :
  /\ Free /\ sleep = "wowlan" /\ Type[s] = "STATION"
  /\ key' = [k \in Key |-> IF k \in list[s] THEN [key[k] EXCEPT !.tainted = TRUE]
                                         ELSE key[k]]
  /\ UNCHANGED <<ptrs, cnts, hand, grace, rest>>

\* The station is found no more; its keys go when today's readers are out.
StaLeaves == \E a \in Stas \ removed :
  /\ Home[a] \in ifaces
  /\ Free /\ sleep = "awake"
  /\ removed' = removed \cup {a}
  /\ leaving' = [leaving EXCEPT ![a] = Active]
  /\ UNCHANGED <<ifaces, key, ptrs, cnts, hand, grace, sleep, reader, stale>>

\* A station may come back once its keys are gone.
StaReturns == \E a \in removed :
  /\ Free /\ leaving[a] = {} /\ \A p \in Place : p.sta = a => slot[p] = NoKey
  /\ removed' = removed \ {a}
  /\ UNCHANGED <<ifaces, key, ptrs, cnts, hand, grace, leaving, sleep, reader, stale>>

\* A transmitter looks at the count once, before it looks for the key.
Begin == \E r \in Readers, s \in ifaces :
  /\ reader[r].at = "out" /\ sleep = "awake"
  /\ reader' = [reader EXCEPT ![r] =
       [at |-> "in", on |-> s, room |-> needed[s] > 0, key |-> NoKey]]
  /\ UNCHANGED <<ifaces, key, ptrs, cnts, hand, grace, leaving, removed, sleep, stale>>

\* ... the key of the station, which may be of this VLAN's AP, or a default.
Selectable(r) ==
  LET s == reader[r].on
      known == {a \in Stas : /\ Home[a] = s \/ s \in Vlans(Home[a])
                             /\ a \notin removed \/ r \in leaving[a]}
  IN ({slot[p] : p \in {q \in Place : q.sta \in known /\ q.pairwise}}
        \cup {def[s][w] : w \in Defaults}) \ {NoKey}
Select == \E r \in Readers : reader[r].at = "in" /\ \E k \in Selectable(r) :
  /\ reader' = [reader EXCEPT ![r].at = "sends", ![r].key = k]
  /\ UNCHANGED <<ifaces, key, ptrs, cnts, hand, grace, leaving, removed, sleep, stale>>

\* Mistake: the iterator hands over the keys of stations on their way out.
VisitAll == \E r \in Active :
  /\ reader[r].at # "sends"
  /\ \E k \in list[reader[r].on] :
       reader' = [reader EXCEPT ![r].at = IF key[k].up THEN "called" ELSE "on",
                                ![r].key = k]
  /\ UNCHANGED <<ifaces, key, ptrs, cnts, hand, grace, leaving, removed, sleep, stale>>

\* _ieee80211_iter_keys_rcu: on a key of the list, which is handed to the
\* callback unless it is not uploaded or its station is being removed.
Visit == \E r \in Active :
  /\ reader[r].at # "sends"
  /\ \E k \in list[reader[r].on] :
       reader' = [reader EXCEPT
         ![r].at = IF key[k].up /\ key[k].sta \notin removed
                   THEN "called" ELSE "on",
         ![r].key = k]
  /\ UNCHANGED <<ifaces, key, ptrs, cnts, hand, grace, leaving, removed, sleep, stale>>

End == \E r \in Active :
  /\ reader' = [reader EXCEPT ![r] = Out]
  /\ grace' = grace \ {r}
  /\ leaving' = [a \in Stas |-> leaving[a] \ {r}]
  /\ UNCHANGED <<ifaces, key, ptrs, cnts, hand, removed, sleep, stale>>

Init ==
  /\ ifaces \in Setups
  /\ key = [k \in Key |-> Blank]
  /\ slot = [p \in Place |-> NoKey]
  /\ def = [s \in Ifaces |-> [w \in Defaults |-> NoKey]]
  /\ list = [s \in Ifaces |-> {}]
  /\ needed = [s \in Ifaces |-> 0] /\ pending = [s \in Ifaces |-> 0]
  /\ armed = [s \in Ifaces |-> FALSE] /\ hand = Idle /\ grace = {}
  /\ leaving = [a \in Stas |-> {}] /\ removed = {} /\ sleep = "awake"
  /\ reader = [r \in Readers |-> Out] /\ stale = FALSE

Operation == Install \/ RekeyAdd \/ SetDefault \/ IterRemove \/ FreeKeys
               \/ FreeStaKeys \/ Resume \/ \E s \in Ifaces : DelayedDec(s)
Step == Increment \/ Synchronize \/ Synchronized \/ AddToList \/ Point
          \/ DelFromList \/ Disable \/ ClearUploaded \/ Settle \/ FreeKey
          \/ Flush \/ UnlinkKey \/ UnlinkNext \/ UnlinkEnd \/ NextKey \/ LastKey
          \/ LinkEnds \/ Accelerate \/ NotAccelerated
Others == Suspend \/ Taint \/ StaLeaves \/ StaReturns \/ Begin \/ Select \/ Visit

Next == Operation \/ Step \/ Others \/ End

Spec == Init /\ [][Next]_vars

(***************************************************************************)
(* Properties.                                                             *)
(***************************************************************************)
\* Every variable stays in its domain.
Spots == {"idle", "inc", "sync", "wait", "add", "point", "del", "disable", "clear",
          "settle", "free", "accel", "flush", "unlink", "next"}
TypeOK ==
  /\ ifaces \in Setups
  /\ key \in [Key -> {Blank} \cup KeyRecord] /\ \A k \in Linked : At(k) \in Place
  /\ slot \in [Place -> Key \cup {NoKey}]
  /\ def \in [Ifaces -> [Defaults -> Key \cup {NoKey}]]
  /\ list \in [Ifaces -> SUBSET Key]
  /\ needed \in [Ifaces -> Nat] /\ pending \in [Ifaces -> Nat]
  /\ armed \in [Ifaces -> BOOLEAN] /\ grace \subseteq Readers
  /\ leaving \in [Stas -> SUBSET Readers] /\ removed \subseteq Stas
  /\ sleep \in {"awake", "wowlan", "off"} /\ stale \in BOOLEAN
  /\ hand \in [op : {"none", "link", "fail", "remove", "freekeys", "freesta", "resume"},
               at : Spots, then : Spots, old : Key \cup {NoKey}, new : Key \cup {NoKey},
               on : Ifaces \cup {NoKey}, ifs : SUBSET Ifaces, batch : SUBSET Key]
  /\ reader \in [Readers -> {Out} \cup
       [at : {"in", "sends", "on", "called"}, on : Ifaces, room : BOOLEAN,
        key : Key \cup {NoKey}]]

\* Keys of an interface that software encrypts with, so they need tailroom.
Wanting(s) == {k \in Linked : /\ key[k].sdata = s
                              /\ ~key[k].up \/ key[k].keeps}

\* Whenever nobody holds key_mtx, crypto_tx_tailroom_needed_cnt is the keys of
\* the interface that need tailroom and the decrements still pending, and a
\* VLAN's includes all its AP counts (update_vlan_tailroom_need_count; the
\* WARN_ON_ONCEs of ieee80211_free_keys).  A resume that could not upload a key
\* again only makes it too large.
TailroomCounted ==
  Free /\ sleep = "awake" => \A s \in Ifaces :
    LET own(i) == Cardinality(Wanting(i)) + pending[i]
        sum == own(s) + IF Aps(s) = {} THEN 0 ELSE own(CHOOSE a \in Aps(s) : TRUE)
    IN IF stale THEN needed[s] >= sum ELSE needed[s] = sum

\* A frame that is encrypted in software has the room the encryption needs: it
\* was sized after the key was counted (the races listed in
\* increment_tailroom_need_count).  Only ieee80211_remove_key, which clears the
\* flag before it counts, leaves a window.
RoomWhenEncrypting == \A r \in Readers :
  reader[r].at = "sends" /\ key[reader[r].key] # Blank =>
    LET k == key[reader[r].key]
    IN (~k.up \/ k.keeps) => reader[r].room \/ k.dropped

\* The count is right, and its being right is enough for those who send.
TailroomSound == TailroomCounted /\ RoomWhenEncrypting

\* A key is not freed under a transmitter that chose it, nor under an iterator
\* (the grace periods of ieee80211_key_destroy, ieee80211_free_keys and of a
\* station's removal).  An iterator that has only stepped on a key of a station
\* in removal, to skip it, is not waited for: ieee80211_free_sta_keys.
HeldKeysLive == [][\A k \in Linked : key'[k] = Blank =>
  \A r \in Active : reader[r].key = k =>
    reader[r].at = "on" /\ key[k].sta \in removed]_vars

\* No place, list or default leads to a freed key at any time, and whenever
\* nobody holds key_mtx the three agree: a linked key is in its place and in
\* its interface's list, and a default is one of the interface's own keys.
PointersAgree ==
  /\ UNION {list[s] : s \in Ifaces} \subseteq Linked
  /\ \A p \in Place : slot[p] \in Linked \cup {NoKey}
  /\ \A s \in Ifaces : \A w \in Defaults : def[s][w] # NoKey =>
       \E p \in Place : p.sdata = s /\ p.sta = NoSta /\ slot[p] = def[s][w]
  /\ Free => /\ \A k \in Linked : slot[At(k)] = k
             /\ \A s \in Ifaces : list[s] = {k \in Linked : key[k].sdata = s}

\* A place never goes from one key straight to another with the same material:
\* re-installation is accepted silently, so no nonce is used again.
NotReinstalled == [][\A p \in Place :
  LET o == slot[p]
      n == slot'[p]
  IN o # n /\ NoKey \notin {o, n} =>
       LET was == key[o].kind
           now == key[n].kind
       IN ~/\ was.cipher = now.cipher /\ was.tk = now.tk
           /\ was.mic = now.mic \/ (Type[p.sdata] = "STATION" /\ ~now.pairwise)
  ]_vars
=============================================================================
