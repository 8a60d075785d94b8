------------------------ MODULE VmacSendTableProofs -------------------------
(***************************************************************************)
(* Invariance proofs for VmacSendTable, for any number of threads in       *)
(* vmac_tx, of encodings, buckets, entries and slots.                      *)
(***************************************************************************)
EXTENDS VmacSendTable, SequenceTheorems, TLAPS

(* What TypeOK leaves out.                                                 *)
Types ==
  /\ TypeOK
  /\ bucket \in [0..NBuckets - 1 -> Seq(Entry)]
  /\ key \in [Entry -> Enc \cup {None}]
  /\ enc \in [Context -> Enc \cup {None}]
  /\ num \in [Context -> Nat] /\ dseq \in Nat /\ i \in [Entry -> Nat]
  /\ met \cup crossed \cup failed \subseteq Entry

(* The entries of a bucket are usable, are there once, and shared it with  *)
(* none if none was crossed.                                               *)
BucketsSound == \A b \in 0..NBuckets - 1 :
  /\ \A k \in DOMAIN bucket[b] : /\ life[bucket[b][k]] = "ready"
                                 /\ Hash(key[bucket[b][k]]) = b
                                 /\ bucket[b][k] \notin crossed => Len(bucket[b]) = 1
  /\ \A k, l \in DOMAIN bucket[b] : bucket[b][k] = bucket[b][l] => k = l

Linked(e) == \E b \in 0..NBuckets - 1 : \E k \in DOMAIN bucket[b] : bucket[b][k] = e

(* Handlers and what they found; an entry that was not crossed is found by *)
(* its own handler.                                                        *)
EntrySound ==
  /\ \A h \in Entry : /\ victim[h] # None <=> cleanpc[h] \in {"slots", "free"}
                      /\ cleanpc[h] = "free" => ~Linked(victim[h])
  /\ \A h \in Entry : victim[h] # None /\ (h \notin crossed \/ victim[h] \notin crossed)
       => victim[h] = h
  /\ \A e \in Entry \ crossed :
       /\ cleanpc[e] # "idle" => life[e] = "ready"
       /\ life[e] = "ready" /\ cleanpc[e] # "free" => bucket[Hash(key[e])] = <<e>>

(* What is not used yet has nothing pending, and nobody knows it.          *)
UnusedSound == \A e \in Entry : life[e] = "unused" =>
  /\ ~armed[e] /\ ~Raced(e) /\ e \notin failed /\ seq[e] = 0
  /\ \A x \in Context : ent[x] # e
  /\ \A h \in Entry : victim[h] # e
  /\ \A p \in stored : p.entry # e

(* The places of the contexts, and what they hold there.                   *)
ContextSound ==
  /\ \A c \in Callers : /\ pc[c] \in {"idle", "add", "touch", "number", "store", "free"}
                        /\ pc[c] # "free" => ptr[c] = NULL
  /\ pc["dack"] \in {"idle", "seq", "walk", "copy"}
  /\ pc["dack"] = "copy" => ptr["dack"] \in Copy
  /\ \A x \in Context :
       /\ pc[x] \in {"idle", "add"} <=> ent[x] = None
       /\ pc[x] # "idle" => enc[x] \in Enc
       /\ ptr[x] \in Copy => ptr[x] \in stored /\ ptr[x].entry = ent[x]

(* Who still has an entry that is being cleaned met the clean-up.          *)
LateFinders == \A e \in Entry : (cleanpc[e] # "idle" \/ life[e] = "freed") /\ ~Raced(e) =>
  ~armed[e] /\ \A x \in Context : ent[x] # e

(* Callers that work on a frame of e, and on one whose copy is not stored. *)
Stores(c, e) == ent[c] = e /\ pc[c] = "store"
Frees(c, e)  == ent[c] = e /\ pc[c] = "free"
Works(c, e)  == Stores(c, e) \/ Frees(c, e)

(* Frames are numbered once, and stored after they are.                    *)
SeqSound == \A e \in Entry :
  /\ \A c \in Callers : Works(c, e) => num[c] < seq[e]
  /\ \A b, c \in Callers : Works(b, e) /\ Works(c, e) /\ num[b] = num[c] => b = c
  /\ \A p \in stored : p.entry = e => p.n < seq[e]
  /\ e \notin failed => \A n \in 0..seq[e] - 1 :
       [entry |-> e, n |-> n] \in stored \/ \E c \in Callers : Stores(c, e) /\ num[c] = n

(* A slot that two threads do not hold is written in order.                *)
InTurn == \A e \in Entry \ crossed : \A b \in Callers : Stores(b, e) =>
  /\ \A c \in Callers : Works(c, e) /\ num[b] < num[c]
       => Place(num[b]) # Place(num[c])
  /\ \A p \in stored : p.entry = e /\ Place(p.n) = Place(num[b]) => p.n < num[b]

(* A slot holds the newest copy stored in it, or none was.                 *)
SlotsSound ==
  /\ \A e \in Entry, s \in Slot : buffer[e][s] \in Copy =>
       /\ buffer[e][s] \in stored
       /\ buffer[e][s].entry = e /\ Place(buffer[e][s].n) = s
  /\ \A p \in stored :
       /\ buffer[p.entry][Place(p.n)] \in Copy
       /\ p.entry \notin crossed => p.n <= buffer[p.entry][Place(p.n)].n

(* What a caller is about to free.                                         *)
PtrSound == \A e \in Entry \ crossed : \A c \in Callers : Frees(c, e) =>
  /\ ptr[c] = Junk =>
       /\ [entry |-> e, n |-> Place(num[c])] \notin stored
       /\ \A b \in Callers : Stores(b, e) => num[b] # Place(num[c])
  /\ ptr[c] \in Copy =>
       /\ ptr[c].n + WINDOW_TX <= num[c] /\ Value(num[c]) >= WINDOW_TX
       /\ e \notin failed => ptr[c].n + WINDOW_TX = num[c]

(* A copy that the clean-up of its entry has gone past.                    *)
Swept(p) == LET e == p.entry IN
  (cleanpc[e] = "slots" /\ Place(p.n) < i[e]) \/ cleanpc[e] = "free" \/ life[e] = "freed"

(* A copy that was freed, by vmac_tx or by the clean-up.                   *)
FreedSound == \A p \in freed : LET e == p.entry IN ~Raced(e) =>
  \/ /\ p.n + WINDOW_TX < seq[e]
     /\ e \notin failed => /\ Value(p.n) + WINDOW_TX < SEQ_MOD
                          /\ \A c \in Callers : Works(c, e) => num[c] # p.n + WINDOW_TX
  \/ Swept(p)

(* No copy of a frame since seq was last 0 is forgotten.                   *)
Reachable == \A p \in stored : p.entry \notin crossed /\ Current(p) =>
  \/ p \in freed
  \/ buffer[p.entry][Place(p.n)] = p
  \/ \E c \in Callers : Frees(c, p.entry) /\ ptr[c] = p

CleanSound == \A p \in stored : ~Raced(p.entry) /\ Current(p) /\ Swept(p) => p \in freed

SendInv ==
  /\ Types /\ BucketsSound /\ EntrySound /\ UnusedSound /\ ContextSound /\ LateFinders
  /\ SeqSound /\ InTurn /\ SlotsSound /\ PtrSound /\ FreedSound /\ Reachable /\ CleanSound
  /\ MisuseExplained

----------------------------------------------------------------------------
(* Constants, slots and lists.                                             *)
LEMMA Constants ==
  /\ WINDOW_TX \in Nat /\ WINDOW_TX > 0 /\ SEQ_MOD \in Nat \ {0} /\ WINDOW_TX <= SEQ_MOD
  /\ \A n \in Enc : n \in Nat /\ Hash(n) \in 0..NBuckets - 1
  /\ None \notin Entry /\ "dack" \notin Callers
  /\ Callers \subseteq Context /\ "dack" \in Context
  /\ \A x \in Context : x \in Callers \/ x = "dack"
  /\ NULL # Junk /\ NULL \notin Copy /\ Junk \notin Copy
  BY SendTableAssumption, PointerAssumption DEF Hash, Entry, Context

LEMMA Copies ==
  ASSUME NEW p \in Copy
  PROVE  p.entry \in Entry /\ p.n \in Nat /\ p = [entry |-> p.entry, n |-> p.n]
  BY DEF Copy

LEMMA DivMod ==
  ASSUME NEW W \in Nat \ {0}, NEW n \in Nat
  PROVE  n \div W \in Nat /\ n % W \in 0..W - 1 /\ n = W * (n \div W) + (n % W)
<1>1. n = W * (n \div W) + (n % W)  OBVIOUS
<1>2. n \div W \in Nat  OBVIOUS
<1>3. n % W \in 0..W - 1  OBVIOUS
<1>4. QED  BY <1>1, <1>2, <1>3

LEMMA Remainder ==
  ASSUME NEW W \in Nat \ {0}, NEW q \in Nat, NEW r \in 0..W - 1
  PROVE  (W * q + r) % W = r
  OBVIOUS

LEMMA RemainderBound ==
  ASSUME NEW W \in Nat \ {0}, NEW n \in Nat
  PROVE  n % W \in 0..W - 1 /\ n % W <= n
<1> DEFINE q == n \div W
           r == n % W
<1>1. q \in Nat /\ r \in 0..W - 1 /\ n = W * q + r  BY DivMod
<1> HIDE DEF q, r
<1>2. W * q \in Nat  BY <1>1
<1>3. r <= n  BY <1>1, <1>2
<1>4. QED  BY <1>1, <1>3 DEF r

LEMMA NextOfSlot ==
  ASSUME NEW W \in Nat \ {0}, NEW n \in Nat
  PROVE  (n + W) % W = n % W
<1>1. n + W = W * ((n \div W) + 1) + (n % W)  BY DivMod
<1>2. n \div W \in Nat /\ n % W \in 0..W - 1  BY DivMod
<1>3. (n \div W) + 1 \in Nat  BY <1>2
<1>4. QED  BY <1>1, <1>2, <1>3, Remainder

LEMMA SameSlot ==
  ASSUME NEW W \in Nat \ {0}, NEW m \in Nat, NEW n \in Nat, m < n, m % W = n % W
  PROVE  m + W <= n
<1> DEFINE p == m \div W
           q == n \div W
           r == m % W
<1>1. p \in Nat /\ q \in Nat /\ r \in Nat  OBVIOUS
<1>2. m = W * p + r /\ n = W * q + r  BY DivMod
<1> HIDE DEF p, q, r
<1>3. n - m = W * (q - p)  BY <1>1, <1>2
<1>4. q - p > 0  BY <1>1, <1>3
<1>5. W * (q - p) >= W  BY <1>1, <1>4
<1>6. QED  BY <1>3, <1>5

(* The u16 of a frame's number, and the frames since it was last 0.        *)
LEMMA Values ==
  ASSUME NEW n \in Nat
  PROVE  /\ Value(n) \in 0..SEQ_MOD - 1 /\ Value(n) <= n
         /\ Start(n) \in Nat /\ Start(n) <= n /\ n = Start(n) + Value(n)
         /\ n < SEQ_MOD => Value(n) = n
         /\ \A m \in Nat : Start(n) <= m /\ m - Start(n) < SEQ_MOD => Value(m) = m - Start(n)
         /\ \A k \in Nat : k <= Value(n) => n - k \in Nat /\ Value(n - k) = Value(n) - k
         /\ \A k \in Nat : Value(n) + k < SEQ_MOD => Value(n + k) = Value(n) + k
         /\ Start(n) <= Start(n + 1)
<1> DEFINE M == SEQ_MOD
           q == n \div M
           r == n % M
<1>0. M \in Nat \ {0}  BY Constants
<1>1. q \in Nat /\ r \in 0..M - 1 /\ n = M * q + r /\ r <= n
  BY <1>0, DivMod, RemainderBound
<1>2. Value(n) = r  BY DEF Value
<1> HIDE DEF q, r, M
<1>3. M * q \in Nat  BY <1>0, <1>1
<1>4. Start(n) = M * q  BY <1>1, <1>2, <1>3 DEF Start
<1>5. ASSUME NEW m \in Nat, Start(n) <= m, m - Start(n) < M PROVE Value(m) = m - Start(n)
  <2> DEFINE k == m - Start(n)
  <2>1. k \in 0..M - 1 /\ m = M * q + k  BY <1>0, <1>3, <1>4, <1>5
  <2> HIDE DEF k
  <2>2. m % M = k  BY <1>0, <1>1, <2>1, Remainder
  <2>3. QED  BY <2>2 DEF Value, k, M
<1>6. n < M => Value(n) = n  BY <1>0 DEF Value, M
<1>7. ASSUME NEW k \in Nat, k <= Value(n) PROVE n - k \in Nat /\ Value(n - k) = Value(n) - k
  <2> DEFINE m == n - k
  <2>1. m \in Nat /\ Start(n) <= m /\ m - Start(n) = r - k /\ m - Start(n) < M
    BY <1>0, <1>1, <1>2, <1>3, <1>4, <1>7
  <2> HIDE DEF m
  <2>2. Value(m) = r - k  BY <1>5, <2>1
  <2>3. QED  BY <1>2, <2>1, <2>2 DEF m
<1>8. ASSUME NEW k \in Nat, Value(n) + k < M PROVE Value(n + k) = Value(n) + k
  <2> DEFINE m == n + k
  <2>1. m \in Nat /\ Start(n) <= m /\ m - Start(n) = r + k /\ m - Start(n) < M
    BY <1>0, <1>1, <1>2, <1>3, <1>4, <1>8
  <2> HIDE DEF m
  <2>2. Value(m) = r + k  BY <1>5, <2>1
  <2>3. QED  BY <1>2, <2>2 DEF m
<1>9. Start(n) <= Start(n + 1)
  <2>1. CASE r + 1 < M
    <3>1. Value(n + 1) = r + 1  BY <1>2, <1>8, <2>1
    <3>2. Start(n + 1) = (n + 1) - (r + 1)
      <4>1. Start(n + 1) = (n + 1) - Value(n + 1)  BY DEF Start
      <4>2. QED  BY <3>1, <4>1
    <3>3. QED  BY <1>1, <1>3, <1>4, <3>2
  <2>2. CASE ~(r + 1 < M)
    <3>1. r + 1 = M  BY <1>0, <1>1, <2>2
    <3>2. n + 1 = M * (q + 1) + 0  BY <1>0, <1>1, <3>1
    <3>3. q + 1 \in Nat /\ 0 \in 0..M - 1  BY <1>0, <1>1
    <3>4. (M * (q + 1) + 0) % M = 0  BY <1>0, <3>3, Remainder
    <3>5. Value(n + 1) = 0  BY <3>2, <3>4 DEF Value, M
    <3>6. Start(n + 1) = n + 1  BY <3>5 DEF Start
    <3>7. QED  BY <1>1, <1>3, <1>4, <3>6
  <2>3. QED  BY <2>1, <2>2
<1>10. QED  BY <1>1, <1>2, <1>3, <1>4, <1>5, <1>6, <1>7, <1>8, <1>9 DEF M

(* The slots of frames. Two frames of a slot are WINDOW_TX apart, if the   *)
(* later one is not among the first of its round.                          *)
LEMMA Slots ==
  /\ \A n \in Nat : n % WINDOW_TX \in Slot
  /\ \A n \in Nat : Place(n) \in Slot /\ Place(n) \in Nat /\ Place(n) <= Value(n) /\ Place(n) <= n
                    /\ (Value(n) >= WINDOW_TX => Place(n) < n)
  /\ \A s \in Slot : s \in Nat /\ Place(s) = s /\ s % WINDOW_TX = s /\ s < WINDOW_TX
  /\ \A m, n \in Nat : m < n /\ Place(m) = Place(n) /\ Value(n) >= WINDOW_TX => m + WINDOW_TX <= n
  /\ \A n \in Nat : Value(n) >= WINDOW_TX => /\ n - WINDOW_TX \in Nat
                                             /\ Place(n - WINDOW_TX) = Place(n)
                                             /\ Value(n - WINDOW_TX) + WINDOW_TX = Value(n)
  /\ \A n \in Nat : Value(n) + WINDOW_TX < SEQ_MOD => Place(n + WINDOW_TX) = Place(n)
  /\ \A k, m, n \in Nat : Start(k) <= m /\ m < n /\ n < k /\ Place(m) = Place(n)
       => Value(n) >= WINDOW_TX
<1>1. WINDOW_TX \in Nat \ {0} /\ SEQ_MOD \in Nat \ {0} /\ WINDOW_TX <= SEQ_MOD  BY Constants
<1>2. \A n \in Nat : n % WINDOW_TX \in 0..WINDOW_TX - 1 /\ n % WINDOW_TX <= n
  BY <1>1, RemainderBound
<1>3. \A n \in Nat : n % WINDOW_TX \in Slot  BY <1>2 DEF Slot
<1>4. \A n \in Nat : Value(n) \in 0..SEQ_MOD - 1 /\ Value(n) \in Nat /\ Value(n) <= n
                     /\ Start(n) \in Nat /\ Start(n) <= n /\ n = Start(n) + Value(n)
  <2>1. ASSUME NEW n \in Nat
        PROVE  Value(n) \in 0..SEQ_MOD - 1 /\ Value(n) <= n
               /\ Start(n) \in Nat /\ Start(n) <= n /\ n = Start(n) + Value(n)
    BY Values
  <2>2. QED  BY <1>1, <2>1
<1>5. ASSUME NEW n \in Nat
      PROVE  Place(n) \in Slot /\ Place(n) \in Nat /\ Place(n) <= Value(n) /\ Place(n) <= n
             /\ (Value(n) >= WINDOW_TX => Place(n) < n)
  <2>1. Value(n) \in Nat /\ Value(n) <= n  BY <1>4
  <2>2. Place(n) \in 0..WINDOW_TX - 1 /\ Place(n) <= Value(n)  BY <1>2, <2>1 DEF Place
  <2>3. QED  BY <1>1, <2>1, <2>2 DEF Slot
<1>6. ASSUME NEW s \in Slot PROVE s \in Nat /\ Place(s) = s /\ s % WINDOW_TX = s /\ s < WINDOW_TX
  <2>1. s \in Nat /\ s % WINDOW_TX = s /\ s < WINDOW_TX  BY <1>1 DEF Slot
  <2>2. s < SEQ_MOD  BY <1>1, <2>1
  <2>3. Value(s) = s  BY <2>1, <2>2, Values
  <2>4. QED  BY <2>1, <2>3 DEF Place
<1>7. ASSUME NEW m \in Nat, NEW n \in Nat, m < n, Place(m) = Place(n), Start(n) <= m
      PROVE  Value(m) = m - Start(n) /\ m + WINDOW_TX <= n /\ Value(n) >= WINDOW_TX
  <2>1. m - Start(n) < SEQ_MOD  BY <1>1, <1>4, <1>7
  <2>2. Value(m) = m - Start(n)  BY <1>7, <2>1, Values
  <2>3. Value(m) \in Nat /\ Value(n) \in Nat /\ Value(m) < Value(n)  BY <1>4, <1>7, <2>2
  <2>4. Value(m) % WINDOW_TX = Value(n) % WINDOW_TX  BY <1>7 DEF Place
  <2>5. Value(m) + WINDOW_TX <= Value(n)  BY <1>1, <2>3, <2>4, SameSlot
  <2>6. WINDOW_TX <= Value(n)  BY <1>1, <2>3, <2>5
  <2>7. m + WINDOW_TX <= n
    <3>1. n = Start(n) + Value(n) /\ Start(n) \in Nat  BY <1>4
    <3>2. m = Start(n) + Value(m)  BY <2>2, <3>1
    <3>3. QED  BY <1>1, <2>3, <2>5, <3>1, <3>2
  <2>8. QED  BY <2>2, <2>6, <2>7
<1>8. ASSUME NEW m \in Nat, NEW n \in Nat, m < n, Place(m) = Place(n), Value(n) >= WINDOW_TX
      PROVE  m + WINDOW_TX <= n
  <2>1. CASE Start(n) <= m  BY <1>7, <1>8, <2>1
  <2>2. CASE ~(Start(n) <= m)  BY <1>1, <1>4, <1>8, <2>2
  <2>3. QED  BY <2>1, <2>2
<1>9. ASSUME NEW n \in Nat, Value(n) >= WINDOW_TX
      PROVE  /\ n - WINDOW_TX \in Nat /\ Place(n - WINDOW_TX) = Place(n)
             /\ Value(n - WINDOW_TX) + WINDOW_TX = Value(n)
  <2>1. n - WINDOW_TX \in Nat /\ Value(n - WINDOW_TX) = Value(n) - WINDOW_TX
    BY <1>1, <1>4, <1>9, Values
  <2> DEFINE w == Value(n - WINDOW_TX)
  <2>2. w \in Nat /\ w + WINDOW_TX = Value(n)  BY <1>1, <1>4, <2>1
  <2>3. (w + WINDOW_TX) % WINDOW_TX = w % WINDOW_TX  BY <1>1, <2>2, NextOfSlot
  <2>4. QED  BY <2>1, <2>2, <2>3 DEF Place
<1>10. ASSUME NEW n \in Nat, Value(n) + WINDOW_TX < SEQ_MOD PROVE Place(n + WINDOW_TX) = Place(n)
  <2>1. Value(n + WINDOW_TX) = Value(n) + WINDOW_TX  BY <1>1, <1>10, Values
  <2>2. (Value(n) + WINDOW_TX) % WINDOW_TX = Value(n) % WINDOW_TX  BY <1>1, <1>4, NextOfSlot
  <2>3. QED  BY <2>1, <2>2 DEF Place
<1>11. ASSUME NEW k \in Nat, NEW m \in Nat, NEW n \in Nat,
              Start(k) <= m, m < n, n < k, Place(m) = Place(n)
       PROVE  Value(n) >= WINDOW_TX
  <2>1. Start(k) <= n /\ n - Start(k) < SEQ_MOD  BY <1>1, <1>4, <1>11
  <2>2. Value(n) = n - Start(k)  BY <1>11, <2>1, Values
  <2>3. Start(n) = Start(k)
    <3>1. n = Start(n) + Value(n) /\ Start(n) \in Nat /\ Start(k) \in Nat  BY <1>4
    <3>2. QED  BY <2>2, <3>1
  <2>4. QED  BY <1>7, <1>11, <2>3
<1>12. QED  BY <1>3, <1>5, <1>6, <1>8, <1>9, <1>10, <1>11

(* hash_del takes the entry, and it alone, out of a list that has it once. *)
LEMMA UnlinkProperties ==
  ASSUME NEW S, NEW s \in Seq(S), NEW d,
         \A k, l \in DOMAIN s : s[k] = s[l] => k = l
  PROVE  LET u == Unlink(s, d) IN
         /\ u \in Seq(S) /\ Len(u) <= Len(s)
         /\ \A k \in DOMAIN u : u[k] # d /\ \E l \in DOMAIN s : u[k] = s[l]
         /\ \A k, l \in DOMAIN u : u[k] = u[l] => k = l
         /\ (\A k \in DOMAIN s : s[k] # d) => u = s
<1> DEFINE u == Unlink(s, d)
<1>1. Len(s) \in Nat /\ DOMAIN s = 1..Len(s)  BY LenProperties
<1>2. CASE ~Contains(s, d)
  <2>1. u = s /\ \A k \in DOMAIN s : s[k] # d  BY <1>1, <1>2 DEF Unlink, Contains
  <2>2. QED  BY <1>1, <2>1
<1>3. CASE Contains(s, d)
  <2> DEFINE j == CHOOSE k \in DOMAIN s : s[k] = d
  <2>1. j \in DOMAIN s /\ s[j] = d  BY <1>1, <1>3 DEF Contains
  <2>2. u = RemoveAt(s, j)  BY <1>3 DEF Unlink
  <2> HIDE DEF j
  <2>3. j \in 1..Len(s)  BY <1>1, <2>1
  <2> DEFINE a == SubSeq(s, 1, j - 1)
             b == SubSeq(s, j + 1, Len(s))
  <2>4. u = a \o b  BY <2>2 DEF RemoveAt
  <2>5. a \in Seq(S) /\ Len(a) = j - 1 /\ \A k \in 1..j - 1 : a[k] = s[k]
    BY <1>1, <2>3, SubSeqProperties
  <2>6. b \in Seq(S) /\ Len(b) = Len(s) - j /\ \A k \in 1..Len(s) - j : b[k] = s[j + k]
    <3>1. \A k \in j + 1..Len(s) : s[k] \in S  BY <1>1, <2>3, ElementOfSeq
    <3>2. b \in Seq(S) /\ \A k \in 1..Len(s) - (j + 1) + 1 : b[k] = s[j + 1 + k - 1]
      BY <1>1, <2>3, <3>1, SubSeqProperties
    <3>3. Len(b) = IF j + 1 <= Len(s) THEN Len(s) - (j + 1) + 1 ELSE 0
      BY <1>1, <2>3, <3>1, SubSeqProperties
    <3> HIDE DEF a, b, u
    <3>4. \A k \in 1..Len(s) - j : k \in 1..Len(s) - (j + 1) + 1 /\ j + 1 + k - 1 = j + k
      BY <1>1, <2>3
    <3>5. Len(b) = Len(s) - j
      <4>1. CASE j = Len(s)  BY <1>1, <3>3, <4>1
      <4>2. CASE j < Len(s)
        <5>1. j + 1 <= Len(s) /\ Len(s) - (j + 1) + 1 = Len(s) - j  BY <1>1, <2>3, <4>2
        <5>2. QED  BY <3>3, <5>1
      <4>3. \A n \in Nat : \A m \in 1..n : m = n \/ m < n  OBVIOUS
      <4>4. j = Len(s) \/ j < Len(s)  BY <1>1, <2>3, <4>3
      <4>5. QED  BY <4>1, <4>2, <4>4
    <3>6. \A k \in 1..Len(s) - j : b[k] = s[j + k]  BY <3>2, <3>4
    <3>7. QED  BY <3>2, <3>5, <3>6
  <2> HIDE DEF a, b, u
  <2>7. u \in Seq(S) /\ Len(u) = Len(s) - 1
        /\ \A k \in 1..Len(s) - 1 : u[k] = IF k <= j - 1 THEN a[k] ELSE b[k - (j - 1)]
    <3>1. a \in Seq(S) /\ b \in Seq(S)  BY <2>5, <2>6
    <3>2. u \in Seq(S) /\ Len(u) = Len(a) + Len(b)
          /\ \A k \in 1..Len(a) + Len(b) : u[k] = IF k <= Len(a) THEN a[k] ELSE b[k - Len(a)]
      BY <2>4, <3>1, ConcatProperties, Zenon
    <3>3. Len(a) + Len(b) = Len(s) - 1  BY <1>1, <2>3, <2>5, <2>6
    <3>4. Len(a) = j - 1  BY <2>5
    <3>5. QED  BY <3>2, <3>3, <3>4
  <2>8. DOMAIN u = 1..Len(s) - 1  BY <2>7, LenProperties
  <2> DEFINE at(k) == IF k < j THEN k ELSE k + 1
  <2>9. ASSUME NEW k \in DOMAIN u PROVE at(k) \in DOMAIN s /\ at(k) # j /\ u[k] = s[at(k)]
    <3>1. CASE k < j
      <4>1. k \in 1..j - 1 /\ k <= j - 1  BY <1>1, <2>3, <2>8, <3>1
      <4>2. u[k] = s[k]  BY <2>5, <2>7, <2>8, <4>1
      <4>3. QED  BY <1>1, <2>3, <2>8, <3>1, <4>2
    <3>2. CASE ~(k < j)
      <4>1. k - (j - 1) \in 1..Len(s) - j /\ ~(k <= j - 1) /\ j + (k - (j - 1)) = k + 1
        BY <1>1, <2>3, <2>8, <3>2
      <4>2. u[k] = s[k + 1]  BY <2>6, <2>7, <2>8, <4>1
      <4>3. QED  BY <1>1, <2>3, <2>8, <3>2, <4>2
    <3>3. QED  BY <3>1, <3>2
  <2>10. \A k \in DOMAIN u : u[k] # d  BY <2>1, <2>9
  <2>11. \A k, l \in DOMAIN u : u[k] = u[l] => k = l
    <3>1. SUFFICES ASSUME NEW k \in DOMAIN u, NEW l \in DOMAIN u, u[k] = u[l] PROVE k = l
      OBVIOUS
    <3>2. at(k) = at(l)  BY <2>9, <3>1
    <3>3. QED  BY <1>1, <2>3, <2>8, <3>2
  <2>12. ~(\A k \in DOMAIN s : s[k] # d)  BY <2>1
  <2>13. QED  BY <1>1, <2>7, <2>9, <2>10, <2>11, <2>12 DEF u
<1>4. QED  BY <1>2, <1>3

----------------------------------------------------------------------------
(* What holds of entries in the state, read off the invariant.             *)
Explained(kind, e, n) ==
  CASE kind \in {"none", "null"} -> TRUE
    [] kind = "freed" -> Raced(e)
    [] kind = "copy"  -> Raced(e) \/ n + WINDOW_TX < seq[e]
    [] kind = "unset" -> Raced(e) \/ Unstored(e, n % WINDOW_TX)
    [] kind = "twice" -> Raced(e) \/ e \in failed

Control == Types /\ BucketsSound /\ EntrySound /\ UnusedSound /\ ContextSound /\ LateFinders

Data == /\ SeqSound /\ InTurn /\ SlotsSound /\ PtrSound
        /\ FreedSound /\ Reachable /\ CleanSound

LEMMA Parts == SendInv <=> Control /\ Data /\ MisuseExplained
  BY DEF SendInv, Control, Data

(* An undefined step ends the behaviour and changes nothing else.          *)
LEMMA FaultStep ==
  ASSUME SendInv, NEW kind, NEW e, NEW n, Fault(kind, e, n), Explained(kind, e, n)
  PROVE  SendInv'
<1> USE DEF Fault, entries, buffers, context, cleanup, history
<1>1. Control'
  BY DEF SendInv, Control, Types, TypeOK, BucketsSound, EntrySound, Linked, UnusedSound, ContextSound,
         LateFinders, Raced
<1>2. Data'
  BY DEF SendInv, Data, SeqSound, InTurn, SlotsSound, PtrSound, FreedSound, Reachable, CleanSound,
         Works, Stores, Frees, Raced, Swept, Current
<1>3. MisuseExplained'
  <2>1. fault'.kind = kind /\ fault'.entry = e /\ fault'.n = n  OBVIOUS
  <2>2. QED  BY <2>1 DEF MisuseExplained, Explained, Raced, Unstored
<1>4. QED  BY <1>1, <1>2, <1>3 DEF SendInv, Control, Data

(* Any other step leaves fault alone.                                      *)
LEMMA NoFaultStep ==
  ASSUME fault = NoFault, fault' = fault PROVE MisuseExplained'
<1>1. fault'.kind = "none"  BY DEF NoFault
<1>2. QED  BY <1>1 DEF MisuseExplained

(* The initial state.                                                      *)
LEMMA InitSend == Init => SendInv
<1> SUFFICES ASSUME Init PROVE SendInv  OBVIOUS
<1> USE DEF Init
<1>1. Types
  BY Constants DEF Types, TypeOK, Entry, Slot
<1>2. BucketsSound
  <2>1. \A b \in 0..NBuckets - 1 : bucket[b] = <<>>  OBVIOUS
  <2>2. QED  BY <2>1 DEF BucketsSound
<1>3. EntrySound /\ UnusedSound /\ ContextSound /\ LateFinders
  <2>1. \A x \in Context : pc[x] = "idle" /\ ent[x] = None /\ ptr[x] = NULL  OBVIOUS
  <2>2. \A e \in Entry : life[e] = "unused" /\ cleanpc[e] = "idle" /\ victim[e] = None /\ ~armed[e]
                         /\ seq[e] = 0 /\ e \notin met /\ e \notin crossed /\ e \notin failed
    OBVIOUS
  <2>3. None \notin Entry  BY Constants
  <2>4. EntrySound  BY <2>2 DEF EntrySound
  <2>5. UnusedSound  BY <2>1, <2>2, <2>3 DEF UnusedSound, Raced
  <2>6. ContextSound  BY <2>1, Constants DEF ContextSound
  <2>7. LateFinders  BY <2>2 DEF LateFinders
  <2>8. QED  BY <2>4, <2>5, <2>6, <2>7
<1>4. Data
  <2>1. \A c \in Callers, e \in Entry : ~Works(c, e) /\ ~Stores(c, e) /\ ~Frees(c, e)
    BY Constants DEF Works, Stores, Frees
  <2>2. \A e \in Entry : seq[e] = 0 /\ 0..0 - 1 = {}  OBVIOUS
  <2>3. stored = {} /\ freed = {}  OBVIOUS
  <2>4. \A e \in Entry, s \in Slot : buffer[e][s] \notin Copy  BY Constants
  <2>5. SeqSound  BY <2>1, <2>2, <2>3 DEF SeqSound
  <2>6. QED  BY <2>1, <2>3, <2>4, <2>5
             DEF Data, InTurn, SlotsSound, PtrSound, FreedSound, Reachable, CleanSound
<1>5. MisuseExplained  BY DEF MisuseExplained, NoFault
<1>6. QED  BY <1>1, <1>2, <1>3, <1>4, <1>5, Parts DEF Control

(* find_tx returns an entry of the bucket, or there is none.               *)
LEMMA FindOne ==
  ASSUME Types, BucketsSound, NEW n \in Enc
  PROVE  /\ Find(n) = None => bucket[Hash(n)] = <<>>
         /\ Find(n) # None => /\ Find(n) \in Entry /\ life[Find(n)] = "ready"
                              /\ Hash(key[Find(n)]) = Hash(n)
         /\ \A e \in Entry : bucket[Hash(n)] = <<e>> => Find(n) = e
<1> DEFINE b == Hash(n)
           s == bucket[b]
<1>1. b \in 0..NBuckets - 1  BY Constants
<1>2. s \in Seq(Entry)  BY <1>1 DEF Types
<1>3. Len(s) \in Nat /\ DOMAIN s = 1..Len(s)  BY <1>2, LenProperties
<1>4. \A k \in DOMAIN s : life[s[k]] = "ready" /\ Hash(key[s[k]]) = b
  BY <1>1 DEF BucketsSound
<1>5. Find(n) = IF s = <<>> THEN None ELSE Last(s)  BY DEF Find
<1>6. \A e \in Entry : s = <<e>> => Find(n) = e  BY <1>5 DEF Last
<1> HIDE DEF b
<1>7. CASE s = <<>>  BY <1>5, <1>6, <1>7 DEF b
<1>8. CASE s # <<>>
  <2>1. Len(s) \in DOMAIN s
    <3>1. Len(s) # 0  BY <1>2, <1>8, EmptySeq
    <3>2. QED  BY <1>3, <3>1
  <2>2. Last(s) = s[Len(s)]  BY DEF Last
  <2> HIDE DEF s
  <2>3. s[Len(s)] \in Entry  BY <1>2, <1>3, <2>1, ElementOfSeq
  <2>4. Find(n) = s[Len(s)]  BY <1>5, <1>8, <2>2
  <2>5. None \notin Entry  BY Constants
  <2>6. QED  BY <1>4, <1>6, <2>1, <2>3, <2>4, <2>5 DEF b, s
<1>9. QED  BY <1>7, <1>8

(* A step that leaves numbers, slots and copies alone.                     *)
Same ==
  /\ seq' = seq /\ stored' = stored /\ freed' = freed /\ failed' = failed
  /\ met \subseteq met' /\ crossed \subseteq crossed'
  /\ \A e \in Entry, s \in Slot : buffer'[e][s] # buffer[e][s] =>
       buffer'[e][s] \notin Copy /\ \A p \in stored : p.entry # e
  /\ \A c \in Callers, e \in Entry :
       /\ Stores(c, e)' <=> Stores(c, e)
       /\ Frees(c, e)' <=> Frees(c, e)
       /\ Works(c, e) => num'[c] = num[c] /\ ptr'[c] = ptr[c]
  /\ \A p \in stored : ~Raced(p.entry)' =>
       (Swept(p) => Swept(p)') /\ (Current(p) /\ Swept(p)' => Swept(p))

LEMMA DataKeeps ==
  ASSUME Types, Data, Same PROVE Data'
<1>1. stored \subseteq Copy /\ freed \subseteq stored  BY DEF Types, TypeOK
<1>2. \A c \in Callers, e \in Entry : Works(c, e)' <=> Works(c, e)  BY DEF Same, Works
<1>3. \A c \in Callers, e \in Entry : Stores(c, e) => Works(c, e)  BY DEF Works
<1>4. \A c \in Callers, e \in Entry : Frees(c, e) => Works(c, e)  BY DEF Works
<1>5. \A p \in Copy : p.entry \in Entry  BY Copies
<1>6. \A e : ~Raced(e)' => ~Raced(e)  BY DEF Same, Raced
<1>7. \A e : e \notin crossed' => e \notin crossed  BY DEF Same
<1>8. \A p \in stored, s \in Slot : buffer'[p.entry][s] = buffer[p.entry][s]
  BY <1>1, <1>5 DEF Same
<1>9. \A p \in stored : Place(p.n) \in Slot  BY <1>1, Copies, Slots
<1>10. \A e \in Entry, s \in Slot : buffer'[e][s] \in Copy => buffer'[e][s] = buffer[e][s]
  BY DEF Same
<1>11. SeqSound'
  <2>1. seq' = seq /\ stored' = stored /\ failed' = failed  BY DEF Same
  <2>2. \A c \in Callers, e \in Entry : /\ Stores(c, e)' <=> Stores(c, e)
                                        /\ Works(c, e) => num'[c] = num[c]
    BY DEF Same
  <2>3. QED  BY <1>2, <1>3, <2>1, <2>2 DEF Data, SeqSound
<1>12. InTurn'
  <2>1. stored' = stored  BY DEF Same
  <2>2. \A c \in Callers, e \in Entry : /\ Stores(c, e)' <=> Stores(c, e)
                                        /\ Works(c, e) => num'[c] = num[c]
    BY DEF Same
  <2>3. QED  BY <1>2, <1>3, <1>7, <2>1, <2>2 DEF Data, InTurn
<1>13. SlotsSound'
  <2>1. stored' = stored  BY DEF Same
  <2>2. QED  BY <1>7, <1>8, <1>9, <1>10, <2>1 DEF Data, SlotsSound
<1>14. PtrSound'
  <2>1. stored' = stored /\ failed' = failed  BY DEF Same
  <2>2. \A c \in Callers, e \in Entry : /\ Stores(c, e)' <=> Stores(c, e)
                                        /\ Frees(c, e)' <=> Frees(c, e)
                                        /\ Works(c, e) => num'[c] = num[c] /\ ptr'[c] = ptr[c]
    BY DEF Same
  <2>3. QED  BY <1>3, <1>4, <1>7, <2>1, <2>2 DEF Data, PtrSound
<1>15. FreedSound'
  <2>1. seq' = seq /\ freed' = freed /\ failed' = failed  BY DEF Same
  <2>2. \A c \in Callers, e \in Entry : Works(c, e) => num'[c] = num[c]  BY DEF Same
  <2>3. \A p \in freed : ~Raced(p.entry)' => (Swept(p) => Swept(p)')  BY <1>1 DEF Same
  <2>4. \A p \in freed : p.entry \in Entry  BY <1>1, <1>5
  <2>5. QED  BY <1>2, <1>6, <2>1, <2>2, <2>3, <2>4 DEF Data, FreedSound
<1>16. Reachable'
  <2>1. stored' = stored /\ freed' = freed  BY DEF Same
  <2>2. \A c \in Callers, e \in Entry : /\ Frees(c, e)' <=> Frees(c, e)
                                        /\ Works(c, e) => ptr'[c] = ptr[c]
    BY DEF Same
  <2>3. \A p \in stored : Current(p)' <=> Current(p)  BY DEF Same, Current
  <2>4. QED  BY <1>1, <1>4, <1>5, <1>7, <1>8, <1>9, <2>1, <2>2, <2>3 DEF Data, Reachable
<1>17. CleanSound'
  <2>1. stored' = stored /\ freed' = freed  BY DEF Same
  <2>2. \A p \in stored : Current(p)' <=> Current(p)  BY DEF Same, Current
  <2>3. QED  BY <1>6, <2>1, <2>2 DEF Data, CleanSound, Same
<1>18. QED  BY <1>11, <1>12, <1>13, <1>14, <1>15, <1>16, <1>17 DEF Data

(* Control: what each part depends on.                                     *)
LEMMA BucketsKeep ==
  ASSUME BucketsSound, UNCHANGED <<bucket, life, key>>, crossed \subseteq crossed'
  PROVE  BucketsSound' /\ \A e : Linked(e)' <=> Linked(e)
  BY DEF BucketsSound, Linked

LEMMA EntriesKeep ==
  ASSUME EntrySound, UNCHANGED <<bucket, life, key, cleanpc, victim>>, crossed \subseteq crossed'
  PROVE  EntrySound'
  BY DEF EntrySound, Linked

(* A context that works on an entry, or a handler that it ran into.        *)
LEMMA Known ==
  ASSUME SendInv, NEW e \in Entry
  PROVE  /\ life[e] = "unused" => cleanpc[e] = "idle"
         /\ \A x \in Context : ent[x] = e =>
              /\ life[e] # "unused"
              /\ cleanpc[e] # "idle" \/ life[e] = "freed" => Raced(e)
         /\ \A h \in Entry : victim[h] = e =>
              /\ life[e] # "unused" /\ key[e] \in Enc
              /\ h \notin crossed \/ e \notin crossed => e = h
<1>1. life[e] = "unused" => cleanpc[e] = "idle"
  BY DEF SendInv, EntrySound, UnusedSound, Raced
<1>2. \A x \in Context : ent[x] = e => life[e] # "unused"
  BY DEF SendInv, UnusedSound
<1>3. \A x \in Context : ent[x] = e => (cleanpc[e] # "idle" \/ life[e] = "freed" => Raced(e))
  BY DEF SendInv, LateFinders
<1>4. \A h \in Entry : victim[h] = e => life[e] # "unused" /\ key[e] \in Enc
  BY DEF SendInv, UnusedSound, Types, TypeOK
<1>5. \A h \in Entry : victim[h] = e /\ (h \notin crossed \/ e \notin crossed) => e = h
  BY Constants DEF SendInv, EntrySound
<1>6. QED  BY <1>1, <1>2, <1>3, <1>4, <1>5

----------------------------------------------------------------------------
(* Finding an entry, in vmac_tx or for a DACK.                             *)
LEMMA FindKeeps ==
  ASSUME SendInv, fault = NoFault, NEW x \in Context, NEW n \in Enc, NEW p,
         FindFor(x, n, p), pc[x] = "idle",
         \/ x \in Callers /\ p = IF Find(n) = None THEN "add" ELSE "touch"
         \/ x = "dack" /\ p = "seq" /\ Find(n) # None,
         UNCHANGED <<entries, buffers, armed, cleanup, fault>>
  PROVE  SendInv'
<1> USE DEF entries, buffers, cleanup
<1>1. Types /\ BucketsSound /\ EntrySound /\ UnusedSound /\ ContextSound /\ LateFinders /\ Data
  BY Parts DEF Control
<1>2. /\ Find(n) = None \/ (Find(n) \in Entry /\ life[Find(n)] = "ready")
  BY <1>1, FindOne
<1>3. /\ pc \in [Context -> {"idle", "add", "touch", "number", "store", "free", "seq", "walk", "copy"}]
      /\ ent \in [Context -> Entry \cup {None}] /\ enc \in [Context -> Enc \cup {None}]
  BY <1>1 DEF Types, TypeOK
<1>4. /\ pc' = [pc EXCEPT ![x] = p] /\ ent' = [ent EXCEPT ![x] = Find(n)]
      /\ enc' = [enc EXCEPT ![x] = n]
      /\ met' = met \cup {e \in {Find(n)} \ {None} : Cleaned(e)}
      /\ UNCHANGED <<num, ptr, dseq, crossed, failed>>
      /\ UNCHANGED <<bucket, life, key, seq, buffer, freed, stored, armed, cleanpc, victim, i, fault>>
  BY DEF FindFor
<1>5. p \in {"add", "touch", "seq"}  OBVIOUS
<1>6. /\ \A y \in Context : y # x => pc'[y] = pc[y] /\ ent'[y] = ent[y] /\ enc'[y] = enc[y]
      /\ pc'[x] = p /\ ent'[x] = Find(n) /\ enc'[x] = n
  BY <1>3, <1>4
<1>7. met \subseteq met' /\ met' \subseteq met \cup ({Find(n)} \ {None})  BY <1>4
<1>8. Types'
  <2>1. /\ pc' \in [Context -> {"idle", "add", "touch", "number", "store", "free", "seq", "walk", "copy"}]
        /\ ent' \in [Context -> Entry \cup {None}] /\ enc' \in [Context -> Enc \cup {None}]
        /\ (met \cup crossed \cup failed)' \subseteq Entry
    <3>1. pc' \in [Context -> {"idle", "add", "touch", "number", "store", "free", "seq", "walk", "copy"}]
      BY <1>3, <1>4, <1>5
    <3>2. ent' \in [Context -> Entry \cup {None}] /\ enc' \in [Context -> Enc \cup {None}]
      BY <1>2, <1>3, <1>4
    <3>3. (met \cup crossed \cup failed)' \subseteq Entry
      BY <1>1, <1>2, <1>4, <1>7 DEF Types
    <3>4. QED  BY <3>1, <3>2, <3>3
  <2>2. QED  BY <1>1, <1>4, <2>1 DEF Types, TypeOK
<1>9. BucketsSound' /\ EntrySound'
  BY <1>1, <1>4, BucketsKeep, EntriesKeep
<1>10. UnusedSound'
  <2>1. \A e \in Entry : life[e] = "unused" => e # Find(n)  BY <1>2, Constants
  <2>2. QED  BY <1>1, <1>4, <1>6, <1>7, <2>1 DEF UnusedSound, Raced
<1>11. ContextSound'
  <2>1. pc'[x] \in {"idle", "add"} <=> ent'[x] = None
    BY <1>2, <1>6, Constants
  <2>2. ptr[x] \notin Copy /\ (x \in Callers => ptr[x] = NULL)
    <3>1. CASE x \in Callers  BY <1>1, <3>1, Constants DEF ContextSound
    <3>2. CASE x = "dack"
      <4>1. ent[x] = None  BY <1>1 DEF ContextSound
      <4>2. ptr[x] \in Copy => ptr[x].entry = None  BY <1>1, <4>1 DEF ContextSound
      <4>3. QED  BY <3>2, <4>2, Copies, Constants
    <3>3. QED  BY <3>1, <3>2, Constants
  <2>3. \A c \in Callers : /\ pc'[c] \in {"idle", "add", "touch", "number", "store", "free"}
                           /\ pc'[c] # "free" => ptr'[c] = NULL
    BY <1>1, <1>4, <1>6, <2>2, Constants DEF ContextSound
  <2>4. pc'["dack"] \in {"idle", "seq", "walk", "copy"} /\ (pc'["dack"] = "copy" => ptr'["dack"] \in Copy)
    BY <1>1, <1>4, <1>6, Constants DEF ContextSound
  <2>5. \A y \in Context :
          /\ pc'[y] \in {"idle", "add"} <=> ent'[y] = None
          /\ pc'[y] # "idle" => enc'[y] \in Enc
          /\ ptr'[y] \in Copy => ptr'[y] \in stored' /\ ptr'[y].entry = ent'[y]
    BY <1>1, <1>4, <1>6, <2>1, <2>2 DEF ContextSound
  <2>6. QED  BY <2>3, <2>4, <2>5 DEF ContextSound
<1>12. LateFinders'
  <2>1. SUFFICES ASSUME NEW e \in Entry, cleanpc[e] # "idle" \/ life[e] = "freed", ~Raced(e)'
                 PROVE  ~armed[e] /\ \A y \in Context : ent'[y] # e
    BY <1>4 DEF LateFinders
  <2>2. ~Raced(e)  BY <1>4, <1>7, <2>1 DEF Raced
  <2>3. ~armed[e] /\ \A y \in Context : ent[y] # e  BY <1>1, <2>1, <2>2 DEF LateFinders
  <2>4. Find(n) # e
    <3>1. SUFFICES ASSUME Find(n) = e PROVE FALSE  OBVIOUS
    <3>2. cleanpc[e] # "idle"  BY <1>2, <2>1, <3>1, Constants
    <3>3. e \in met'  BY <1>4, <3>1, <3>2, Constants DEF Cleaned
    <3>4. QED  BY <2>1, <3>3 DEF Raced
  <2>5. QED  BY <1>6, <2>3, <2>4
<1>13. Data'
  <2>1. \A c \in Callers, e \in Entry :
          /\ Stores(c, e)' <=> Stores(c, e)
          /\ Frees(c, e)' <=> Frees(c, e)
    BY <1>5, <1>6, Constants DEF Stores, Frees
  <2>2. \A e \in stored : Swept(e)' <=> Swept(e)  BY <1>4 DEF Swept
  <2>3. Same  BY <1>4, <1>7, <2>1, <2>2 DEF Same
  <2>4. QED  BY <1>1, <2>3, DataKeeps
<1>14. MisuseExplained'  BY <1>4, NoFaultStep
<1>15. QED  BY <1>8, <1>9, <1>10, <1>11, <1>12, <1>13, <1>14 DEF SendInv, Data

LEMMA TxFindKeeps ==
  ASSUME SendInv, fault = NoFault, NEW c \in Callers, NEW n \in Enc, TxFind(c, n) PROVE SendInv'
  BY FindKeeps, Constants DEF TxFind

LEMMA DackFindKeeps ==
  ASSUME SendInv, fault = NoFault, NEW n \in Enc, DackFind(n) PROVE SendInv'
  BY FindKeeps, Constants DEF DackFind

----------------------------------------------------------------------------
(* vmac_tx.                                                                *)
LEMMA TxAddKeeps ==
  ASSUME SendInv, fault = NoFault, NEW c \in Callers, TxAdd(c) PROVE SendInv'
<1> USE DEF entries, buffers, cleanup
<1>1. Types /\ BucketsSound /\ EntrySound /\ UnusedSound /\ ContextSound /\ LateFinders /\ Data
  BY Parts DEF Control
<1>2. CASE Fault("null", None, 0)
  <2>1. Explained("null", None, 0)  BY DEF Explained
  <2>2. QED  BY <1>2, <2>1, FaultStep
<1>3. ASSUME NEW e \in Entry, NEW slots \in [Slot -> {NULL, Junk}],
             pc[c] = "add", life[e] = "unused",
             life' = [life EXCEPT ![e] = "ready"],
             key' = [key EXCEPT ![e] = enc[c]],
             buffer' = [buffer EXCEPT ![e] = slots],
             bucket' = [bucket EXCEPT ![Hash(enc[c])] = <<e>> \o @],
             crossed' = IF bucket[Hash(enc[c])] = <<>> THEN crossed
                        ELSE crossed \cup {e} \cup ToSet(bucket[Hash(enc[c])]),
             ent' = [ent EXCEPT ![c] = e],
             pc' = [pc EXCEPT ![c] = "touch"],
             UNCHANGED <<seq, freed, stored, armed, enc, num, ptr, dseq, cleanpc, victim, i,
                         frames, fault, met, failed>>
      PROVE  SendInv'
  <2> DEFINE h == Hash(enc[c])
             s == bucket[h]
             u == <<e>> \o s
  <2>1. c \in Context /\ enc[c] \in Enc /\ h \in 0..NBuckets - 1
    BY <1>1, <1>3, Constants DEF ContextSound
  <2>2. s \in Seq(Entry) /\ Len(s) \in Nat /\ DOMAIN s = 1..Len(s)
    BY <1>1, <2>1, LenProperties DEF Types
  <2>3. /\ u \in Seq(Entry) /\ Len(u) = Len(s) + 1 /\ u[1] = e
        /\ \A k \in 1..Len(s) : u[k + 1] = s[k]
    <3>1. <<e>> \in Seq(Entry) /\ Len(<<e>>) = 1 /\ <<e>>[1] = e  OBVIOUS
    <3> DEFINE t == <<e>>
    <3> HIDE DEF t, s
    <3>2. /\ t \o s \in Seq(Entry) /\ Len(t \o s) = Len(t) + Len(s)
          /\ \A k \in 1..Len(t) + Len(s) :
               (t \o s)[k] = IF k <= Len(t) THEN t[k] ELSE s[k - Len(t)]
      BY <2>2, <3>1, ConcatProperties DEF t
    <3>3. \A k \in 1..Len(s) : k + 1 \in 1..1 + Len(s) /\ ~(k + 1 <= 1) /\ k + 1 - 1 = k
      BY <2>2
    <3>4. 1 \in 1..1 + Len(s) /\ 1 <= 1 /\ 1 + Len(s) = Len(s) + 1  BY <2>2
    <3>5. Len(t) = 1 /\ t[1] = e  BY <3>1 DEF t
    <3>6. QED  BY <3>2, <3>3, <3>4, <3>5 DEF t
  <2>4. DOMAIN u = 1..Len(s) + 1  BY <2>3, LenProperties
  <2>5. \A k \in DOMAIN u : \/ k = 1 /\ u[k] = e
                            \/ k - 1 \in 1..Len(s) /\ u[k] = s[k - 1]
    <3>1. \A k \in 1..Len(s) + 1 : k = 1 \/ (k - 1 \in 1..Len(s) /\ (k - 1) + 1 = k)  BY <2>2
    <3> HIDE DEF u, s
    <3>2. QED  BY <2>3, <2>4, <3>1
  <2>6. /\ bucket'[h] = u /\ \A b \in 0..NBuckets - 1 : b # h => bucket'[b] = bucket[b]
        /\ bucket' \in [0..NBuckets - 1 -> Seq(Entry)]
    <3> HIDE DEF h
    <3>1. bucket \in [0..NBuckets - 1 -> Seq(Entry)]  BY <1>1 DEF Types
    <3>2. bucket' = [bucket EXCEPT ![h] = u]  BY <1>3 DEF h
    <3> HIDE DEF u
    <3>3. QED  BY <2>1, <2>3, <3>1, <3>2
  <2>7. /\ life'[e] = "ready" /\ \A d \in Entry : d # e => life'[d] = life[d] /\ key'[d] = key[d]
        /\ key'[e] = enc[c] /\ life' \in [Entry -> {"unused", "ready", "freed"}]
        /\ key' \in [Entry -> Enc \cup {None}]
    BY <1>1, <1>3, <2>1 DEF Types, TypeOK
  <2>8. \A k \in DOMAIN s : s[k] \in Entry /\ life[s[k]] = "ready" /\ Hash(key[s[k]]) = h
                            /\ s[k] # e /\ (s # <<>> => s[k] \in crossed')
    <3> HIDE DEF h
    <3>1. \A k \in DOMAIN s : life[s[k]] = "ready" /\ Hash(key[s[k]]) = h
      BY <1>1, <2>1 DEF BucketsSound
    <3>2. \A k \in DOMAIN s : s[k] \in ToSet(s)  BY DEF ToSet
    <3>3. s # <<>> => crossed' = crossed \cup {e} \cup ToSet(s)  BY <1>3 DEF h
    <3> HIDE DEF s
    <3>4. \A k \in DOMAIN s : s[k] \in Entry  BY <2>2, ElementOfSeq
    <3>5. QED  BY <1>3, <3>1, <3>2, <3>3, <3>4
  <2>9. /\ crossed \subseteq crossed' /\ (s # <<>> => e \in crossed')
        /\ \A d \in crossed' : d \in crossed \/ d = e \/ \E k \in DOMAIN s : d = s[k]
    <3>1. \A d \in ToSet(s) : \E k \in DOMAIN s : d = s[k]  BY DEF ToSet
    <3>2. crossed' = IF s = <<>> THEN crossed ELSE crossed \cup {e} \cup ToSet(s)  BY <1>3
    <3> HIDE DEF s
    <3>3. QED  BY <3>1, <3>2
  <2>10. /\ ent'[c] = e /\ pc'[c] = "touch"
         /\ \A x \in Context : x # c => ent'[x] = ent[x] /\ pc'[x] = pc[x]
         /\ ent' \in [Context -> Entry \cup {None}]
         /\ pc' \in [Context -> {"idle", "add", "touch", "number", "store", "free",
                                 "seq", "walk", "copy"}]
    BY <1>1, <1>3, <2>1 DEF Types, TypeOK
  <2>11. /\ ~armed[e] /\ ~Raced(e) /\ e \notin failed /\ seq[e] = 0 /\ cleanpc[e] = "idle"
         /\ \A x \in Context : ent[x] # e
         /\ \A g \in Entry : victim[g] # e
         /\ \A p \in stored : p.entry # e
    BY <1>1, <1>3, Known DEF UnusedSound
  <2>12. \A b \in 0..NBuckets - 1 : \A k \in DOMAIN bucket[b] : life[bucket[b][k]] = "ready"
    BY <1>1 DEF BucketsSound
  <2>13. \A d \in Entry : Linked(d)' => Linked(d) \/ d = e
    <3> SUFFICES ASSUME NEW d \in Entry, NEW b \in 0..NBuckets - 1, NEW k \in DOMAIN bucket'[b],
                        bucket'[b][k] = d, d # e
                 PROVE  Linked(d)
      BY DEF Linked
    <3> HIDE DEF h, s, u
    <3>1. CASE b # h  BY <2>6, <3>1 DEF Linked
    <3>2. CASE b = h
      <4>1. k - 1 \in DOMAIN s /\ s[k - 1] = d  BY <2>2, <2>5, <2>6, <3>2
      <4>2. QED  BY <2>1, <4>1 DEF Linked, s
    <3>3. QED  BY <3>1, <3>2
  <2>14. Types'
    <3>1. \A d \in Entry : life'[d] # "unused" => key'[d] \in Enc
      BY <1>1, <2>1, <2>7 DEF Types, TypeOK
    <3>2. buffer' \in [Entry -> [Slot -> Copy \cup {NULL, Junk}]]
      <4>1. buffer \in [Entry -> [Slot -> Copy \cup {NULL, Junk}]]  BY <1>1 DEF Types, TypeOK
      <4>2. slots \in [Slot -> Copy \cup {NULL, Junk}]  BY <1>3
      <4>3. QED  BY <1>3, <4>1, <4>2
    <3>3. \A b \in DOMAIN bucket' : bucket'[b] \in Seq(Entry)  BY <2>6
    <3>4. (met \cup crossed \cup failed)' \subseteq Entry
      <4>1. crossed \subseteq Entry  BY <1>1 DEF Types
      <4>2. \A k \in DOMAIN s : s[k] \in Entry  BY <2>8
      <4> HIDE DEF s
      <4>3. \A d \in crossed' : d \in Entry  BY <1>3, <2>9, <4>1, <4>2
      <4>4. QED  BY <1>1, <1>3, <4>3 DEF Types
    <3> HIDE DEF h, s, u
    <3>5. QED  BY <1>1, <1>3, <2>6, <2>7, <2>10, <3>1, <3>2, <3>3, <3>4 DEF Types, TypeOK
  <2>15. BucketsSound'
    <3> SUFFICES ASSUME NEW b \in 0..NBuckets - 1
                 PROVE  /\ \A k \in DOMAIN bucket'[b] :
                             /\ life'[bucket'[b][k]] = "ready"
                             /\ Hash(key'[bucket'[b][k]]) = b
                             /\ bucket'[b][k] \notin crossed' => Len(bucket'[b]) = 1
                        /\ \A k, l \in DOMAIN bucket'[b] : bucket'[b][k] = bucket'[b][l] => k = l
      BY DEF BucketsSound, Hash
    <3>1. CASE b # h
      <4>1. bucket'[b] = bucket[b]  BY <2>6, <3>1
      <4>2. \A k \in DOMAIN bucket[b] : bucket[b][k] \in Entry
        <5> DEFINE t == bucket[b]
        <5>1. t \in Seq(Entry)  BY <1>1 DEF Types
        <5> HIDE DEF t
        <5>2. \A k \in DOMAIN t : t[k] \in Entry  BY <5>1, ElementOfSeq, LenProperties
        <5>3. QED  BY <5>2 DEF t
      <4>3. \A k \in DOMAIN bucket[b] : bucket[b][k] # e  BY <1>3, <2>12
      <4> HIDE DEF h, s, u
      <4>4. QED  BY <1>1, <2>7, <2>9, <4>1, <4>2, <4>3 DEF BucketsSound
    <3>2. CASE b = h
      <4>1. bucket'[b] = u  BY <2>6, <3>2
      <4>2. \A k, l \in DOMAIN s : s[k] = s[l] => k = l  BY <1>1, <2>1 DEF BucketsSound
      <4>3. \A k, l \in DOMAIN u : u[k] = u[l] => k = l
        <5> HIDE DEF u, s
        <5>1. SUFFICES ASSUME NEW k \in DOMAIN u, NEW l \in DOMAIN u, u[k] = u[l] PROVE k = l
          OBVIOUS
        <5>2. \A m \in 1..Len(s) : s[m] # e  BY <2>2, <2>8
        <5>3. k \in Nat /\ l \in Nat  BY <2>2, <2>4
        <5>4. (k = 1 /\ l = 1) \/ k - 1 = l - 1  BY <2>2, <2>5, <4>2, <5>1, <5>2
        <5>5. QED  BY <5>3, <5>4
      <4>4. s = <<>> => Len(u) = 1  BY <2>3
      <4>5. \A k \in DOMAIN u : /\ life'[u[k]] = "ready" /\ Hash(key'[u[k]]) = h
                                /\ u[k] \notin crossed' => Len(u) = 1
        <5> HIDE DEF u, s
        <5>1. Hash(key'[e]) = h  BY <2>7
        <5> HIDE DEF h
        <5>2. SUFFICES ASSUME NEW k \in DOMAIN u
                       PROVE  /\ life'[u[k]] = "ready" /\ Hash(key'[u[k]]) = h
                              /\ u[k] \notin crossed' => Len(u) = 1
          OBVIOUS
        <5>3. CASE k = 1 /\ u[k] = e  BY <2>7, <2>9, <4>4, <5>1, <5>3
        <5>4. CASE k - 1 \in 1..Len(s) /\ u[k] = s[k - 1]
          <6>1. k - 1 \in DOMAIN s  BY <2>2, <5>4
          <6>2. QED  BY <2>7, <2>8, <4>4, <5>4, <6>1
        <5>5. QED  BY <2>5, <5>3, <5>4
      <4> HIDE DEF u, s, h
      <4>6. QED  BY <3>2, <4>1, <4>3, <4>5
    <3>3. QED  BY <3>1, <3>2
  <2>16. EntrySound'
    <3>1. \A g \in Entry : /\ victim'[g] # None <=> cleanpc'[g] \in {"slots", "free"}
                           /\ cleanpc'[g] = "free" => ~Linked(victim[g])'
      <4>1. \A g \in Entry : victim[g] # None => victim[g] \in Entry /\ victim[g] # e
        BY <1>1, <2>11 DEF Types, TypeOK
      <4>2. QED  BY <1>1, <1>3, <2>13, <4>1 DEF EntrySound
    <3>2. \A g \in Entry : victim'[g] # None /\ (g \notin crossed' \/ victim'[g] \notin crossed')
            => victim'[g] = g
      BY <1>1, <1>3, <2>9 DEF EntrySound
    <3>3. \A d \in Entry \ crossed' : cleanpc'[d] # "idle" => life'[d] = "ready"
      BY <1>1, <1>3, <2>7, <2>9 DEF EntrySound
    <3>4. ASSUME NEW d \in Entry \ crossed', life'[d] = "ready", cleanpc'[d] # "free"
          PROVE  bucket'[Hash(key'[d])] = <<d>>
      <4>1. CASE d = e
        <5>1. s = <<>>  BY <2>9, <3>4, <4>1
        <5>2. u = <<e>>  BY <5>1, <2>3, <2>2
        <5>3. QED  BY <2>6, <2>7, <4>1, <5>2
      <4>2. CASE d # e
        <5>1. d \in Entry \ crossed /\ life[d] = "ready" /\ cleanpc[d] # "free"
          BY <1>3, <2>7, <2>9, <3>4, <4>2
        <5>2. bucket[Hash(key[d])] = <<d>>  BY <1>1, <5>1 DEF EntrySound
        <5>3. key'[d] = key[d] /\ Hash(key[d]) \in 0..NBuckets - 1
          BY <1>1, <2>7, <4>2, <5>1, Constants DEF Types, TypeOK
        <5>4. Hash(key[d]) # h
          <6>1. SUFFICES ASSUME s = <<d>> PROVE FALSE  BY <5>2
          <6>2. 1 \in DOMAIN s /\ s[1] = d /\ s # <<>>  BY <6>1
          <6> HIDE DEF s
          <6>3. QED  BY <2>8, <3>4, <6>2
        <5> HIDE DEF h, s, u
        <5>5. QED  BY <2>6, <5>2, <5>3, <5>4
      <4>3. QED  BY <4>1, <4>2
    <3> HIDE DEF h, s, u
    <3>5. QED  BY <3>1, <3>2, <3>3, <3>4 DEF EntrySound
  <2>17. UnusedSound'
    <3>1. SUFFICES ASSUME NEW d \in Entry, life'[d] = "unused"
                   PROVE  /\ ~armed'[d] /\ ~Raced(d)' /\ d \notin failed' /\ seq'[d] = 0
                          /\ \A x \in Context : ent'[x] # d
                          /\ \A g \in Entry : victim'[g] # d
                          /\ \A p \in stored' : p.entry # d
      BY DEF UnusedSound
    <3>2. d # e /\ life[d] = "unused"  BY <2>7, <3>1
    <3>3. d \notin crossed'  BY <1>1, <2>8, <2>9, <3>2 DEF UnusedSound, Raced
    <3> HIDE DEF h, s, u
    <3>4. QED  BY <1>1, <1>3, <2>10, <3>2, <3>3 DEF UnusedSound, Raced
  <2>18. ContextSound'
    <3>1. \A x \in Context : ptr[x] \in Copy => x # c
      BY <1>1, <1>3, <2>1, Constants DEF ContextSound
    <3>2. c # "dack"  BY Constants
    <3>3. \A b \in Callers : /\ pc'[b] \in {"idle", "add", "touch", "number", "store", "free"}
                             /\ pc'[b] # "free" => ptr'[b] = NULL
      BY <1>1, <1>3, <2>10, Constants DEF ContextSound
    <3>4. pc'["dack"] \in {"idle", "seq", "walk", "copy"} /\ (pc'["dack"] = "copy" => ptr'["dack"] \in Copy)
      BY <1>1, <1>3, <2>10, <3>2, Constants DEF ContextSound
    <3>5. \A y \in Context :
            /\ pc'[y] \in {"idle", "add"} <=> ent'[y] = None
            /\ pc'[y] # "idle" => enc'[y] \in Enc
            /\ ptr'[y] \in Copy => ptr'[y] \in stored' /\ ptr'[y].entry = ent'[y]
      BY <1>1, <1>3, <2>1, <2>10, <3>1, Constants DEF ContextSound
    <3>6. QED  BY <3>3, <3>4, <3>5 DEF ContextSound
  <2>19. LateFinders'
    <3>1. SUFFICES ASSUME NEW d \in Entry, cleanpc'[d] # "idle" \/ life'[d] = "freed", ~Raced(d)'
                   PROVE  ~armed'[d] /\ \A x \in Context : ent'[x] # d
      BY DEF LateFinders
    <3>2. d # e  BY <1>3, <2>7, <2>11, <3>1
    <3>3. cleanpc[d] # "idle" \/ life[d] = "freed"  BY <1>3, <2>7, <3>1, <3>2
    <3>4. ~Raced(d)  BY <1>3, <2>9, <3>1 DEF Raced
    <3>5. QED  BY <1>1, <1>3, <2>10, <3>2, <3>3, <3>4 DEF LateFinders
  <2>20. Data'
    <3>1. \A b \in Callers, d \in Entry : /\ Stores(b, d)' <=> Stores(b, d)
                                          /\ Frees(b, d)' <=> Frees(b, d)
      BY <1>3, <2>10, Constants DEF Stores, Frees
    <3>2. \A p \in stored : Swept(p)' <=> Swept(p)
      <4>1. \A p \in stored : p.entry \in Entry  BY <1>1, Copies DEF Types, TypeOK
      <4>2. QED  BY <1>3, <2>7, <2>11, <4>1 DEF Swept
    <3>3. \A d \in Entry, t \in Slot : buffer'[d][t] # buffer[d][t] =>
            buffer'[d][t] \notin Copy /\ \A p \in stored : p.entry # d
      BY <1>1, <1>3, <2>11, Constants DEF Types, TypeOK
    <3> HIDE DEF h, s, u
    <3>4. Same  BY <1>3, <2>9, <3>1, <3>2, <3>3 DEF Same
    <3>5. QED  BY <1>1, <3>4, DataKeeps
  <2>21. MisuseExplained'  BY <1>3, NoFaultStep
  <2>22. QED  BY <2>14, <2>15, <2>16, <2>17, <2>18, <2>19, <2>20, <2>21 DEF SendInv, Data
<1>4. QED  BY <1>2, <1>3 DEF TxAdd

(* A context between its first and its last step has its entry, and one    *)
(* that was freed under it was raced.                                      *)
LEMMA Holding ==
  ASSUME SendInv, NEW x \in Context, pc[x] \notin {"idle", "add"}
  PROVE  ent[x] \in Entry /\ (Gone(x) => Raced(ent[x])) /\ life[ent[x]] # "unused"
<1>1. ent[x] \in Entry
  <2>1. ContextSound /\ Types  BY DEF SendInv
  <2>2. ent[x] # None  BY <2>1 DEF ContextSound
  <2>3. QED  BY <2>1, <2>2 DEF Types, TypeOK
<1>2. QED  BY <1>1, Known DEF Gone

LEMMA TxTouchKeeps ==
  ASSUME SendInv, fault = NoFault, NEW c \in Callers, TxTouch(c) PROVE SendInv'
<1> USE DEF entries, buffers, cleanup, history
<1>1. Types /\ BucketsSound /\ EntrySound /\ UnusedSound /\ ContextSound /\ LateFinders /\ Data
  BY Parts DEF Control
<1> DEFINE e == ent[c]
<1>2. /\ c \in Context /\ pc[c] = "touch" /\ e \in Entry /\ (Gone(c) => Raced(e))
      /\ life[e] # "unused" /\ c # "dack"
  BY Holding, Constants DEF TxTouch
<1>3. CASE Gone(c)
  <2>1. Explained("freed", e, 0)  BY <1>2, <1>3 DEF Explained
  <2>2. QED  BY <1>3, <2>1, FaultStep DEF TxTouch
<1>4. CASE ~Gone(c)
  <2>1. /\ armed' = [armed EXCEPT ![e] = TRUE] /\ pc' = [pc EXCEPT ![c] = "number"]
        /\ UNCHANGED <<bucket, life, key, seq, buffer, freed, stored, ent, enc, num, ptr, dseq,
                       cleanpc, victim, i, fault, met, crossed, failed>>
    BY <1>4 DEF TxTouch
  <2>2. /\ pc'[c] = "number" /\ \A x \in Context : x # c => pc'[x] = pc[x]
        /\ \A d \in Entry : d # e => armed'[d] = armed[d]
    BY <1>1, <1>2, <2>1 DEF Types, TypeOK
  <2> HIDE DEF e
  <2>3. Types'  BY <1>1, <1>2, <2>1 DEF Types, TypeOK
  <2>4. BucketsSound' /\ EntrySound'  BY <1>1, <2>1, BucketsKeep, EntriesKeep
  <2>5. UnusedSound'  BY <1>1, <1>2, <2>1, <2>2 DEF UnusedSound, Raced
  <2>6. ContextSound'  BY <1>1, <1>2, <2>1, <2>2, Constants DEF ContextSound
  <2>7. LateFinders'
    <3>1. \A d \in Entry : (cleanpc[d] # "idle" \/ life[d] = "freed") /\ ~Raced(d) => d # e
      BY <1>1, <1>2 DEF LateFinders, e
    <3>2. QED  BY <1>1, <2>1, <2>2, <3>1 DEF LateFinders, Raced
  <2>8. Data'
    <3>1. \A b \in Callers, d \in Entry : /\ Stores(b, d)' <=> Stores(b, d)
                                          /\ Frees(b, d)' <=> Frees(b, d)
      BY <1>2, <2>1, <2>2, Constants DEF Stores, Frees
    <3>2. \A p \in stored : Swept(p)' <=> Swept(p)  BY <2>1 DEF Swept
    <3>3. Same  BY <2>1, <3>1, <3>2 DEF Same
    <3>4. QED  BY <1>1, <3>3, DataKeeps
  <2>9. MisuseExplained'  BY <2>1, NoFaultStep
  <2>10. QED  BY <2>3, <2>4, <2>5, <2>6, <2>7, <2>8, <2>9 DEF SendInv, Data
<1>5. QED  BY <1>3, <1>4

LEMMA TxNumberKeeps ==
  ASSUME SendInv, fault = NoFault, NEW c \in Callers, TxNumber(c) PROVE SendInv'
<1> USE DEF entries, buffers, cleanup, history
<1>1. Types /\ BucketsSound /\ EntrySound /\ UnusedSound /\ ContextSound /\ LateFinders /\ Data
  BY Parts DEF Control
<1>0. ent[c] \in Entry  BY Holding, Constants DEF TxNumber
<1> SUFFICES ASSUME NEW e \in Entry, ent[c] = e PROVE SendInv'  BY <1>0
<1>2. /\ c \in Context /\ pc[c] = "number" /\ (Gone(c) => Raced(e))
      /\ life[e] # "unused" /\ c # "dack"
  BY Holding, Constants DEF TxNumber
<1>3. CASE Gone(c)
  <2>1. Explained("freed", e, 0)  BY <1>2, <1>3 DEF Explained
  <2>2. QED  BY <1>3, <2>1, FaultStep DEF TxNumber
<1>4. CASE ~Gone(c)
  <2>1. /\ num' = [num EXCEPT ![c] = seq[e]] /\ seq' = [seq EXCEPT ![e] = @ + 1]
        /\ pc' = [pc EXCEPT ![c] = "store"]
        /\ crossed' = crossed \cup {d \in {e} : \E b \in Callers :
               ent[b] = e /\ pc[b] = "store" /\ Place(seq[e]) = Place(num[b])}
        /\ UNCHANGED <<bucket, life, key, buffer, freed, stored, armed, ent, enc, ptr, dseq,
                       cleanpc, victim, i, fault, met, failed>>
    BY <1>4 DEF TxNumber
  <2>2. /\ pc'[c] = "store" /\ \A x \in Context : x # c => pc'[x] = pc[x] /\ num'[x] = num[x]
        /\ num'[c] = seq[e] /\ seq'[e] = seq[e] + 1 /\ seq[e] \in Nat
        /\ \A d \in Entry : d # e => seq'[d] = seq[d]
        /\ seq' \in [Entry -> Nat] /\ num' \in [Context -> Nat]
        /\ num \in [Context -> Nat] /\ seq \in [Entry -> Nat]
    BY <1>1, <1>2, <2>1 DEF Types, TypeOK
  <2>3. /\ crossed \subseteq crossed' /\ \A d \in crossed' : d \in crossed \/ d = e
        /\ e \notin crossed' => \A b \in Callers : Stores(b, e) => Place(seq[e]) # Place(num[b])
    BY <2>1 DEF Stores
  <2>4. stored \subseteq Copy /\ freed \subseteq stored  BY <1>1 DEF Types, TypeOK
  <2>5. ent'[c] = e /\ ent' = ent  BY <2>1
  <2>6. Types'
    <3>1. (met \cup crossed \cup failed)' \subseteq Entry  BY <1>1, <1>2, <2>1, <2>3 DEF Types
    <3>2. QED  BY <1>1, <1>2, <2>1, <2>2, <3>1 DEF Types, TypeOK
  <2>7. BucketsSound' /\ EntrySound'  BY <1>1, <2>1, <2>3, BucketsKeep, EntriesKeep
  <2>8. UnusedSound'  BY <1>1, <1>2, <2>1, <2>2, <2>3 DEF UnusedSound, Raced
  <2>9. ContextSound'  BY <1>1, <1>2, <2>1, <2>2, Constants DEF ContextSound
  <2>10. LateFinders'  BY <1>1, <2>1, <2>3 DEF LateFinders, Raced
  <2>11. /\ \A b \in Callers, d \in Entry : Frees(b, d)' <=> Frees(b, d)
         /\ \A b \in Callers, d \in Entry : Stores(b, d)' <=> (Stores(b, d) \/ (b = c /\ d = e))
         /\ \A d \in Entry : ~Works(c, d)
         /\ Stores(c, e)'
    <3>1. \A b \in Callers : b \in Context  BY Constants
    <3>2. \A b \in Callers : b # c => pc'[b] = pc[b]  BY <2>2, <3>1
    <3>3. \A b \in Callers, d \in Entry : Frees(b, d)' <=> Frees(b, d)
      BY <1>2, <2>2, <2>5, <3>2 DEF Frees
    <3>4. \A b \in Callers, d \in Entry : Stores(b, d)' <=> (Stores(b, d) \/ (b = c /\ d = e))
      BY <1>2, <2>2, <2>5, <3>2 DEF Stores
    <3>5. \A d \in Entry : ~Works(c, d)  BY <1>2 DEF Works, Stores, Frees
    <3>6. Stores(c, e)'  BY <2>2, <2>5 DEF Stores
    <3>7. QED  BY <3>3, <3>4, <3>5, <3>6
  <2>12. \A b \in Callers, d \in Entry : Works(b, d)' <=> (Works(b, d) \/ (b = c /\ d = e))
    BY <2>11 DEF Works
  <2>13. \A b \in Callers, d \in Entry : Works(b, d) => b # c /\ num'[b] = num[b] /\ num[b] \in Nat
    BY <2>2, <2>11, Constants
  <2>14. /\ \A b \in Callers, d \in Entry : Stores(b, d) => Works(b, d)
         /\ \A b \in Callers, d \in Entry : Frees(b, d) => Works(b, d)
    BY DEF Works
  <2>15. SeqSound  BY <1>1 DEF Data
  <2>16. SeqSound'
    <3> SUFFICES ASSUME NEW d \in Entry
                 PROVE  /\ \A b \in Callers : Works(b, d)' => num'[b] < seq'[d]
                        /\ \A a, b \in Callers : Works(a, d)' /\ Works(b, d)' /\ num'[a] = num'[b] => a = b
                        /\ \A p \in stored' : p.entry = d => p.n < seq'[d]
                        /\ d \notin failed' => \A n \in 0..seq'[d] - 1 :
                             \/ [entry |-> d, n |-> n] \in stored'
                             \/ \E b \in Callers : Stores(b, d)' /\ num'[b] = n
      BY DEF SeqSound
    <3>1. CASE d # e
      <4>1. /\ seq'[d] = seq[d] /\ stored' = stored /\ failed' = failed
            /\ \A b \in Callers : (Works(b, d)' <=> Works(b, d)) /\ (Stores(b, d)' <=> Stores(b, d))
        BY <2>1, <2>2, <2>11, <2>12, <3>1
      <4>2. QED  BY <2>13, <2>14, <2>15, <4>1 DEF SeqSound
    <3>2. CASE d = e
      <4>1. \A b \in Callers : Works(b, e) => num[b] < seq[e]  BY <1>2, <2>15 DEF SeqSound
      <4>2. \A b \in Callers : Works(b, e)' => num'[b] < seq'[e]
        <5>1. \A b \in Callers : Works(b, e) => num[b] < seq[e] + 1  BY <2>2, <2>13, <4>1
        <5>2. seq[e] < seq[e] + 1  BY <2>2
        <5>3. QED  BY <1>2, <2>2, <2>12, <2>13, <5>1, <5>2
      <4>3. ASSUME NEW a \in Callers, NEW b \in Callers, Works(a, e)', Works(b, e)', num'[a] = num'[b]
            PROVE  a = b
        <5>1. \A x \in Callers : Works(x, e) => num'[x] # seq[e]
          <6>1. \A x \in Callers : Works(x, e) => num[x] # seq[e]  BY <2>2, <2>13, <4>1
          <6>2. QED  BY <2>13, <6>1
        <5>2. \A x, y \in Callers : Works(x, e) /\ Works(y, e) /\ num[x] = num[y] => x = y
          BY <1>2, <2>15 DEF SeqSound
        <5>3. (a = c \/ Works(a, e)) /\ (b = c \/ Works(b, e))  BY <1>2, <2>12, <4>3
        <5>4. QED  BY <2>2, <2>13, <4>3, <5>1, <5>2, <5>3
      <4>4. \A p \in stored' : p.entry = e => p.n < seq'[e]
        <5>1. \A p \in stored : p.entry = e => p.n < seq[e] /\ p.n \in Nat
          BY <1>2, <2>4, <2>15, Copies DEF SeqSound
        <5>2. QED  BY <2>1, <2>2, <5>1
      <4>5. ASSUME e \notin failed', NEW n \in 0..seq'[e] - 1
            PROVE  [entry |-> e, n |-> n] \in stored' \/ \E b \in Callers : Stores(b, e)' /\ num'[b] = n
        <5>1. n = seq[e] \/ n \in 0..seq[e] - 1  BY <2>2, <4>5
        <5>2. CASE n = seq[e]  BY <2>2, <2>11, <5>2
        <5>3. CASE n \in 0..seq[e] - 1
          <6>1. [entry |-> e, n |-> n] \in stored \/ \E b \in Callers : Stores(b, e) /\ num[b] = n
            BY <1>2, <2>1, <2>15, <4>5, <5>3 DEF SeqSound
          <6>2. QED  BY <1>2, <2>1, <2>11, <2>13, <2>14, <6>1
        <5>4. QED  BY <5>1, <5>2, <5>3
      <4>6. QED  BY <3>2, <4>2, <4>3, <4>4, <4>5
    <3>3. QED  BY <3>1, <3>2
  <2>17. InTurn'
    <3> SUFFICES ASSUME NEW d \in Entry, d \notin crossed', NEW b \in Callers, Stores(b, d)'
                 PROVE  /\ \A a \in Callers : Works(a, d)' /\ num'[b] < num'[a]
                             => Place(num'[b]) # Place(num'[a])
                        /\ \A p \in stored' : p.entry = d /\ Place(p.n) = Place(num'[b])
                             => p.n < num'[b]
      BY DEF InTurn
    <3>1. d \notin crossed /\ InTurn  BY <1>1, <2>3 DEF Data
    <3>2. CASE b = c
      <4>1. d = e  BY <2>11, <2>14, <3>2
      <4>2. \A a \in Callers : Works(a, e)' => ~(num'[c] < num'[a])
        <5>1. \A a \in Callers : Works(a, e) => num[a] < seq[e] /\ num[a] \in Nat
          BY <1>2, <2>13, <2>15 DEF SeqSound
        <5>2. \A a \in Callers : Works(a, e) => ~(seq[e] < num'[a])  BY <2>2, <2>13, <5>1
        <5>3. ~(seq[e] < seq[e])  BY <2>2
        <5>4. QED  BY <1>2, <2>2, <2>12, <5>2, <5>3
      <4>3. \A p \in stored' : p.entry = e => p.n < num'[c]
        BY <1>2, <2>1, <2>2, <2>15 DEF SeqSound
      <4>4. QED  BY <3>2, <4>1, <4>2, <4>3
    <3>3. CASE b # c
      <4>1. Stores(b, d) /\ Works(b, d)  BY <2>11, <2>14, <3>3
      <4>2. num'[b] = num[b] /\ num[b] \in Nat  BY <2>13, <4>1
      <4>3. /\ \A a \in Callers : Works(a, d) /\ num[b] < num[a]
                 => Place(num[b]) # Place(num[a])
            /\ \A p \in stored : p.entry = d /\ Place(p.n) = Place(num[b]) => p.n < num[b]
        BY <3>1, <4>1 DEF InTurn
      <4>4. d = e => Place(num[b]) # Place(seq[e])  BY <2>3, <4>1
      <4>5. ASSUME NEW a \in Callers, Works(a, d)', num'[b] < num'[a]
            PROVE  Place(num'[b]) # Place(num'[a])
        <5>1. CASE a = c /\ d = e  BY <2>2, <4>2, <4>4, <5>1
        <5>2. CASE Works(a, d)  BY <2>13, <4>2, <4>3, <4>5, <5>2
        <5>3. QED  BY <2>12, <4>5, <5>1, <5>2
      <4>6. QED  BY <2>1, <4>2, <4>3, <4>5
    <3>4. QED  BY <3>2, <3>3
  <2>18. SlotsSound'
    <3>1. buffer' = buffer /\ stored' = stored  BY <2>1
    <3>2. SlotsSound  BY <1>1 DEF Data
    <3>3. \A p \in stored : p.entry \notin crossed' => p.entry \notin crossed  BY <2>3
    <3>4. QED  BY <3>1, <3>2, <3>3 DEF SlotsSound
  <2>19. PtrSound'
    <3> SUFFICES ASSUME NEW d \in Entry, d \notin crossed', NEW b \in Callers, Frees(b, d)'
                 PROVE  /\ ptr'[b] = Junk =>
                             /\ [entry |-> d, n |-> Place(num'[b])] \notin stored'
                             /\ \A a \in Callers : Stores(a, d)' => num'[a] # Place(num'[b])
                        /\ ptr'[b] \in Copy =>
                             /\ ptr'[b].n + WINDOW_TX <= num'[b] /\ Value(num'[b]) >= WINDOW_TX
                             /\ d \notin failed' => ptr'[b].n + WINDOW_TX = num'[b]
      BY DEF PtrSound
    <3>1. d \notin crossed /\ PtrSound /\ Frees(b, d) /\ Works(b, d)
      BY <1>1, <2>3, <2>11, <2>14 DEF Data
    <3>2. num'[b] = num[b] /\ num[b] \in Nat /\ ptr' = ptr /\ stored' = stored /\ failed' = failed
      BY <2>1, <2>13, <3>1
    <3>3. d = e => seq[e] # Place(num[b])
      <4>1. d = e => num[b] < seq[e]  BY <2>15, <3>1 DEF SeqSound
      <4>2. Place(num[b]) <= num[b] /\ Place(num[b]) \in Nat  BY <3>2, Slots
      <4>3. QED  BY <2>2, <3>2, <4>1, <4>2
    <3>4. ptr[b] = Junk => \A a \in Callers : Stores(a, d)' => num'[a] # Place(num[b])
      <4>1. ptr[b] = Junk => \A a \in Callers : Stores(a, d) => num[a] # Place(num[b])
        BY <3>1 DEF PtrSound
      <4>2. QED  BY <2>2, <2>11, <2>13, <2>14, <3>3, <4>1
    <3>5. QED  BY <3>1, <3>2, <3>4 DEF PtrSound
  <2>20. FreedSound'
    <3> SUFFICES ASSUME NEW p \in freed, ~Raced(p.entry)'
                 PROVE  \/ /\ p.n + WINDOW_TX < seq'[p.entry]
                           /\ p.entry \notin failed' =>
                                /\ Value(p.n) + WINDOW_TX < SEQ_MOD
                                /\ \A b \in Callers : Works(b, p.entry)' => num'[b] # p.n + WINDOW_TX
                        \/ Swept(p)'
      BY <2>1 DEF FreedSound
    <3> DEFINE d == p.entry
    <3>1. d \in Entry /\ p.n \in Nat /\ ~Raced(d) /\ FreedSound /\ failed' = failed
      BY <1>1, <2>1, <2>3, <2>4, Copies DEF Data, Raced
    <3>2. Swept(p)' <=> Swept(p)  BY <2>1 DEF Swept
    <3>3. CASE /\ p.n + WINDOW_TX < seq[d]
               /\ d \notin failed => /\ Value(p.n) + WINDOW_TX < SEQ_MOD
                                    /\ \A b \in Callers : Works(b, d) => num[b] # p.n + WINDOW_TX
      <4> HIDE DEF d
      <4>1. p.n + WINDOW_TX < seq'[d]
        BY <2>2, <3>1, <3>3, Constants
      <4>2. d = e => p.n + WINDOW_TX # seq[e]  BY <2>2, <3>1, <3>3, Constants
      <4>3. d \notin failed => \A b \in Callers : Works(b, d)' => num'[b] # p.n + WINDOW_TX
        BY <2>2, <2>12, <2>13, <3>1, <3>3, <4>2
      <4>4. QED  BY <3>1, <3>3, <4>1, <4>3 DEF d
    <3>4. QED  BY <3>1, <3>2, <3>3 DEF FreedSound
  <2>21. Reachable' /\ CleanSound'
    <3>1. /\ stored' = stored /\ freed' = freed /\ buffer' = buffer /\ ptr' = ptr
          /\ \A p \in stored : p.entry \in Entry /\ (Swept(p)' <=> Swept(p))
          /\ \A p \in stored : p.entry \notin crossed' => p.entry \notin crossed
          /\ \A p \in stored : ~Raced(p.entry)' => ~Raced(p.entry)
      BY <2>1, <2>3, <2>4, Copies DEF Swept, Raced
    <3>2. Reachable /\ CleanSound  BY <1>1 DEF Data
    <3>3. ASSUME NEW p \in stored, Current(p)' PROVE Current(p)
      <4> SUFFICES ASSUME NEW d \in Entry, p.entry = d PROVE Current(p)  BY <3>1
      <4>1. p.n \in Nat /\ p.n >= Start(seq'[d])  BY <2>4, <3>3, Copies DEF Current
      <4>2. CASE d # e  BY <2>2, <4>1, <4>2 DEF Current
      <4>3. CASE d = e
        <5>1. Start(seq[e]) <= Start(seq[e] + 1)  BY <2>2, Values
        <5>2. Start(seq[e]) \in Nat /\ Start(seq[e] + 1) \in Nat  BY <2>2, Values
        <5>3. p.n >= Start(seq[e] + 1)  BY <2>2, <4>1, <4>3
        <5>4. p.n >= Start(seq[e])  BY <4>1, <5>1, <5>2, <5>3
        <5>5. QED  BY <4>3, <5>4 DEF Current
      <4>4. QED  BY <4>2, <4>3
    <3>4. Reachable'  BY <2>11, <3>1, <3>2, <3>3 DEF Reachable
    <3>5. CleanSound'  BY <3>1, <3>2, <3>3 DEF CleanSound
    <3>6. QED  BY <3>4, <3>5
  <2>22. MisuseExplained'  BY <2>1, NoFaultStep
  <2>23. QED  BY <2>6, <2>7, <2>8, <2>9, <2>10, <2>16, <2>17, <2>18, <2>19, <2>20, <2>21, <2>22 DEF SendInv
<1>5. QED  BY <1>3, <1>4

(* The copy that a frame takes out of its slot is WINDOW_TX frames old, or *)
(* older where a copy failed.                                              *)
LEMMA Overwritten ==
  ASSUME SendInv, NEW c \in Callers, NEW e \in Entry, e \notin crossed, Stores(c, e),
         buffer[e][Place(num[c])] \in Copy
  PROVE  LET q == buffer[e][Place(num[c])] IN
         /\ q \in stored /\ q.entry = e /\ q.n \in Nat /\ q.n < num[c]
         /\ Value(num[c]) >= WINDOW_TX =>
              /\ q.n + WINDOW_TX <= num[c]
              /\ e \notin failed => q.n + WINDOW_TX = num[c]
<1> DEFINE at == Place(num[c])
           q == buffer[e][at]
<1>1. Types /\ SeqSound /\ InTurn /\ SlotsSound  BY DEF SendInv
<1>2. num[c] \in Nat /\ at \in Slot  BY <1>1, Constants, Slots DEF Types
<1>3. q \in stored /\ q.entry = e /\ Place(q.n) = at /\ q.n \in Nat
  BY <1>1, <1>2, Copies DEF SlotsSound
<1>4. q.n < num[c]  BY <1>1, <1>3 DEF InTurn
<1> HIDE DEF q
<1>5. Value(num[c]) >= WINDOW_TX => q.n + WINDOW_TX <= num[c]  BY <1>2, <1>3, <1>4, Slots
<1>6. ASSUME Value(num[c]) >= WINDOW_TX, e \notin failed, q.n + WINDOW_TX # num[c] PROVE FALSE
  <2> DEFINE m == num[c] - WINDOW_TX
  <2>1. m \in Nat /\ q.n < m /\ m < num[c] /\ m + WINDOW_TX = num[c]
    BY <1>2, <1>3, <1>5, <1>6, Constants
  <2>2. num[c] < seq[e] /\ seq[e] \in Nat  BY <1>1 DEF SeqSound, Works, Types, TypeOK
  <2> HIDE DEF m
  <2>3. m \in 0..seq[e] - 1  BY <1>2, <2>1, <2>2
  <2>4. [entry |-> e, n |-> m] \in stored \/ \E b \in Callers : Stores(b, e) /\ num[b] = m
    BY <1>1, <1>6, <2>3 DEF SeqSound
  <2>5. Place(m) = at  BY <1>2, <1>6, Slots DEF m
  <2>6. CASE [entry |-> e, n |-> m] \in stored
    <3>1. m <= buffer[e][Place(m)].n  BY <1>1, <2>6 DEF SlotsSound
    <3>2. m <= q.n  BY <2>5, <3>1 DEF q
    <3>3. QED  BY <1>3, <2>1, <3>2
  <2>7. CASE \E b \in Callers : Stores(b, e) /\ num[b] = m
    <3>1. PICK b \in Callers : Stores(b, e) /\ num[b] = m  BY <2>7
    <3>2. Place(m) # Place(num[c])  BY <1>1, <2>1, <3>1 DEF InTurn, Works
    <3>3. QED  BY <2>5, <3>2
  <2>8. QED  BY <2>4, <2>6, <2>7
<1>7. QED  BY <1>3, <1>4, <1>5, <1>6 DEF q

LEMMA TxStoreKeeps ==
  ASSUME SendInv, fault = NoFault, NEW c \in Callers, TxStore(c) PROVE SendInv'
<1> USE DEF entries, buffers, cleanup, history
<1>1. Types /\ BucketsSound /\ EntrySound /\ UnusedSound /\ ContextSound /\ LateFinders /\ Data
  BY Parts DEF Control
<1>0. ent[c] \in Entry  BY Holding, Constants DEF TxStore
<1> SUFFICES ASSUME NEW e \in Entry, ent[c] = e PROVE SendInv'  BY <1>0
<1>2. /\ c \in Context /\ pc[c] = "store" /\ (Gone(c) => Raced(e))
      /\ life[e] # "unused" /\ c # "dack" /\ num[c] \in Nat
  BY <1>1, Holding, Constants DEF TxStore, Types
<1>3. CASE Gone(c)
  <2>1. Explained("freed", e, num[c])  BY <1>2, <1>3 DEF Explained
  <2>2. QED  BY <1>3, <2>1, FaultStep DEF TxStore
<1>4. CASE ~Gone(c)
  <2> SUFFICES ASSUME NEW m \in Nat, num[c] = m PROVE SendInv'  BY <1>2
  <2> DEFINE at == Place(m)
             new == [entry |-> e, n |-> m]
  <2>1. /\ ptr' = [ptr EXCEPT ![c] = IF Value(m) >= WINDOW_TX THEN buffer[e][at] ELSE NULL]
        /\ \/ /\ buffer' = [buffer EXCEPT ![e][at] = new]
              /\ stored' = stored \cup {new}
              /\ failed' = failed
           \/ failed' = failed \cup {e} /\ buffer' = buffer /\ stored' = stored
        /\ pc' = [pc EXCEPT ![c] = "free"]
        /\ UNCHANGED <<bucket, life, key, seq, freed, armed, ent, enc, num, dseq, cleanpc, victim, i,
                       fault, met, crossed>>
    BY <1>4 DEF TxStore
  <2>2. at \in Slot /\ at \in Nat /\ new \in Copy /\ Place(at) = at /\ at <= m
        /\ (Value(m) >= WINDOW_TX => at < m)
    BY Slots DEF Copy
  <2>3. new.entry = e /\ new.n = m  OBVIOUS
  <2>4. /\ stored \subseteq Copy /\ freed \subseteq stored
        /\ buffer \in [Entry -> [Slot -> Copy \cup {NULL, Junk}]]
        /\ ptr \in [Context -> Copy \cup {NULL, Junk}]
    BY <1>1 DEF Types, TypeOK
  <2>5. at = Place(m)  OBVIOUS
  <2>6. \A d \in Entry, n \in Nat : [entry |-> d, n |-> n] = new => d = e /\ n = m  BY <2>3
  <2> HIDE DEF at, new
  <2>7. /\ pc'[c] = "free" /\ \A x \in Context : x # c => pc'[x] = pc[x] /\ ptr'[x] = ptr[x]
        /\ ptr'[c] = IF Value(m) >= WINDOW_TX THEN buffer[e][at] ELSE NULL
    <3>1. pc \in [Context -> {"idle", "add", "touch", "number", "store", "free", "seq", "walk", "copy"}]
      BY <1>1 DEF Types, TypeOK
    <3>2. QED  BY <1>2, <2>1, <2>4, <3>1
  <2>8. /\ stored \subseteq stored' /\ failed \subseteq failed' /\ failed' \subseteq failed \cup {e}
        /\ stored' \subseteq stored \cup {new}
    BY <2>1
  <2>9. \A d \in Entry, s \in Slot : buffer'[d][s] = buffer[d][s] \/
          (d = e /\ s = at /\ new \in stored' /\ buffer'[e][at] = new)
    BY <2>1, <2>2, <2>4
  <2>10. /\ \A b \in Callers, d \in Entry : Stores(b, d)' <=> (Stores(b, d) /\ b # c)
         /\ \A b \in Callers, d \in Entry : Frees(b, d)' <=> (Frees(b, d) \/ (b = c /\ d = e))
         /\ Stores(c, e) /\ (\A d \in Entry : ~Frees(c, d))
    <3>1. \A b \in Callers : b # c => pc'[b] = pc[b]  BY <2>7, Constants
    <3>2. ent' = ent  BY <2>1
    <3>3. \A b \in Callers, d \in Entry : Stores(b, d)' <=> (Stores(b, d) /\ b # c)
      BY <2>7, <3>1, <3>2 DEF Stores
    <3>4. \A b \in Callers, d \in Entry : Frees(b, d)' <=> (Frees(b, d) \/ (b = c /\ d = e))
      BY <1>2, <2>7, <3>1, <3>2 DEF Frees
    <3>5. QED  BY <1>2, <3>3, <3>4 DEF Stores, Frees
  <2>11. \A b \in Callers, d \in Entry : Works(b, d)' <=> Works(b, d)
    <3>1. \A d \in Entry : Stores(c, d) => d = e  BY DEF Stores
    <3>2. QED  BY <2>10, <3>1 DEF Works
  <2>12. /\ \A b \in Callers, d \in Entry : Stores(b, d) => Works(b, d)
         /\ \A b \in Callers, d \in Entry : Frees(b, d) => Works(b, d)
         /\ Works(c, e) /\ \A d \in Entry : Works(c, d) => d = e
    BY <2>10 DEF Works, Stores, Frees
  <2>13. SeqSound /\ InTurn /\ SlotsSound /\ PtrSound /\ FreedSound /\ Reachable /\ CleanSound
    BY <1>1 DEF Data
  <2>14. num' = num /\ seq' = seq /\ crossed' = crossed /\ freed' = freed /\ \A b \in Callers : num[b] \in Nat
    BY <1>1, <2>1, Constants DEF Types
  (* what the slot had *)
  <2>15. e \notin crossed /\ buffer[e][at] \in Copy =>
           LET q == buffer[e][at] IN
           /\ q \in stored /\ q.entry = e /\ q.n \in Nat /\ q.n < m
           /\ Value(m) >= WINDOW_TX => /\ q.n + WINDOW_TX <= m
                                       /\ e \notin failed => q.n + WINDOW_TX = m
    BY <2>10, <2>5, Overwritten
  <2>16. Types'
    <3>1. buffer' \in [Entry -> [Slot -> Copy \cup {NULL, Junk}]]
      BY <2>1, <2>2, <2>4
    <3>2. ptr' \in [Context -> Copy \cup {NULL, Junk}]  BY <2>1, <2>2, <2>4
    <3>3. (freed \subseteq stored /\ stored \subseteq Copy)'  BY <2>2, <2>4, <2>8, <2>14
    <3>4. (met \cup crossed \cup failed)' \subseteq Entry  BY <1>1, <2>1, <2>8 DEF Types
    <3>5. QED  BY <1>1, <1>2, <2>1, <3>1, <3>2, <3>3, <3>4 DEF Types, TypeOK
  <2>17. BucketsSound' /\ EntrySound'  BY <1>1, <2>1, BucketsKeep, EntriesKeep
  <2>18. UnusedSound'
    <3>1. SUFFICES ASSUME NEW d \in Entry, life[d] = "unused"
                   PROVE  d \notin failed' /\ \A p \in stored' : p.entry # d
      BY <1>1, <2>1 DEF UnusedSound, Raced
    <3>2. d # e  BY <1>2, <3>1
    <3>3. d \notin failed /\ \A p \in stored : p.entry # d  BY <1>1, <3>1 DEF UnusedSound
    <3>4. QED  BY <2>3, <2>8, <3>2, <3>3
  <2>19. ContextSound'
    <3>1. ptr'[c] \in Copy => ptr'[c] \in stored /\ ptr'[c].entry = e
      BY <2>2, <2>7, <2>13, Constants DEF SlotsSound
    <3>2. \A b \in Callers : /\ pc'[b] \in {"idle", "add", "touch", "number", "store", "free"}
                             /\ pc'[b] # "free" => ptr'[b] = NULL
      BY <1>1, <2>7, Constants DEF ContextSound
    <3>3. pc'["dack"] \in {"idle", "seq", "walk", "copy"} /\ (pc'["dack"] = "copy" => ptr'["dack"] \in Copy)
      BY <1>1, <1>2, <2>7, Constants DEF ContextSound
    <3>4. \A y \in Context :
            /\ pc'[y] \in {"idle", "add"} <=> ent'[y] = None
            /\ pc'[y] # "idle" => enc'[y] \in Enc
            /\ ptr'[y] \in Copy => ptr'[y] \in stored' /\ ptr'[y].entry = ent'[y]
      <4>1. ent' = ent /\ enc' = enc  BY <2>1
      <4>2. SUFFICES ASSUME NEW y \in Context
                     PROVE  /\ pc'[y] \in {"idle", "add"} <=> ent[y] = None
                            /\ pc'[y] # "idle" => enc[y] \in Enc
                            /\ ptr'[y] \in Copy => ptr'[y] \in stored' /\ ptr'[y].entry = ent[y]
        BY <4>1
      <4>3. CASE y = c  BY <1>1, <1>2, <2>7, <2>8, <3>1, <4>3, Constants DEF ContextSound
      <4>4. CASE y # c  BY <1>1, <2>7, <2>8, <4>4 DEF ContextSound
      <4>5. QED  BY <4>3, <4>4
    <3>5. QED  BY <3>2, <3>3, <3>4 DEF ContextSound
  <2>20. LateFinders'  BY <1>1, <2>1 DEF LateFinders, Raced
  <2>21. SeqSound'
    <3> SUFFICES ASSUME NEW d \in Entry
                 PROVE  /\ \A b \in Callers : Works(b, d) => num[b] < seq[d]
                        /\ \A a, b \in Callers : Works(a, d) /\ Works(b, d) /\ num[a] = num[b] => a = b
                        /\ \A p \in stored' : p.entry = d => p.n < seq[d]
                        /\ d \notin failed' => \A n \in 0..seq[d] - 1 :
                             \/ [entry |-> d, n |-> n] \in stored'
                             \/ \E b \in Callers : Stores(b, d)' /\ num[b] = n
      BY <2>11, <2>14 DEF SeqSound
    <3>1. \A p \in stored' : p.entry = d => p.n < seq[d]
      BY <2>3, <2>8, <2>12, <2>13 DEF SeqSound
    <3>2. ASSUME d \notin failed', NEW n \in 0..seq[d] - 1
          PROVE  [entry |-> d, n |-> n] \in stored' \/ \E b \in Callers : Stores(b, d)' /\ num[b] = n
      <4>1. [entry |-> d, n |-> n] \in stored \/ \E b \in Callers : Stores(b, d) /\ num[b] = n
        BY <2>8, <2>13, <3>2 DEF SeqSound
      <4>2. CASE [entry |-> d, n |-> n] \in stored  BY <2>8, <4>2
      <4>3. CASE \E b \in Callers : Stores(b, d) /\ num[b] = n
        <5>1. PICK b \in Callers : Stores(b, d) /\ num[b] = n  BY <4>3
        <5>2. CASE b = c
          <6>1. d = e /\ n = m  BY <2>12, <5>1, <5>2
          <6>2. e \notin failed'  BY <3>2, <6>1
          <6>3. stored' = stored \cup {new}  BY <2>1, <6>2
          <6>4. QED  BY <6>1, <6>3 DEF new
        <5>3. CASE b # c  BY <2>10, <5>1, <5>3
        <5>4. QED  BY <5>2, <5>3
      <4>4. QED  BY <4>1, <4>2, <4>3
    <3>3. QED  BY <2>13, <3>1, <3>2 DEF SeqSound
  <2>22. InTurn'
    <3> SUFFICES ASSUME NEW d \in Entry, d \notin crossed, NEW b \in Callers, Stores(b, d), b # c
                 PROVE  /\ \A a \in Callers : Works(a, d) /\ num[b] < num[a]
                             => Place(num[b]) # Place(num[a])
                        /\ \A p \in stored' : p.entry = d /\ Place(p.n) = Place(num[b])
                             => p.n < num[b]
      BY <2>10, <2>11, <2>14 DEF InTurn
    <3>1. /\ \A a \in Callers : Works(a, d) /\ num[b] < num[a]
               => Place(num[b]) # Place(num[a])
          /\ \A p \in stored : p.entry = d /\ Place(p.n) = Place(num[b]) => p.n < num[b]
      BY <2>13 DEF InTurn
    <3>2. d = e /\ Place(m) = Place(num[b]) => m < num[b]
      <4>1. SUFFICES ASSUME d = e, Place(m) = Place(num[b]) PROVE m < num[b]  OBVIOUS
      <4>2. Works(b, e) /\ Works(c, e)  BY <2>12, <4>1
      <4>3. num[b] # m  BY <2>13, <4>2 DEF SeqSound
      <4>4. ~(num[b] < m)  BY <3>1, <4>1, <4>2
      <4>5. \A k, l \in Nat : k # l /\ ~(k < l) => l < k  OBVIOUS
      <4>6. QED  BY <2>14, <4>3, <4>4, <4>5
    <3>3. QED  BY <2>3, <2>8, <3>1, <3>2
  <2>23. SlotsSound'
    <3>1. ASSUME NEW d \in Entry, NEW s \in Slot, buffer'[d][s] \in Copy
          PROVE  buffer'[d][s] \in stored' /\ buffer'[d][s].entry = d /\ Place(buffer'[d][s].n) = s
      <4>1. CASE buffer'[d][s] = buffer[d][s]  BY <2>8, <2>13, <3>1, <4>1 DEF SlotsSound
      <4>2. CASE d = e /\ s = at /\ new \in stored' /\ buffer'[e][at] = new  BY <2>3, <2>5, <4>2
      <4>3. QED  BY <2>9, <4>1, <4>2
    <3>2. ASSUME NEW p \in stored'
          PROVE  /\ buffer'[p.entry][Place(p.n)] \in Copy
                 /\ p.entry \notin crossed => p.n <= buffer'[p.entry][Place(p.n)].n
      <4>1. p \in Copy /\ p.entry \in Entry /\ p.n \in Nat /\ Place(p.n) \in Slot
        BY <2>2, <2>4, <2>8, Copies, Slots
      <4>2. CASE p.entry = e /\ Place(p.n) = at /\ buffer'[e][at] = new
        <5>1. buffer'[p.entry][Place(p.n)] = new  BY <4>2
        <5>2. p \in stored /\ e \notin crossed => p.n < m
          BY <2>5, <2>10, <2>13, <4>2 DEF InTurn
        <5>3. p = new \/ p \in stored  BY <2>8
        <5>4. p.n < m => p.n <= m  BY <4>1
        <5>5. m <= m  OBVIOUS
        <5>6. QED  BY <2>2, <2>3, <4>2, <5>1, <5>2, <5>3, <5>4, <5>5
      <4>3. CASE buffer'[p.entry][Place(p.n)] = buffer[p.entry][Place(p.n)] /\ p \in stored
        BY <2>13, <4>3 DEF SlotsSound
      <4>4. p = new => p \in stored \/ (p.entry = e /\ Place(p.n) = at /\ buffer'[e][at] = new)
        BY <2>1, <2>2, <2>3, <2>4, <2>5
      <4>5. QED  BY <2>8, <2>9, <4>1, <4>2, <4>3, <4>4
    <3>3. QED  BY <2>14, <3>1, <3>2 DEF SlotsSound
  <2>24. PtrSound'
    <3> SUFFICES ASSUME NEW d \in Entry, d \notin crossed, NEW b \in Callers, Frees(b, d)'
                 PROVE  /\ ptr'[b] = Junk =>
                             /\ [entry |-> d, n |-> Place(num[b])] \notin stored'
                             /\ \A a \in Callers : Stores(a, d)' => num[a] # Place(num[b])
                        /\ ptr'[b] \in Copy =>
                             /\ ptr'[b].n + WINDOW_TX <= num[b] /\ Value(num[b]) >= WINDOW_TX
                             /\ d \notin failed' => ptr'[b].n + WINDOW_TX = num[b]
      BY <2>14 DEF PtrSound
    <3>1. CASE b # c
      <4>1. Frees(b, d) /\ ptr'[b] = ptr[b]  BY <2>7, <2>10, <3>1, Constants
      <4>2. /\ ptr[b] = Junk =>
                 /\ [entry |-> d, n |-> Place(num[b])] \notin stored
                 /\ \A a \in Callers : Stores(a, d) => num[a] # Place(num[b])
            /\ ptr[b] \in Copy =>
                 /\ ptr[b].n + WINDOW_TX <= num[b] /\ Value(num[b]) >= WINDOW_TX
                 /\ d \notin failed => ptr[b].n + WINDOW_TX = num[b]
        BY <2>13, <4>1 DEF PtrSound
      <4>3. ptr[b] = Junk => [entry |-> d, n |-> Place(num[b])] # new
        <5>1. Place(num[b]) \in Nat  BY <2>14, Slots
        <5>2. QED  BY <2>6, <2>10, <4>2, <5>1
      <4>4. QED  BY <2>8, <2>10, <4>1, <4>2, <4>3
    <3>2. CASE b = c
      <4>1. d = e /\ num[b] = m /\ ptr'[b] = IF Value(m) >= WINDOW_TX THEN buffer[e][at] ELSE NULL
        BY <2>7, <2>10, <3>2
      <4>2. ASSUME ptr'[b] = Junk
            PROVE  /\ [entry |-> e, n |-> at] \notin stored'
                   /\ \A a \in Callers : Stores(a, e)' => num[a] # at
        <5>1. Value(m) >= WINDOW_TX /\ buffer[e][at] = Junk /\ buffer[e][at] \notin Copy
          BY <4>1, <4>2, Constants
        <5>2. [entry |-> e, n |-> at] \notin stored
          <6>1. SUFFICES ASSUME NEW p \in stored, p.entry = e, p.n = at PROVE FALSE
            OBVIOUS
          <6>2. QED  BY <2>2, <2>13, <5>1, <6>1 DEF SlotsSound
        <5>3. at < m  BY <2>2, <5>1
        <5>4. [entry |-> e, n |-> at] # new  BY <2>2, <2>6, <5>3
        <5>5. ASSUME NEW a \in Callers, Stores(a, e)', num[a] = at PROVE FALSE
          <6>1. Stores(a, e)  BY <2>10, <5>5
          <6>2. Place(num[a]) # Place(m)
            BY <2>12, <2>13, <3>2, <4>1, <5>3, <5>5, <6>1 DEF InTurn
          <6>3. QED  BY <2>2, <2>5, <5>5, <6>2
        <5>6. QED  BY <2>8, <5>2, <5>4, <5>5
      <4>3. ASSUME ptr'[b] \in Copy
            PROVE  /\ ptr'[b].n + WINDOW_TX <= m /\ Value(m) >= WINDOW_TX
                   /\ e \notin failed' => ptr'[b].n + WINDOW_TX = m
        <5>1. ptr'[b] = buffer[e][at] /\ Value(m) >= WINDOW_TX  BY <4>1, <4>3, Constants
        <5>2. QED  BY <2>8, <2>15, <4>1, <4>3, <5>1
      <4>4. QED  BY <2>5, <4>1, <4>2, <4>3
    <3>3. QED  BY <3>1, <3>2
  <2>25. FreedSound'
    <3>1. \A p \in freed : p.entry \in Entry  BY <2>4, Copies
    <3>2. \A p \in freed : (Swept(p)' <=> Swept(p)) /\ (Raced(p.entry)' <=> Raced(p.entry))
      BY <2>1 DEF Swept, Raced
    <3>3. QED  BY <2>8, <2>11, <2>13, <2>14, <3>1, <3>2 DEF FreedSound
  <2>26. Reachable'
    <3>0. \A p : Current(p)' <=> Current(p)  BY <2>14 DEF Current
    <3> SUFFICES ASSUME NEW p \in stored', p.entry \notin crossed, p \notin freed, Current(p),
                        buffer'[p.entry][Place(p.n)] # p
                 PROVE  \E b \in Callers : Frees(b, p.entry)' /\ ptr'[b] = p
      BY <2>14, <3>0 DEF Reachable
    <3>1. p \in Copy /\ p.entry \in Entry /\ p.n \in Nat /\ Place(p.n) \in Slot
      BY <2>2, <2>4, <2>8, Copies, Slots
    <3>2. p \in stored
      <4>1. p = new => p \in stored \/ buffer'[e][at] = new  BY <2>1, <2>2, <2>4
      <4>2. QED  BY <2>3, <2>5, <2>8, <4>1
    <3>3. CASE buffer[p.entry][Place(p.n)] = p
      <4>1. p.entry = e /\ Place(p.n) = at  BY <2>9, <3>1, <3>3
      <4>2. buffer[e][at] = p  BY <3>3, <4>1
      <4>3. p.n < m /\ m < seq[e] /\ seq[e] \in Nat
        BY <1>1, <2>12, <2>13, <2>15, <4>1, <4>2, <3>1 DEF SeqSound, Types, TypeOK
      <4>4. Value(m) >= WINDOW_TX
        <5>1. Start(seq[e]) <= p.n  BY <4>1 DEF Current
        <5>2. Place(p.n) = Place(m)  BY <2>5, <4>1
        <5>3. QED  BY <3>1, <4>3, <5>1, <5>2, Slots
      <4>5. ptr'[c] = p  BY <2>7, <4>2, <4>4
      <4>6. QED  BY <2>10, <4>1, <4>5
    <3>4. CASE \E b \in Callers : Frees(b, p.entry) /\ ptr[b] = p
      <4>1. PICK b \in Callers : Frees(b, p.entry) /\ ptr[b] = p  BY <3>4
      <4>2. b # c  BY <2>10, <3>1, <4>1
      <4>3. ptr'[b] = p  BY <2>7, <4>1, <4>2, Constants
      <4>4. QED  BY <2>10, <3>1, <4>1, <4>3
    <3>5. QED  BY <2>13, <3>2, <3>3, <3>4 DEF Reachable
  <2>27. CleanSound'
    <3> SUFFICES ASSUME NEW p \in stored', ~Raced(p.entry), Current(p), Swept(p) PROVE p \in freed
      BY <2>1 DEF CleanSound, Raced, Swept, Current
    <3>1. CASE p \in stored  BY <2>13, <3>1 DEF CleanSound
    <3>2. CASE p = new
      <4>1. ~Raced(e) /\ (cleanpc[e] # "idle" \/ life[e] = "freed")  BY <2>3, <3>2 DEF Swept
      <4>2. ent[c] # e  BY <1>1, <1>2, <4>1 DEF LateFinders
      <4>3. QED  BY <4>2
    <3>3. QED  BY <2>8, <3>1, <3>2
  <2>28. MisuseExplained'  BY <2>1, NoFaultStep
  <2>29. QED  BY <2>16, <2>17, <2>18, <2>19, <2>20, <2>21, <2>22, <2>23, <2>24, <2>25, <2>26, <2>27, <2>28
              DEF SendInv
<1>5. QED  BY <1>3, <1>4

LEMMA TxFreeKeeps ==
  ASSUME SendInv, fault = NoFault, NEW c \in Callers, TxFree(c) PROVE SendInv'
<1> USE DEF entries, buffers, cleanup, history
<1>1. Types /\ BucketsSound /\ EntrySound /\ UnusedSound /\ ContextSound /\ LateFinders /\ Data
  BY Parts DEF Control
<1>0. ent[c] \in Entry  BY Holding, Constants DEF TxFree
<1> SUFFICES ASSUME NEW e \in Entry, ent[c] = e PROVE SendInv'  BY <1>0
<1>2. /\ c \in Context /\ pc[c] = "free" /\ (Gone(c) => Raced(e)) /\ Frees(c, e)
      /\ life[e] # "unused" /\ c # "dack" /\ num[c] \in Nat /\ ptr[c] \in Copy \cup {NULL, Junk}
  BY <1>1, Holding, Constants DEF TxFree, Types, TypeOK, Frees
<1>3. stored \subseteq Copy /\ freed \subseteq stored  BY <1>1 DEF Types, TypeOK
<1>4. SeqSound /\ InTurn /\ SlotsSound /\ PtrSound /\ FreedSound /\ Reachable /\ CleanSound
  BY <1>1 DEF Data
<1>5. ptr[c] \in Copy =>
        /\ ptr[c] \in stored /\ ptr[c].entry = e /\ ptr[c].n \in Nat
        /\ e \notin crossed => ptr[c].n + WINDOW_TX <= num[c] /\ Value(num[c]) >= WINDOW_TX
        /\ e \notin crossed /\ e \notin failed => ptr[c].n + WINDOW_TX = num[c]
  BY <1>1, <1>2, <1>4, Copies DEF ContextSound, PtrSound
<1>6. CASE ptr[c] = Junk /\ Fault("unset", e, Value(num[c]))
  <2>1. Raced(e) \/ Unstored(e, Place(num[c]))
    BY <1>2, <1>4, <1>6 DEF PtrSound, Raced, Unstored
  <2>2. Explained("unset", e, Value(num[c]))  BY <2>1 DEF Explained, Place
  <2>3. QED  BY <1>6, <2>2, FaultStep
<1>7. CASE ptr[c] \in freed /\ Fault("twice", e, Value(num[c]))
  <2>1. ASSUME ~Raced(e), e \notin failed PROVE FALSE
    <3> SUFFICES ASSUME NEW p \in freed, ptr[c] = p PROVE FALSE  BY <1>7
    <3>1. p.entry = e /\ p.n + WINDOW_TX = num[c] /\ Works(c, e)
      BY <1>2, <1>3, <1>5, <2>1 DEF Raced, Works
    <3>2. Swept(p)  BY <1>4, <2>1, <3>1 DEF FreedSound
    <3>3. cleanpc[e] # "idle" \/ life[e] = "freed"  BY <3>1, <3>2 DEF Swept
    <3>4. QED  BY <1>1, <1>2, <2>1, <3>3 DEF LateFinders
  <2>2. Explained("twice", e, Value(num[c]))  BY <2>1 DEF Explained
  <2>3. QED  BY <1>7, <2>2, FaultStep
<1>8. ASSUME Freeable(ptr[c]), freed' = freed \cup ({ptr[c]} \ {NULL}), Leave(c),
             UNCHANGED <<entries, seq, buffer, stored, armed, dseq, cleanup, frames, fault, history>>
      PROVE  SendInv'
  <2>1. /\ pc' = [pc EXCEPT ![c] = "idle"] /\ ent' = [ent EXCEPT ![c] = None]
        /\ enc' = [enc EXCEPT ![c] = None] /\ num' = [num EXCEPT ![c] = 0]
        /\ ptr' = [ptr EXCEPT ![c] = NULL]
        /\ UNCHANGED <<bucket, life, key, seq, buffer, stored, armed, dseq, cleanpc, victim, i,
                       fault, met, crossed, failed>>
    BY <1>8 DEF Leave
  <2>2. /\ pc'[c] = "idle" /\ ent'[c] = None /\ ptr'[c] = NULL
        /\ \A x \in Context : x # c => /\ pc'[x] = pc[x] /\ ent'[x] = ent[x] /\ enc'[x] = enc[x]
                                       /\ num'[x] = num[x] /\ ptr'[x] = ptr[x]
    <3>1. /\ pc \in [Context -> {"idle", "add", "touch", "number", "store", "free", "seq", "walk", "copy"}]
          /\ ent \in [Context -> Entry \cup {None}] /\ enc \in [Context -> Enc \cup {None}]
          /\ num \in [Context -> Nat] /\ ptr \in [Context -> Copy \cup {NULL, Junk}]
      BY <1>1 DEF Types, TypeOK
    <3>2. QED  BY <1>2, <2>1, <3>1
  <2>3. /\ freed \subseteq freed' /\ freed' \subseteq freed \cup ({ptr[c]} \cap Copy)
    BY <1>2, <1>8 DEF Freeable
  <2>4. ptr[c] \in Copy => ptr[c] \in freed'  BY <1>8, Constants
  <2>5. Types'
    <3>1. (freed \subseteq stored /\ stored \subseteq Copy)'  BY <1>3, <1>5, <2>1, <2>3
    <3>2. /\ pc' \in [Context -> {"idle", "add", "touch", "number", "store", "free", "seq", "walk", "copy"}]
          /\ ent' \in [Context -> Entry \cup {None}] /\ enc' \in [Context -> Enc \cup {None}]
          /\ num' \in [Context -> Nat] /\ ptr' \in [Context -> Copy \cup {NULL, Junk}]
      BY <1>1, <2>1 DEF Types, TypeOK
    <3>3. QED  BY <1>1, <2>1, <3>1, <3>2 DEF Types, TypeOK
  <2>6. BucketsSound' /\ EntrySound'  BY <1>1, <2>1, BucketsKeep, EntriesKeep
  <2>7. UnusedSound'
    <3>1. \A d \in Entry, x \in Context : ent'[x] = d => ent[x] = d  BY <2>2, Constants
    <3>2. QED  BY <1>1, <2>1, <3>1 DEF UnusedSound, Raced
  <2>8. ContextSound'
    <3>1. \A b \in Callers : /\ pc'[b] \in {"idle", "add", "touch", "number", "store", "free"}
                             /\ pc'[b] # "free" => ptr'[b] = NULL
      BY <1>1, <2>2, Constants DEF ContextSound
    <3>2. pc'["dack"] \in {"idle", "seq", "walk", "copy"} /\ (pc'["dack"] = "copy" => ptr'["dack"] \in Copy)
      BY <1>1, <1>2, <2>2, Constants DEF ContextSound
    <3>3. ASSUME NEW y \in Context
          PROVE  /\ pc'[y] \in {"idle", "add"} <=> ent'[y] = None
                 /\ pc'[y] # "idle" => enc'[y] \in Enc
                 /\ ptr'[y] \in Copy => ptr'[y] \in stored' /\ ptr'[y].entry = ent'[y]
      <4>1. CASE y = c  BY <2>2, <4>1, Constants
      <4>2. CASE y # c  BY <1>1, <2>1, <2>2, <4>2 DEF ContextSound
      <4>3. QED  BY <4>1, <4>2
    <3>4. QED  BY <3>1, <3>2, <3>3 DEF ContextSound
  <2>9. LateFinders'
    <3>1. \A d \in Entry, x \in Context : ent'[x] = d => ent[x] = d  BY <2>2, Constants
    <3>2. QED  BY <1>1, <2>1, <3>1 DEF LateFinders, Raced
  <2>10. /\ \A b \in Callers, d \in Entry : Stores(b, d)' <=> Stores(b, d)
         /\ \A b \in Callers, d \in Entry : Frees(b, d)' <=> (Frees(b, d) /\ b # c)
         /\ \A d \in Entry : ~Stores(c, d)
    BY <1>2, <2>2, Constants DEF Stores, Frees
  <2>11. /\ \A b \in Callers, d \in Entry : Works(b, d)' <=> (Works(b, d) /\ b # c)
         /\ \A b \in Callers, d \in Entry : Works(b, d)' => num'[b] = num[b] /\ ptr'[b] = ptr[b]
         /\ \A b \in Callers, d \in Entry : Stores(b, d) => Works(b, d) /\ b # c
         /\ \A b \in Callers, d \in Entry : Frees(b, d) => Works(b, d)
         /\ Works(c, e)
    BY <1>2, <2>2, <2>10, Constants DEF Works
  <2>12. SeqSound'
    <3>1. seq' = seq /\ stored' = stored /\ failed' = failed  BY <2>1
    <3>2. QED  BY <1>4, <2>10, <2>11, <3>1 DEF SeqSound
  <2>13. InTurn'
    <3>1. stored' = stored /\ crossed' = crossed  BY <2>1
    <3>2. QED  BY <1>4, <2>10, <2>11, <3>1 DEF InTurn
  <2>14. SlotsSound'  BY <1>4, <2>1 DEF SlotsSound
  <2>15. PtrSound'
    <3>1. stored' = stored /\ crossed' = crossed /\ failed' = failed  BY <2>1
    <3>2. \A b \in Callers, d \in Entry : Frees(b, d)' => num'[b] = num[b] /\ ptr'[b] = ptr[b]
      BY <2>10, <2>11
    <3>3. \A b \in Callers, d \in Entry : Stores(b, d)' => num'[b] = num[b]  BY <2>10, <2>11
    <3>4. QED  BY <1>4, <2>10, <3>1, <3>2, <3>3 DEF PtrSound
  <2>16. FreedSound'
    <3> SUFFICES ASSUME NEW p \in freed', ~Raced(p.entry)
                 PROVE  \/ /\ p.n + WINDOW_TX < seq[p.entry]
                           /\ p.entry \notin failed =>
                                /\ Value(p.n) + WINDOW_TX < SEQ_MOD
                                /\ \A b \in Callers : Works(b, p.entry)' => num'[b] # p.n + WINDOW_TX
                        \/ Swept(p)
      BY <2>1 DEF FreedSound, Raced, Swept
    <3>1. p \in Copy /\ p.entry \in Entry  BY <1>3, <2>3, Copies
    <3>2. CASE p \in freed
      <4>1. \A b \in Callers : Works(b, p.entry)' => Works(b, p.entry) /\ num'[b] = num[b]
        BY <2>11, <3>1
      <4>2. QED  BY <1>4, <3>2, <4>1 DEF FreedSound
    <3>3. CASE p = ptr[c] /\ p \in Copy
      <4>1. p.entry = e /\ p.n + WINDOW_TX <= num[c] /\ (e \notin failed => p.n + WINDOW_TX = num[c])
            /\ p.n \in Nat /\ Value(num[c]) >= WINDOW_TX
        BY <1>5, <3>3 DEF Raced
      <4>2. num[c] < seq[e] /\ seq[e] \in Nat  BY <1>1, <1>4, <2>11 DEF SeqSound, Types, TypeOK
      <4>3. p.n + WINDOW_TX < seq[e]  BY <1>2, <4>1, <4>2, Constants
      <4>4. \A b \in Callers : Works(b, e)' => num'[b] # num[c]
        BY <1>4, <2>11 DEF SeqSound
      <4>5. ASSUME e \notin failed PROVE Value(p.n) + WINDOW_TX < SEQ_MOD
        <5>1. p.n = num[c] - WINDOW_TX  BY <1>2, <4>1, <4>5, Constants
        <5>2. Value(p.n) + WINDOW_TX = Value(num[c])  BY <1>2, <4>1, <5>1, Slots
        <5>3. Value(num[c]) \in 0..SEQ_MOD - 1  BY <1>2, Values
        <5>4. QED  BY <5>2, <5>3, Constants
      <4>6. QED  BY <4>1, <4>3, <4>4, <4>5
    <3>4. QED  BY <2>3, <3>2, <3>3
  <2>17. Reachable'
    <3> SUFFICES ASSUME NEW p \in stored, p.entry \notin crossed, Current(p)
                 PROVE  \/ p \in freed'
                        \/ buffer[p.entry][Place(p.n)] = p
                        \/ \E b \in Callers : Frees(b, p.entry)' /\ ptr'[b] = p
      BY <2>1 DEF Reachable, Current
    <3>1. p \in Copy /\ p.entry \in Entry  BY <1>3, Copies
    <3>2. CASE \E b \in Callers : Frees(b, p.entry) /\ ptr[b] = p
      <4>1. PICK b \in Callers : Frees(b, p.entry) /\ ptr[b] = p  BY <3>2
      <4>2. CASE b = c  BY <2>4, <3>1, <4>1, <4>2
      <4>3. CASE b # c
        <5>1. Frees(b, p.entry)'  BY <2>1, <2>10, <3>1, <4>1, <4>3
        <5>2. ptr'[b] = p  BY <2>2, <4>1, <4>3, Constants
        <5>3. QED  BY <5>1, <5>2
      <4>4. QED  BY <4>2, <4>3
    <3>3. QED  BY <1>4, <2>3, <3>2 DEF Reachable
  <2>18. CleanSound'  BY <1>4, <2>1, <2>3 DEF CleanSound, Raced, Swept, Current
  <2>19. MisuseExplained'  BY <2>1, NoFaultStep
  <2>20. QED  BY <2>5, <2>6, <2>7, <2>8, <2>9, <2>12, <2>13, <2>14, <2>15, <2>16, <2>17, <2>18, <2>19
              DEF SendInv
<1>9. QED  BY <1>6, <1>7, <1>8 DEF TxFree, FreeCopy

----------------------------------------------------------------------------
(* vmac_rx, DACK: what the DACK reads of an entry changes nothing else.    *)
LEMMA DackKeeps ==
  ASSUME SendInv, fault = NoFault, NEW p, NEW n \in Nat, NEW q \in Copy \cup {NULL, Junk},
         pc["dack"] # "idle",
         pc' = [pc EXCEPT !["dack"] = p],
         num' = [num EXCEPT !["dack"] = n], ptr' = [ptr EXCEPT !["dack"] = q], dseq' \in Nat,
         \/ p \in {"walk", "copy"} /\ UNCHANGED <<ent, enc>>
         \/ /\ p = "idle"
            /\ ent' = [ent EXCEPT !["dack"] = None] /\ enc' = [enc EXCEPT !["dack"] = None],
         p = "copy" => q \in Copy,
         q \in Copy => q \in stored /\ q.entry = ent["dack"] /\ p # "idle",
         UNCHANGED <<entries, buffers, armed, cleanup, fault, history>>
  PROVE  SendInv'
<1> USE DEF entries, buffers, cleanup, history
<1>1. Types /\ BucketsSound /\ EntrySound /\ UnusedSound /\ ContextSound /\ LateFinders /\ Data
  BY Parts DEF Control
<1>2. "dack" \in Context /\ "dack" \notin Callers  BY Constants
<1>3. /\ pc \in [Context -> {"idle", "add", "touch", "number", "store", "free", "seq", "walk", "copy"}]
      /\ ent \in [Context -> Entry \cup {None}] /\ enc \in [Context -> Enc \cup {None}]
      /\ num \in [Context -> Nat] /\ ptr \in [Context -> Copy \cup {NULL, Junk}]
  BY <1>1 DEF Types, TypeOK
<1>4. /\ pc'["dack"] = p /\ ptr'["dack"] = q
      /\ \A x \in Context : x # "dack" => /\ pc'[x] = pc[x] /\ ent'[x] = ent[x] /\ enc'[x] = enc[x]
                                          /\ num'[x] = num[x] /\ ptr'[x] = ptr[x]
      /\ \/ p \in {"walk", "copy"} /\ ent'["dack"] = ent["dack"] /\ enc'["dack"] = enc["dack"]
         \/ p = "idle" /\ ent'["dack"] = None
  BY <1>2, <1>3
<1>5. Types'
  <2>1. /\ pc' \in [Context -> {"idle", "add", "touch", "number", "store", "free", "seq", "walk", "copy"}]
        /\ ent' \in [Context -> Entry \cup {None}] /\ enc' \in [Context -> Enc \cup {None}]
        /\ num' \in [Context -> Nat] /\ ptr' \in [Context -> Copy \cup {NULL, Junk}]
    BY <1>3
  <2>2. QED  BY <1>1, <2>1 DEF Types, TypeOK
<1>6. BucketsSound' /\ EntrySound'  BY <1>1, BucketsKeep, EntriesKeep
<1>7. \A d \in Entry, x \in Context : ent'[x] = d => ent[x] = d  BY <1>4, Constants
<1>8. UnusedSound'  BY <1>1, <1>7 DEF UnusedSound, Raced
<1>9. ContextSound'
  <2>1. \A b \in Callers : /\ pc'[b] \in {"idle", "add", "touch", "number", "store", "free"}
                           /\ pc'[b] # "free" => ptr'[b] = NULL
    BY <1>1, <1>4, Constants DEF ContextSound
  <2>2. pc'["dack"] \in {"idle", "seq", "walk", "copy"} /\ (pc'["dack"] = "copy" => ptr'["dack"] \in Copy)
    BY <1>4
  <2>3. ASSUME NEW y \in Context
        PROVE  /\ pc'[y] \in {"idle", "add"} <=> ent'[y] = None
               /\ pc'[y] # "idle" => enc'[y] \in Enc
               /\ ptr'[y] \in Copy => ptr'[y] \in stored' /\ ptr'[y].entry = ent'[y]
    <3>1. CASE y = "dack"
      <4>1. pc[y] \notin {"idle", "add"} /\ ent[y] # None /\ enc[y] \in Enc
        BY <1>1, <1>2, <3>1 DEF ContextSound
      <4>2. QED  BY <1>4, <3>1, <4>1
    <3>2. CASE y # "dack"  BY <1>1, <1>4, <3>2 DEF ContextSound
    <3>3. QED  BY <3>1, <3>2
  <2>4. QED  BY <2>1, <2>2, <2>3 DEF ContextSound
<1>10. LateFinders'  BY <1>1, <1>7 DEF LateFinders, Raced
<1>11. Data'
  <2>1. \A b \in Callers, d \in Entry : /\ Stores(b, d)' <=> Stores(b, d)
                                        /\ Frees(b, d)' <=> Frees(b, d)
                                        /\ num'[b] = num[b] /\ ptr'[b] = ptr[b]
    BY <1>4, Constants DEF Stores, Frees
  <2>2. \A r \in stored : Swept(r)' <=> Swept(r)  BY DEF Swept
  <2>3. Same  BY <2>1, <2>2 DEF Same
  <2>4. QED  BY <1>1, <2>3, DataKeeps
<1>12. MisuseExplained'  BY NoFaultStep
<1>13. QED  BY <1>5, <1>6, <1>8, <1>9, <1>10, <1>11, <1>12 DEF SendInv, Data

LEMMA DackStepKeeps ==
  ASSUME SendInv, fault = NoFault, Dack PROVE SendInv'
<1>1. Types /\ SlotsSound /\ FreedSound /\ LateFinders /\ ContextSound  BY DEF SendInv
<1>2. /\ "dack" \in Context /\ pc["dack"] \notin {"idle", "add"}
  BY Constants DEF Dack, DackSeq, DackTest, DackCopy, DackEnd
<1> DEFINE e == ent["dack"]
<1>3. e \in Entry /\ (Gone("dack") => Raced(e))  BY <1>2, Holding
<1>4. /\ num \in [Context -> Nat] /\ ptr \in [Context -> Copy \cup {NULL, Junk}] /\ dseq \in Nat
      /\ buffer \in [Entry -> [Slot -> Copy \cup {NULL, Junk}]] /\ seq \in [Entry -> Nat]
      /\ stored \subseteq Copy /\ freed \subseteq stored
  BY <1>1 DEF Types, TypeOK
<1>5. ASSUME Gone("dack"), NEW n, Fault("freed", e, n) PROVE SendInv'
  <2>1. Explained("freed", e, n)  BY <1>3, <1>5 DEF Explained
  <2>2. QED  BY <1>5, <2>1, FaultStep
<1>6. CASE DackSeq
  <2>1. CASE Gone("dack")  BY <1>5, <1>6, <2>1 DEF DackSeq
  <2>2. CASE ~Gone("dack")
    <3>1. pc["dack"] = "seq" /\ pc' = [pc EXCEPT !["dack"] = "walk"] /\ dseq' \in Nat
      <4>1. seq[e] \in Nat  BY <1>3, <1>4
      <4>2. Value(seq[e]) \in Nat
        <5>1. ASSUME NEW n \in Nat PROVE Value(n) \in Nat
          <6>1. Value(n) \in 0..SEQ_MOD - 1  BY Values
          <6>2. QED  BY <6>1, Constants
        <5>2. QED  BY <4>1, <5>1
      <4>3. QED  BY <1>6, <2>2, <4>2 DEF DackSeq
    <3>2. num' = [num EXCEPT !["dack"] = num["dack"]] /\ ptr' = [ptr EXCEPT !["dack"] = ptr["dack"]]
          /\ UNCHANGED <<ent, enc, entries, buffers, armed, cleanup, fault, history>>
      BY <1>4, <1>6, <2>2 DEF DackSeq
    <3>3. /\ num["dack"] \in Nat /\ ptr["dack"] \in Copy \cup {NULL, Junk}
          /\ ptr["dack"] \in Copy => ptr["dack"] \in stored /\ ptr["dack"].entry = ent["dack"]
      BY <1>1, <1>2, <1>4 DEF ContextSound
    <3>4. QED  BY <3>1, <3>2, <3>3, DackKeeps
  <2>3. QED  BY <2>1, <2>2
<1>7. CASE DackTest
  <2> SUFFICES ASSUME NEW n \in 0..dseq - 1,
                      LET p == buffer[e][n % WINDOW_TX] IN
                      \/ Gone("dack") /\ Fault("freed", e, n)
                      \/ /\ ~Gone("dack") /\ p \notin Copy
                         /\ p = Junk \/ n = WINDOW_TX
                         /\ Fault("unset", e, n)
                      \/ /\ ~Gone("dack") /\ p \in Copy
                         /\ num' = [num EXCEPT !["dack"] = n]
                         /\ ptr' = [ptr EXCEPT !["dack"] = p]
                         /\ pc' = [pc EXCEPT !["dack"] = "copy"]
                         /\ UNCHANGED <<entries, buffers, armed, ent, enc, dseq, cleanup, frames,
                                        fault, history>>
               PROVE  SendInv'
    BY <1>7 DEF DackTest
  <2>1. n \in Nat /\ n % WINDOW_TX \in Slot /\ n % WINDOW_TX \in Nat
        /\ Place(n % WINDOW_TX) = n % WINDOW_TX
    BY <1>4, Slots
  <2> DEFINE p == buffer[e][n % WINDOW_TX]
  <2>2. CASE Gone("dack") /\ Fault("freed", e, n)  BY <1>5, <2>2
  <2>3. CASE p \notin Copy /\ Fault("unset", e, n)
    <3>1. Unstored(e, n % WINDOW_TX)
      <4>1. ASSUME NEW r \in stored, r.entry = e, r.n = n % WINDOW_TX PROVE FALSE
        BY <1>1, <2>1, <2>3, <4>1 DEF SlotsSound
      <4>2. QED  BY <4>1 DEF Unstored
    <3>2. Explained("unset", e, n)  BY <3>1 DEF Explained
    <3>3. QED  BY <2>3, <3>2, FaultStep
  <2>4. CASE /\ p \in Copy /\ num' = [num EXCEPT !["dack"] = n]
             /\ ptr' = [ptr EXCEPT !["dack"] = p] /\ pc' = [pc EXCEPT !["dack"] = "copy"]
             /\ UNCHANGED <<entries, buffers, armed, ent, enc, dseq, cleanup, frames, fault, history>>
    <3>1. p \in stored /\ p.entry = ent["dack"]  BY <1>1, <1>3, <2>1, <2>4 DEF SlotsSound
    <3> HIDE DEF p, e
    <3>2. QED  BY <1>2, <1>4, <2>1, <2>4, <3>1, DackKeeps
  <2>5. QED  BY <2>2, <2>3, <2>4
<1>8. CASE DackCopy
  <2> DEFINE p == ptr["dack"]
  <2>1. pc["dack"] = "copy"  BY <1>8 DEF DackCopy
  <2>2. p \in stored /\ p.entry = e /\ p \in Copy  BY <1>1, <1>2, <2>1 DEF ContextSound
  <2>3. CASE p \in freed
    <3>1. ASSUME ~Raced(e) PROVE p.n + WINDOW_TX < seq[e]
      <4>1. ~Swept(p)
        <5>1. Swept(p) => cleanpc[e] # "idle" \/ life[e] = "freed"  BY <2>2 DEF Swept
        <5>2. QED  BY <1>1, <1>2, <1>3, <3>1, <5>1 DEF LateFinders
      <4>2. QED  BY <1>1, <2>2, <2>3, <3>1, <4>1 DEF FreedSound
    <3>2. Explained("copy", e, p.n)  BY <3>1 DEF Explained
    <3>3. Fault("copy", e, p.n)  BY <1>8, <2>3 DEF DackCopy
    <3>4. QED  BY <3>2, <3>3, FaultStep
  <2>4. CASE p \notin freed /\ Gone("dack")
    <3>1. Fault("freed", e, num["dack"])  BY <1>8, <2>4 DEF DackCopy
    <3>2. QED  BY <1>5, <2>4, <3>1
  <2>5. CASE p \notin freed /\ ~Gone("dack")
    <3>1. /\ pc' = [pc EXCEPT !["dack"] = "walk"] /\ num' = [num EXCEPT !["dack"] = 0]
          /\ ptr' = [ptr EXCEPT !["dack"] = NULL]
          /\ UNCHANGED <<entries, buffers, armed, ent, enc, dseq, cleanup, frames, fault, history>>
      BY <1>8, <2>5 DEF DackCopy
    <3> HIDE DEF p, e
    <3>2. NULL \notin Copy /\ 0 \in Nat  BY Constants
    <3>3. QED  BY <1>2, <1>4, <3>1, <3>2, DackKeeps
  <2>6. QED  BY <2>3, <2>4, <2>5
<1>9. CASE DackEnd
  <2>1. /\ pc' = [pc EXCEPT !["dack"] = "idle"] /\ num' = [num EXCEPT !["dack"] = 0]
        /\ ptr' = [ptr EXCEPT !["dack"] = NULL] /\ dseq' = 0
        /\ ent' = [ent EXCEPT !["dack"] = None] /\ enc' = [enc EXCEPT !["dack"] = None]
        /\ UNCHANGED <<entries, buffers, armed, cleanup, frames, fault, history>>
    BY <1>9 DEF DackEnd, Leave
  <2> HIDE DEF e
  <2>2. NULL \notin Copy /\ 0 \in Nat  BY Constants
  <2>3. QED  BY <1>2, <2>1, <2>2, DackKeeps
<1>10. QED  BY <1>6, <1>7, <1>8, <1>9 DEF Dack

----------------------------------------------------------------------------
(* The clean-up.                                                           *)
(* Its steps touch no context, number or slot.                             *)
LEMMA CleanKeeps ==
  ASSUME SendInv, fault = NoFault, Types',
         UNCHANGED <<seq, buffer, stored, freed, context, frames, fault, failed>>,
         met \subseteq met', crossed \subseteq crossed',
         \A p \in stored : ~Raced(p.entry)' =>
           (Swept(p) => Swept(p)') /\ (Current(p) /\ Swept(p)' => Swept(p)),
         BucketsSound', EntrySound', UnusedSound', LateFinders'
  PROVE  SendInv'
<1>1. ContextSound'  BY DEF SendInv, ContextSound, context
<1>2. Data'
  <2>1. \A c \in Callers, e \in Entry : /\ Stores(c, e)' <=> Stores(c, e)
                                        /\ Frees(c, e)' <=> Frees(c, e)
    BY DEF Stores, Frees, context
  <2>2. Same  BY <2>1 DEF Same, context
  <2>3. Types /\ Data  BY Parts DEF Control
  <2>4. QED  BY <2>2, <2>3, DataKeeps
<1>3. MisuseExplained'  BY NoFaultStep
<1>4. QED  BY <1>1, <1>2, <1>3 DEF SendInv, Data

LEMMA CleanFireKeeps ==
  ASSUME SendInv, fault = NoFault, NEW e \in Entry, CleanFire(e) PROVE SendInv'
<1> USE DEF entries, buffers, history
<1>1. Types /\ BucketsSound /\ EntrySound /\ UnusedSound /\ ContextSound /\ LateFinders
  BY DEF SendInv
<1>2. armed[e] /\ cleanpc[e] = "idle" /\ life[e] # "unused"
  BY <1>1 DEF CleanFire, UnusedSound
<1>3. CASE life[e] = "freed"
  <2>1. Raced(e)  BY <1>1, <1>2, <1>3 DEF LateFinders
  <2>2. Explained("freed", e, 0)  BY <2>1 DEF Explained
  <2>3. QED  BY <1>3, <2>2, FaultStep DEF CleanFire
<1>4. CASE life[e] # "freed"
  <2>1. /\ armed' = [armed EXCEPT ![e] = FALSE]
        /\ cleanpc' = [cleanpc EXCEPT ![e] = "find"]
        /\ met' = met \cup {d \in {e} : \E x \in Context : ent[x] = d}
        /\ UNCHANGED <<bucket, life, key, seq, buffer, freed, stored, context, victim, i, frames, fault,
                       crossed, failed>>
    BY <1>4 DEF CleanFire
  <2>2. /\ cleanpc'[e] = "find" /\ armed'[e] = FALSE
        /\ \A d \in Entry : d # e => cleanpc'[d] = cleanpc[d] /\ armed'[d] = armed[d]
    BY <1>1, <2>1 DEF Types, TypeOK
  <2>3. met \subseteq met' /\ (\A d \in met' : d \in met \/ d = e)
        /\ \A x \in Context : ent[x] = e => e \in met'
    BY <2>1
  <2>4. life[e] = "ready"  BY <1>1, <1>2, <1>4 DEF Types, TypeOK
  <2>5. Types'
    <3>1. (met \cup crossed \cup failed)' \subseteq Entry  BY <1>1, <2>1, <2>3 DEF Types
    <3>2. QED  BY <1>1, <2>1, <3>1 DEF Types, TypeOK, context
  <2>6. BucketsSound'  BY <1>1, <2>1, BucketsKeep
  <2>7. EntrySound'
    <3>1. UNCHANGED <<bucket, life, key, victim, crossed>>  BY <2>1
    <3>2. \A h \in Entry : /\ cleanpc'[h] \in {"slots", "free"} <=> cleanpc[h] \in {"slots", "free"}
                           /\ cleanpc'[h] = "free" <=> cleanpc[h] = "free"
      BY <1>2, <2>2
    <3>3. \A h \in Entry : /\ victim[h] # None <=> cleanpc'[h] \in {"slots", "free"}
                           /\ cleanpc'[h] = "free" => ~Linked(victim[h])
      BY <1>1, <3>2 DEF EntrySound
    <3>4. \A d \in Entry \ crossed :
            /\ cleanpc'[d] # "idle" => life[d] = "ready"
            /\ life[d] = "ready" /\ cleanpc'[d] # "free" => bucket[Hash(key[d])] = <<d>>
      BY <1>1, <2>2, <2>4, <3>2 DEF EntrySound
    <3>5. \A h \in Entry : victim[h] # None /\ (h \notin crossed \/ victim[h] \notin crossed)
            => victim[h] = h
      BY <1>1 DEF EntrySound
    <3>6. \A h \in Entry : Linked(victim[h])' <=> Linked(victim[h])  BY <3>1 DEF Linked
    <3>7. QED  BY <3>1, <3>3, <3>4, <3>5, <3>6 DEF EntrySound
  <2>8. UnusedSound'  BY <1>1, <1>2, <2>1, <2>2, <2>3 DEF UnusedSound, Raced, context
  <2>9. LateFinders'
    <3> SUFFICES ASSUME NEW d \in Entry, cleanpc'[d] # "idle" \/ life[d] = "freed", ~Raced(d)'
                 PROVE  ~armed'[d] /\ \A x \in Context : ent[x] # d
      BY <2>1 DEF LateFinders, context
    <3>1. CASE d = e
      <4>1. \A x \in Context : ent[x] # e  BY <2>3, <3>1 DEF Raced
      <4>2. QED  BY <2>2, <3>1, <4>1
    <3>2. CASE d # e
      <4>1. ~Raced(d)  BY <2>1, <2>3 DEF Raced
      <4>2. QED  BY <1>1, <2>2, <3>2, <4>1 DEF LateFinders
    <3>3. QED  BY <3>1, <3>2
  <2>10. \A p \in stored : Swept(p)' <=> Swept(p)
    <3>1. \A p \in stored : p.entry \in Entry  BY <1>1, Copies DEF Types, TypeOK
    <3>2. QED  BY <1>2, <2>1, <2>2, <3>1 DEF Swept
  <2>11. QED  BY <2>1, <2>3, <2>5, <2>6, <2>7, <2>8, <2>9, <2>10, CleanKeeps
<1>5. QED  BY <1>3, <1>4

LEMMA CleanFindKeeps ==
  ASSUME SendInv, fault = NoFault, NEW e \in Entry, CleanFind(e) PROVE SendInv'
<1> USE DEF entries, buffers, history
<1>1. Types /\ BucketsSound /\ EntrySound /\ UnusedSound /\ ContextSound /\ LateFinders
  BY DEF SendInv
<1>2. cleanpc[e] = "find"  BY DEF CleanFind
<1>3. life[e] # "unused" /\ key[e] \in Enc
  BY <1>1, <1>2, Known DEF Types, TypeOK
<1> SUFFICES ASSUME NEW v, v = Find(key[e]) PROVE SendInv'  OBVIOUS
<1>4. /\ v = None \/ (v \in Entry /\ life[v] = "ready")
      /\ bucket[Hash(key[e])] = <<e>> => v = e
  BY <1>1, <1>3, FindOne
<1>5. /\ victim' = [victim EXCEPT ![e] = v] /\ i' = [i EXCEPT ![e] = 0]
      /\ cleanpc' = [cleanpc EXCEPT ![e] = IF v = None THEN "idle" ELSE "slots"]
      /\ crossed' = crossed \cup ({v} \ {e, None})
      /\ UNCHANGED <<bucket, life, key, seq, buffer, freed, stored, armed, context, frames, fault, met,
                     failed>>
  BY DEF CleanFind
<1>6. /\ victim'[e] = v /\ cleanpc'[e] = (IF v = None THEN "idle" ELSE "slots") /\ i'[e] = 0
      /\ \A d \in Entry : d # e => victim'[d] = victim[d] /\ cleanpc'[d] = cleanpc[d] /\ i'[d] = i[d]
  BY <1>1, <1>5 DEF Types, TypeOK
<1>7. /\ crossed \subseteq crossed' /\ (v # None /\ v # e => v \in crossed')
      /\ \A d \in crossed' : d \in crossed \/ (d = v /\ v # None)
  BY <1>5
(* found by its own handler, unless it was crossed *)
<1>8. e \notin crossed => v = e
  BY <1>1, <1>2, <1>4 DEF EntrySound
<1>9. Types'
  <2>1. (met \cup crossed \cup failed)' \subseteq Entry  BY <1>1, <1>4, <1>5, <1>7 DEF Types
  <2>2. victim' \in [Entry -> Entry \cup {None}] /\ i' \in [Entry -> Nat]
        /\ cleanpc' \in [Entry -> {"idle", "find", "slots", "free"}]
    BY <1>1, <1>4, <1>5 DEF Types, TypeOK
  <2>3. QED  BY <1>1, <1>5, <2>1, <2>2 DEF Types, TypeOK, context
<1>10. BucketsSound'  BY <1>1, <1>5, <1>7, BucketsKeep
<1>11. EntrySound'
  <2>1. UNCHANGED <<bucket, life, key>>  BY <1>5
  <2>2. \A h \in Entry : /\ victim'[h] # None <=> cleanpc'[h] \in {"slots", "free"}
                         /\ cleanpc'[h] = "free" => ~Linked(victim'[h])
    <3>1. \A h \in Entry : /\ victim[h] # None <=> cleanpc[h] \in {"slots", "free"}
                           /\ cleanpc[h] = "free" => ~Linked(victim[h])
      BY <1>1 DEF EntrySound
    <3>2. QED  BY <1>6, <3>1
  <2>3. \A h \in Entry : victim'[h] # None /\ (h \notin crossed' \/ victim'[h] \notin crossed')
          => victim'[h] = h
    <3>1. ASSUME NEW h \in Entry, h # e, victim[h] # None,
                 h \notin crossed' \/ victim[h] \notin crossed'
          PROVE  victim[h] = h
      BY <1>1, <1>7, <3>1 DEF EntrySound
    <3>2. QED  BY <1>6, <1>7, <1>8, <3>1
  <2>4. \A d \in Entry \ crossed' :
          /\ cleanpc'[d] # "idle" => life[d] = "ready"
          /\ life[d] = "ready" /\ cleanpc'[d] # "free" => bucket[Hash(key[d])] = <<d>>
    <3>1. \A d \in Entry \ crossed :
            /\ cleanpc[d] # "idle" => life[d] = "ready"
            /\ life[d] = "ready" /\ cleanpc[d] # "free" => bucket[Hash(key[d])] = <<d>>
      BY <1>1 DEF EntrySound
    <3>2. \A d \in Entry : /\ cleanpc'[d] # "idle" => cleanpc[d] # "idle"
                           /\ cleanpc'[d] # "free" => cleanpc[d] # "free"
      BY <1>2, <1>6
    <3>3. QED  BY <1>7, <3>1, <3>2
  <2>5. \A h \in Entry : Linked(victim'[h]) <=> Linked(victim[h])'  BY <2>1 DEF Linked
  <2>6. QED  BY <2>1, <2>2, <2>3, <2>4, <2>5 DEF EntrySound
<1>12. UnusedSound'
  <2> SUFFICES ASSUME NEW d \in Entry, life[d] = "unused"
               PROVE  d \notin crossed' /\ \A h \in Entry : victim'[h] # d
    BY <1>1, <1>5 DEF UnusedSound, Raced, context
  <2>1. d # v  BY <1>4, Constants
  <2>2. d \notin crossed /\ \A h \in Entry : victim[h] # d  BY <1>1 DEF UnusedSound, Raced
  <2>3. QED  BY <1>6, <1>7, <2>1, <2>2
<1>13. LateFinders'
  <2> SUFFICES ASSUME NEW d \in Entry, cleanpc'[d] # "idle" \/ life[d] = "freed", ~Raced(d)'
               PROVE  ~armed[d] /\ \A x \in Context : ent[x] # d
    BY <1>5 DEF LateFinders, context
  <2>1. cleanpc[d] # "idle" \/ life[d] = "freed"  BY <1>2, <1>6
  <2>2. ~Raced(d)  BY <1>5, <1>7 DEF Raced
  <2>3. QED  BY <1>1, <2>1, <2>2 DEF LateFinders
<1>14. \A p \in stored : Swept(p)' <=> Swept(p)
  <2> SUFFICES ASSUME NEW p \in stored PROVE Swept(p)' <=> Swept(p)  OBVIOUS
  <2>1. p.entry \in Entry /\ ~(Place(p.n) < 0)
    <3>1. p.entry \in Entry /\ p.n \in Nat  BY <1>1, Copies DEF Types, TypeOK
    <3>2. Place(p.n) \in Nat  BY <3>1, Slots
    <3>3. QED  BY <3>1, <3>2
  <2>2. CASE p.entry = e
    <3>1. ~(cleanpc'[e] = "slots" /\ Place(p.n) < i'[e]) /\ cleanpc'[e] # "free"
      BY <1>6, <2>1
    <3>2. life' = life  BY <1>5
    <3>3. QED  BY <1>2, <2>2, <3>1, <3>2 DEF Swept
  <2>3. CASE p.entry # e
    <3>1. life' = life  BY <1>5
    <3>2. QED  BY <1>6, <2>1, <2>3, <3>1 DEF Swept
  <2>4. QED  BY <2>2, <2>3
<1>15. QED  BY <1>5, <1>7, <1>9, <1>10, <1>11, <1>12, <1>13, <1>14, CleanKeeps

(* The copies that the handler frees are those of its entry.               *)
LEMMA CleanSlotKeeps ==
  ASSUME SendInv, fault = NoFault, NEW e \in Entry, CleanSlot(e) PROVE SendInv'
<1> USE DEF entries, buffers, history
<1>1. Types /\ BucketsSound /\ EntrySound /\ UnusedSound /\ ContextSound /\ LateFinders
      /\ SeqSound /\ InTurn /\ SlotsSound /\ PtrSound /\ FreedSound /\ Reachable /\ CleanSound
  BY DEF SendInv
<1>2. cleanpc[e] = "slots" /\ life[victim[e]] # "freed" /\ MoreSlots(e) /\ victim[e] \in Entry
  BY <1>1 DEF CleanSlot, EntrySound, Types, TypeOK
<1> SUFFICES ASSUME NEW v \in Entry, v = victim[e] PROVE SendInv'  BY <1>2
<1>3. v \notin crossed \/ e \notin crossed => v = e  BY Known
<1>4. /\ seq \in [Entry -> Nat] /\ i \in [Entry -> Nat] /\ stored \subseteq Copy /\ freed \subseteq stored
      /\ buffer \in [Entry -> [Slot -> Copy \cup {NULL, Junk}]]
  BY <1>1 DEF Types, TypeOK
<1>5. i[e] \in Slot /\ i[e] \in Nat /\ Place(i[e]) = i[e]
                                             /\ i[e] % WINDOW_TX = i[e]
  <2>1. i[e] < WINDOW_TX
    <3>1. Value(seq[victim[e]]) \in 0..SEQ_MOD - 1  BY <1>2, <1>4, Values
    <3>2. QED  BY <1>2, <1>4, <3>1, Constants DEF MoreSlots, Least
  <2>2. i[e] \in Slot  BY <1>4, <2>1, Constants DEF Slot
  <2>3. QED  BY <1>4, <2>2, Slots
<1> DEFINE p == buffer[v][i[e]]
<1>6. p \in Copy \cup {NULL, Junk}  BY <1>4, <1>5
<1>7. p \in Copy => p \in stored /\ p.entry = v /\ Place(p.n) = i[e] /\ p.n \in Nat
  BY <1>1, <1>5, Copies DEF SlotsSound
<1>8. ASSUME p = Junk, Fault("unset", v, i[e]) PROVE SendInv'
  <2>1. Unstored(v, i[e] % WINDOW_TX)
    <3>1. ASSUME NEW r \in stored, r.entry = v, r.n = i[e] PROVE FALSE
      BY <1>1, <1>5, <1>8, <3>1, Constants DEF SlotsSound
    <3>2. QED  BY <1>5, <3>1 DEF Unstored
  <2>2. Explained("unset", v, i[e])  BY <2>1 DEF Explained
  <2>3. QED  BY <1>8, <2>2, FaultStep
<1>9. ASSUME p \in freed, Fault("twice", v, i[e]) PROVE SendInv'
  <2>1. ASSUME ~Raced(v), v \notin failed PROVE FALSE
    <3>1. v = e /\ \A x \in Context : ent[x] # e
      BY <1>1, <1>2, <1>3, <2>1 DEF Raced, LateFinders
    <3>2. p \in Copy /\ p \in stored /\ p.entry = e /\ Place(p.n) = i[e] /\ p.n \in Nat
      BY <1>4, <1>7, <1>9, <3>1
    <3> HIDE DEF p
    <3>3. ~Swept(p)
      <4>1. ~(i[e] < i[e])  BY <1>5
      <4>2. QED  BY <1>2, <3>1, <3>2, <4>1 DEF Swept
    <3>4. p.n + WINDOW_TX < seq[e] /\ Value(p.n) + WINDOW_TX < SEQ_MOD  BY <1>1, <1>9, <2>1, <3>1, <3>2, <3>3 DEF FreedSound
    <3>5. p.n + WINDOW_TX \in 0..seq[e] - 1 /\ p.n + WINDOW_TX \in Nat /\ ~(p.n + WINDOW_TX <= p.n)
      BY <1>4, <3>2, <3>4, Constants
    <3>6. \A c \in Callers : ~Stores(c, e)  BY <3>1, Constants DEF Stores
    <3>7. [entry |-> e, n |-> p.n + WINDOW_TX] \in stored
      BY <1>1, <2>1, <3>1, <3>5, <3>6 DEF SeqSound
    <3>8. Place(p.n + WINDOW_TX) = i[e]  BY <3>2, <3>4, Slots
    <3>9. p.n + WINDOW_TX <= buffer[e][i[e]].n
      BY <1>1, <2>1, <3>1, <3>7, <3>8 DEF SlotsSound, Raced
    <3>10. QED  BY <3>1, <3>5, <3>9 DEF p
  <2>2. Explained("twice", v, i[e])  BY <2>1 DEF Explained
  <2>3. QED  BY <1>9, <2>2, FaultStep
<1>10. ASSUME Freeable(p), freed' = freed \cup ({p} \ {NULL}), i' = [i EXCEPT ![e] = @ + 1],
              UNCHANGED <<entries, seq, buffer, stored, armed, context, cleanpc, victim, frames, fault,
                          history>>
       PROVE  SendInv'
  <2>1. /\ freed \subseteq freed' /\ freed' \subseteq freed \cup ({p} \cap Copy)
        /\ p \in Copy => p \in freed'
    BY <1>6, <1>10, Constants DEF Freeable
  <2>2. /\ UNCHANGED <<bucket, life, key, seq, buffer, stored, armed, context, cleanpc, victim, frames,
                       fault, met, crossed, failed>>
        /\ i'[e] = i[e] + 1 /\ \A d \in Entry : d # e => i'[d] = i[d]
        /\ i' \in [Entry -> Nat]
    BY <1>4, <1>10
  <2> HIDE DEF p
  <2>3. Types'
    <3>1. (freed \subseteq stored /\ stored \subseteq Copy)'
      BY <1>4, <1>7, <2>1, <2>2
    <3>2. QED  BY <1>1, <2>2, <3>1 DEF Types, TypeOK, context
  <2>4. BucketsSound' /\ EntrySound'  BY <1>1, <2>2, BucketsKeep, EntriesKeep
  <2>5. UnusedSound' /\ ContextSound' /\ LateFinders'
    BY <1>1, <2>2 DEF UnusedSound, ContextSound, LateFinders, Raced, context
  <2>6. SeqSound' /\ InTurn' /\ SlotsSound' /\ PtrSound'
    <3>1. SeqSound' /\ InTurn'
      BY <1>1, <2>2 DEF SeqSound, InTurn, Works, Stores, Frees, context
    <3>2. SlotsSound' /\ PtrSound'
      BY <1>1, <2>2 DEF SlotsSound, PtrSound, Stores, Frees, context
    <3>3. QED  BY <3>1, <3>2
  <2>7. \A q \in stored : q.entry \in Entry /\ Place(q.n) \in Nat
    BY <1>4, Copies, Slots
  <2>8. \A q \in stored : Swept(q) => Swept(q)'
    <3> SUFFICES ASSUME NEW q \in stored, Swept(q) PROVE Swept(q)'  OBVIOUS
    <3>1. \A k \in Nat : k < i[e] => k < i[e] + 1  BY <1>5
    <3>2. QED  BY <2>2, <2>7, <3>1 DEF Swept
  <2>9. FreedSound'
    <3> SUFFICES ASSUME NEW q \in freed', ~Raced(q.entry)
                 PROVE  \/ /\ q.n + WINDOW_TX < seq[q.entry]
                           /\ q.entry \notin failed =>
                                /\ Value(q.n) + WINDOW_TX < SEQ_MOD
                                /\ \A b \in Callers : Works(b, q.entry) => num[b] # q.n + WINDOW_TX
                        \/ Swept(q)'
      BY <2>2 DEF FreedSound, Raced, Works, Stores, Frees, context
    <3>1. CASE q \in freed  BY <1>1, <1>4, <2>8, <3>1 DEF FreedSound
    <3>2. CASE q = p /\ p \in Copy
      <4>1. q.entry = v /\ v = e /\ Place(q.n) = i[e]
        BY <1>3, <1>7, <3>2 DEF Raced
      <4>2. i[e] < i'[e]  BY <1>5, <2>2
      <4>3. QED  BY <1>2, <2>2, <4>1, <4>2 DEF Swept
    <3>3. QED  BY <2>1, <3>1, <3>2
  <2>10. Reachable'
    BY <1>1, <2>1, <2>2 DEF Reachable, Frees, Current, context
  <2>11. CleanSound'
    <3> SUFFICES ASSUME NEW q \in stored, ~Raced(q.entry), Current(q), Swept(q)'
                 PROVE  q \in freed'
      BY <2>2 DEF CleanSound, Raced, Current
    <3>1. CASE Swept(q)  BY <1>1, <2>1, <3>1 DEF CleanSound
    <3>2. CASE ~Swept(q)
      <4>1. q.entry = e /\ cleanpc[e] = "slots" /\ Place(q.n) < i[e] + 1
            /\ ~(Place(q.n) < i[e])
        BY <2>2, <2>7, <3>2 DEF Swept
      <4>2. Place(q.n) = i[e]
        <5>1. \A k, l \in Nat : k < l + 1 /\ ~(k < l) => k = l  OBVIOUS
        <5>2. QED  BY <1>5, <2>7, <4>1, <5>1
      <4>3. v = e /\ \A x \in Context : ent[x] # e
        BY <1>1, <1>2, <1>3, <4>1 DEF Raced, LateFinders
      <4>4. \A c \in Callers : ~Frees(c, e)  BY <4>3, Constants DEF Frees
      <4>5. q \in freed \/ buffer[e][i[e]] = q  BY <1>1, <4>1, <4>2, <4>4 DEF Reachable, Raced
      <4>6. q \in Copy  BY <1>4
      <4>7. QED  BY <2>1, <4>3, <4>5, <4>6 DEF p
    <3>3. QED  BY <3>1, <3>2
  <2>12. MisuseExplained'  BY <2>2, NoFaultStep
  <2>13. QED  BY <2>3, <2>4, <2>5, <2>6, <2>9, <2>10, <2>11, <2>12 DEF SendInv
<1>11. QED  BY <1>8, <1>9, <1>10 DEF CleanSlot, FreeCopy

LEMMA CleanUnlinkKeeps ==
  ASSUME SendInv, fault = NoFault, NEW e \in Entry, CleanUnlink(e) PROVE SendInv'
<1> USE DEF entries, buffers, history
<1>1. Types /\ BucketsSound /\ EntrySound /\ UnusedSound /\ ContextSound /\ LateFinders
      /\ SeqSound
  BY DEF SendInv
<1>2. cleanpc[e] = "slots" /\ life[victim[e]] # "freed" /\ ~MoreSlots(e) /\ victim[e] \in Entry
  BY <1>1 DEF CleanUnlink, EntrySound, Types, TypeOK
<1> SUFFICES ASSUME NEW v \in Entry, v = victim[e] PROVE SendInv'  BY <1>2
<1>3. key[v] \in Enc /\ (v \notin crossed \/ e \notin crossed => v = e)  BY Known
<1> DEFINE h == Hash(key[v])
           s == bucket[h]
           u == Unlink(s, v)
<1>4. h \in 0..NBuckets - 1  BY <1>3, Constants
<1>5. s \in Seq(Entry) /\ \A k, l \in DOMAIN s : s[k] = s[l] => k = l
  BY <1>1, <1>4 DEF Types, BucketsSound
<1>6. /\ bucket' = [bucket EXCEPT ![h] = u] /\ cleanpc' = [cleanpc EXCEPT ![e] = "free"]
      /\ UNCHANGED <<life, key, seq, buffer, freed, stored, armed, context, victim, i, frames, fault,
                     met, crossed, failed>>
  BY DEF CleanUnlink
<1>7. /\ u \in Seq(Entry) /\ Len(u) <= Len(s)
      /\ \A k \in DOMAIN u : u[k] # v /\ \E l \in DOMAIN s : u[k] = s[l]
      /\ \A k, l \in DOMAIN u : u[k] = u[l] => k = l
      /\ (\A k \in DOMAIN s : s[k] # v) => u = s
  <2> HIDE DEF s
  <2>1. QED  BY <1>5, UnlinkProperties
<1>8. Len(s) \in Nat /\ Len(u) \in Nat /\ DOMAIN u = 1..Len(u)  BY <1>5, <1>7, LenProperties
<1>9. /\ bucket'[h] = u /\ \A b \in 0..NBuckets - 1 : b # h => bucket'[b] = bucket[b]
      /\ bucket' \in [0..NBuckets - 1 -> Seq(Entry)]
  <2>1. bucket \in [0..NBuckets - 1 -> Seq(Entry)]  BY <1>1 DEF Types
  <2> HIDE DEF h, u
  <2>2. QED  BY <1>4, <1>6, <1>7, <2>1
<1> HIDE DEF u
<1>10. cleanpc'[e] = "free" /\ \A d \in Entry : d # e => cleanpc'[d] = cleanpc[d]
  BY <1>1, <1>6 DEF Types, TypeOK
<1>11. \A d : Linked(d)' => Linked(d) /\ (d = v => FALSE)
  <2> SUFFICES ASSUME NEW d, NEW b \in 0..NBuckets - 1, NEW k \in DOMAIN bucket'[b], bucket'[b][k] = d
               PROVE  Linked(d) /\ d # v
    BY DEF Linked
  <2>1. CASE b = h
    <3>1. d # v /\ \E l \in DOMAIN s : s[l] = d  BY <1>7, <1>9, <2>1
    <3>2. QED  BY <1>4, <3>1 DEF Linked
  <2>2. CASE b # h
    <3>1. bucket'[b] = bucket[b]  BY <1>9, <2>2
    <3>2. Hash(key[d]) = b  BY <1>1, <3>1 DEF BucketsSound
    <3>3. QED  BY <2>2, <3>1, <3>2 DEF Linked
  <2>3. QED  BY <2>1, <2>2
<1>12. Types'
  <2>1. cleanpc' \in [Entry -> {"idle", "find", "slots", "free"}]  BY <1>1, <1>6 DEF Types, TypeOK
  <2>2. \A b \in DOMAIN bucket' : bucket'[b] \in Seq(Entry)  BY <1>9
  <2> HIDE DEF h, s
  <2>3. QED  BY <1>1, <1>6, <1>9, <2>1, <2>2 DEF Types, TypeOK, context
<1>13. BucketsSound'
  <2> SUFFICES ASSUME NEW b \in 0..NBuckets - 1
               PROVE  /\ \A k \in DOMAIN bucket'[b] :
                           /\ life[bucket'[b][k]] = "ready"
                           /\ Hash(key[bucket'[b][k]]) = b
                           /\ bucket'[b][k] \notin crossed => Len(bucket'[b]) = 1
                      /\ \A k, l \in DOMAIN bucket'[b] : bucket'[b][k] = bucket'[b][l] => k = l
    BY <1>6 DEF BucketsSound, Hash
  <2>1. CASE b # h
    <3>1. bucket'[b] = bucket[b]  BY <1>9, <2>1
    <3>2. QED  BY <1>1, <3>1 DEF BucketsSound
  <2>2. CASE b = h
    <3>1. \A k \in DOMAIN s : life[s[k]] = "ready" /\ Hash(key[s[k]]) = h
                              /\ (s[k] \notin crossed => Len(s) = 1)
      BY <1>1, <1>4 DEF BucketsSound
    <3> HIDE DEF s, h
    <3>2. \A k \in DOMAIN u : life[u[k]] = "ready" /\ Hash(key[u[k]]) = h
      BY <1>7, <3>1
    <3>3. ASSUME NEW k \in DOMAIN u, u[k] \notin crossed PROVE Len(u) = 1
      <4>1. Len(s) = 1  BY <1>7, <3>1, <3>3
      <4>2. Len(u) >= 1  BY <1>8
      <4>3. QED  BY <1>7, <1>8, <4>1, <4>2
    <3>4. QED  BY <1>7, <1>9, <2>2, <3>2, <3>3
  <2>3. QED  BY <2>1, <2>2
<1>14. EntrySound'
  <2>1. \A g \in Entry : /\ victim[g] # None <=> cleanpc'[g] \in {"slots", "free"}
                         /\ cleanpc'[g] = "free" => ~Linked(victim[g])'
    <3>1. \A g \in Entry : /\ victim[g] # None <=> cleanpc[g] \in {"slots", "free"}
                           /\ cleanpc[g] = "free" => ~Linked(victim[g])
      BY <1>1 DEF EntrySound
    <3>2. \A g \in Entry : Linked(victim[g])' => Linked(victim[g]) /\ victim[g] # v
      <4>1. victim' = victim  BY <1>6
      <4>2. SUFFICES ASSUME NEW g \in Entry, NEW d, d = victim[g], Linked(d)'
                     PROVE  Linked(d) /\ d # v
        BY <4>1 DEF Linked
      <4>3. QED  BY <1>11, <4>2
    <3>3. QED  BY <1>2, <1>10, <3>1, <3>2
  <2>2. \A g \in Entry : victim[g] # None /\ (g \notin crossed \/ victim[g] \notin crossed)
          => victim[g] = g
    BY <1>1 DEF EntrySound
  <2>3. ASSUME NEW d \in Entry \ crossed
        PROVE  /\ cleanpc'[d] # "idle" => life[d] = "ready"
               /\ life[d] = "ready" /\ cleanpc'[d] # "free" => bucket'[Hash(key[d])] = <<d>>
    <3>1. /\ cleanpc[d] # "idle" => life[d] = "ready"
          /\ life[d] = "ready" /\ cleanpc[d] # "free" => bucket[Hash(key[d])] = <<d>>
      BY <1>1 DEF EntrySound
    <3>2. cleanpc'[d] # "idle" => life[d] = "ready"  BY <1>2, <1>10, <3>1
    <3>3. ASSUME life[d] = "ready", cleanpc'[d] # "free" PROVE bucket'[Hash(key[d])] = <<d>>
      <4>1. d # e /\ cleanpc[d] # "free"  BY <1>10, <3>3
      <4>2. bucket[Hash(key[d])] = <<d>>  BY <3>1, <3>3, <4>1
      <4>3. d # v  BY <1>3, <4>1
      <4>4. Hash(key[d]) \in 0..NBuckets - 1  BY <1>1, <3>3, Constants DEF Types, TypeOK
      <4>5. CASE Hash(key[d]) = h
        <5>1. s = <<d>>  BY <4>2, <4>5
        <5>2. \A k \in DOMAIN s : s[k] # v
          <6>1. \A k \in DOMAIN <<d>> : <<d>>[k] = d  OBVIOUS
          <6> HIDE DEF s
          <6>2. QED  BY <4>3, <5>1, <6>1
        <5> HIDE DEF s, h
        <5>3. QED  BY <1>7, <1>9, <4>5, <5>1, <5>2
      <4>6. CASE Hash(key[d]) # h  BY <1>9, <4>2, <4>4, <4>6
      <4>7. QED  BY <4>5, <4>6
    <3>4. QED  BY <3>2, <3>3
  <2>4. UNCHANGED <<life, key, victim, crossed>>  BY <1>6
  <2> HIDE DEF s, h
  <2>5. \A d \in Entry : Hash(key[d])' = Hash(key[d])  BY <2>4
  <2>6. \A d \in Entry \ crossed' :
          /\ cleanpc'[d] # "idle" => life'[d] = "ready"
          /\ life'[d] = "ready" /\ cleanpc'[d] # "free" => bucket'[Hash(key'[d])] = <<d>>
    BY <2>3, <2>4
  <2>7. QED  BY <2>1, <2>2, <2>4, <2>6 DEF EntrySound
<1>15. UnusedSound'  BY <1>1, <1>6 DEF UnusedSound, Raced, context
<1>16. LateFinders'
  <2>1. \A d \in Entry : cleanpc'[d] # "idle" => cleanpc[d] # "idle"  BY <1>2, <1>10
  <2>2. QED  BY <1>1, <1>6, <2>1 DEF LateFinders, Raced, context
(* the copies since seq was last 0 are in the slots that were swept *)
<1>17. ASSUME NEW p \in stored, ~Raced(p.entry)'
       PROVE  (Swept(p) => Swept(p)') /\ (Current(p) /\ Swept(p)' => Swept(p))
  <2>1. p.entry \in Entry /\ p.n \in Nat  BY <1>1, Copies DEF Types, TypeOK
  <2>2. CASE p.entry = e
    <3>1. v = e  BY <1>3, <1>6, <1>17, <2>2 DEF Raced
    <3>2. p.n < seq[e] /\ seq[e] \in Nat /\ i[e] \in Nat
      BY <1>1, <2>2 DEF SeqSound, Types, TypeOK
    <3>3. ASSUME Current(p) PROVE Place(p.n) < i[e]
      <4>1. Start(seq[e]) <= p.n  BY <2>2, <3>3 DEF Current
      <4>2. /\ Start(seq[e]) \in Nat /\ Value(seq[e]) \in 0..SEQ_MOD - 1
            /\ seq[e] = Start(seq[e]) + Value(seq[e])
        BY <3>2, Values
      <4>3. p.n - Start(seq[e]) < Value(seq[e]) /\ p.n - Start(seq[e]) < SEQ_MOD
        BY <2>1, <3>2, <4>1, <4>2, Constants
      <4>4. Value(p.n) = p.n - Start(seq[e])  BY <2>1, <3>2, <4>1, <4>3, Values
      <4>5. Place(p.n) < WINDOW_TX /\ Place(p.n) <= Value(p.n) /\ Place(p.n) \in Nat
        BY <2>1, Slots
      <4>6. Place(p.n) < Value(seq[e])  BY <2>1, <4>2, <4>3, <4>4, <4>5
      <4>7. ~(i[e] < Least(Value(seq[e]), WINDOW_TX))  BY <1>2, <3>1 DEF MoreSlots
      <4>8. QED  BY <3>2, <4>2, <4>5, <4>6, <4>7, Constants DEF Least
    <3>4. Swept(p)'  BY <1>10, <2>2 DEF Swept
    <3>5. QED  BY <1>2, <2>2, <3>3, <3>4 DEF Swept
  <2>3. CASE p.entry # e
    <3>1. i' = i /\ life' = life  BY <1>6
    <3>2. QED  BY <1>10, <2>1, <2>3, <3>1 DEF Swept
  <2>4. QED  BY <2>2, <2>3
<1>18. UNCHANGED <<seq, buffer, stored, freed, context, frames, fault, failed>>
       /\ met \subseteq met' /\ crossed \subseteq crossed'
  BY <1>6
<1>19. QED  BY <1>12, <1>13, <1>14, <1>15, <1>16, <1>17, <1>18, CleanKeeps

LEMMA CleanFreeKeeps ==
  ASSUME SendInv, fault = NoFault, NEW e \in Entry, CleanFree(e) PROVE SendInv'
<1> USE DEF entries, buffers, history
<1>1. Types /\ BucketsSound /\ EntrySound /\ UnusedSound /\ ContextSound /\ LateFinders
  BY DEF SendInv
<1>2. cleanpc[e] \in {"slots", "free"} /\ victim[e] \in Entry
  BY <1>1 DEF CleanFree, EntrySound, Types, TypeOK
<1> SUFFICES ASSUME NEW v \in Entry, v = victim[e] PROVE SendInv'  BY <1>2
<1>3. v \notin crossed \/ e \notin crossed => v = e  BY Known
<1>4. CASE life[v] = "freed"
  <2>1. Raced(v)
    <3>1. SUFFICES ASSUME v \notin crossed PROVE FALSE  BY DEF Raced
    <3>2. v = e  BY <1>3, <3>1
    <3>3. life[e] = "ready"  BY <1>1, <1>2, <3>1, <3>2 DEF EntrySound
    <3>4. QED  BY <1>4, <3>2, <3>3
  <2>2. Explained("freed", v, 0)  BY <2>1 DEF Explained
  <2>3. QED  BY <1>4, <2>2, FaultStep DEF CleanFree
<1>5. CASE life[v] # "freed"
  <2>1. /\ cleanpc[e] = "free"
        /\ life' = [life EXCEPT ![v] = "freed"]
        /\ cleanpc' = [cleanpc EXCEPT ![e] = "idle"]
        /\ victim' = [victim EXCEPT ![e] = None] /\ i' = [i EXCEPT ![e] = 0]
        /\ UNCHANGED <<bucket, key, seq, buffer, freed, stored, armed, context, frames, fault, met,
                       crossed, failed>>
    BY <1>5 DEF CleanFree
  <2>2. /\ life'[v] = "freed" /\ cleanpc'[e] = "idle" /\ victim'[e] = None /\ i'[e] = 0
        /\ \A d \in Entry : d # v => life'[d] = life[d]
        /\ \A d \in Entry : d # e => cleanpc'[d] = cleanpc[d] /\ victim'[d] = victim[d] /\ i'[d] = i[d]
    BY <1>1, <2>1 DEF Types, TypeOK
  <2>3. ~Linked(v)  BY <1>1, <2>1 DEF EntrySound
  <2>4. life[v] # "unused" /\ key[v] \in Enc  BY Known
  <2>5. Types'
    <3>1. /\ life' \in [Entry -> {"unused", "ready", "freed"}]
          /\ cleanpc' \in [Entry -> {"idle", "find", "slots", "free"}]
          /\ victim' \in [Entry -> Entry \cup {None}] /\ i' \in [Entry -> Nat]
      BY <1>1, <2>1 DEF Types, TypeOK
    <3>2. \A d \in Entry : life'[d] # "unused" => key[d] \in Enc
      BY <1>1, <2>2, <2>4 DEF Types, TypeOK
    <3>3. QED  BY <1>1, <2>1, <3>1, <3>2 DEF Types, TypeOK, context
  <2>6. BucketsSound'
    <3> SUFFICES ASSUME NEW b \in 0..NBuckets - 1, NEW k \in DOMAIN bucket[b]
                 PROVE  life'[bucket[b][k]] = "ready"
      BY <1>1, <2>1 DEF BucketsSound, Hash
    <3>1. bucket[b][k] # v  BY <2>3 DEF Linked
    <3>2. life[bucket[b][k]] = "ready"  BY <1>1 DEF BucketsSound
    <3>3. bucket[b][k] \in Entry
      <4> DEFINE t == bucket[b]
      <4>1. t \in Seq(Entry)  BY <1>1 DEF Types
      <4> HIDE DEF t
      <4>2. \A l \in DOMAIN t : t[l] \in Entry  BY <4>1, ElementOfSeq, LenProperties
      <4>3. QED  BY <4>2 DEF t
    <3>4. QED  BY <2>2, <3>1, <3>2, <3>3
  <2>7. EntrySound'
    <3>1. \A g \in Entry : /\ victim'[g] # None <=> cleanpc'[g] \in {"slots", "free"}
                           /\ cleanpc'[g] = "free" => ~Linked(victim'[g])
      BY <1>1, <2>2 DEF EntrySound
    <3>2. \A g \in Entry : victim'[g] # None /\ (g \notin crossed \/ victim'[g] \notin crossed)
            => victim'[g] = g
      BY <1>1, <2>2 DEF EntrySound
    <3>3. \A d \in Entry \ crossed :
            /\ cleanpc'[d] # "idle" => life'[d] = "ready"
            /\ life'[d] = "ready" /\ cleanpc'[d] # "free" => bucket[Hash(key[d])] = <<d>>
      <4> SUFFICES ASSUME NEW d \in Entry \ crossed
                   PROVE  /\ cleanpc'[d] # "idle" => life'[d] = "ready"
                          /\ life'[d] = "ready" /\ cleanpc'[d] # "free" => bucket[Hash(key[d])] = <<d>>
        OBVIOUS
      <4>1. d = v <=> d = e  BY <1>3
      <4>2. CASE d = v  BY <2>2, <4>1, <4>2
      <4>3. CASE d # v  BY <1>1, <2>2, <4>1, <4>3 DEF EntrySound
      <4>4. QED  BY <4>2, <4>3
    <3>4. UNCHANGED <<bucket, key, crossed>>  BY <2>1
    <3>5. \A g \in Entry : Linked(victim[g])' <=> Linked(victim'[g])  BY <3>4 DEF Linked
    <3>6. \A d \in Entry \ crossed' :
            /\ cleanpc'[d] # "idle" => life'[d] = "ready"
            /\ life'[d] = "ready" /\ cleanpc'[d] # "free" => bucket'[Hash(key'[d])] = <<d>>
      BY <3>3, <3>4
    <3>7. QED  BY <3>1, <3>2, <3>4, <3>5, <3>6 DEF EntrySound
  <2>8. UnusedSound'
    <3>1. \A d \in Entry : life'[d] = "unused" => life[d] = "unused"  BY <2>2
    <3>2. \A g \in Entry, d \in Entry : victim'[g] = d => victim[g] = d  BY <2>2, Constants
    <3>3. QED  BY <1>1, <2>1, <3>1, <3>2 DEF UnusedSound, Raced, context
  <2>9. LateFinders'
    <3> SUFFICES ASSUME NEW d \in Entry, cleanpc'[d] # "idle" \/ life'[d] = "freed", ~Raced(d)
                 PROVE  ~armed[d] /\ \A x \in Context : ent[x] # d
      BY <2>1 DEF LateFinders, Raced, context
    <3>1. cleanpc[d] # "idle" \/ life[d] = "freed"
      <4>1. CASE d = v  BY <1>3, <2>1, <4>1 DEF Raced
      <4>2. CASE d # v  BY <2>2, <4>2
      <4>3. QED  BY <4>1, <4>2
    <3>2. QED  BY <1>1, <3>1 DEF LateFinders
  <2>10. ASSUME NEW p \in stored, ~Raced(p.entry)' PROVE Swept(p)' <=> Swept(p)
    <3>1. p.entry \in Entry  BY <1>1, Copies DEF Types, TypeOK
    <3>2. p.entry \notin crossed  BY <2>1, <2>10 DEF Raced
    <3>3. CASE p.entry = v
      <4>1. v = e  BY <1>3, <3>2, <3>3
      <4>2. QED  BY <2>1, <2>2, <3>3, <4>1 DEF Swept
    <3>4. CASE p.entry # v
      <4>1. p.entry # e  BY <1>3, <3>2, <3>4
      <4>2. QED  BY <2>2, <3>1, <3>4, <4>1 DEF Swept
    <3>5. QED  BY <3>3, <3>4
  <2>11. UNCHANGED <<seq, buffer, stored, freed, context, frames, fault, failed>>
         /\ met \subseteq met' /\ crossed \subseteq crossed'
    BY <2>1
  <2>12. QED  BY <2>5, <2>6, <2>7, <2>8, <2>9, <2>10, <2>11, CleanKeeps
<1>6. QED  BY <1>4, <1>5

----------------------------------------------------------------------------
(* Every step keeps the invariant.                                         *)
LEMMA NextSend == SendInv /\ [Next]_vars => SendInv'
<1> SUFFICES ASSUME SendInv, [Next]_vars PROVE SendInv'  OBVIOUS
<1>1. CASE Next
  <2>1. fault = NoFault  BY <1>1 DEF Next
  <2>2. CASE Arrival  BY <2>1, <2>2, TxFindKeeps, DackFindKeeps DEF Arrival
  <2>3. ASSUME NEW c \in Callers, Tx(c) PROVE SendInv'
    BY <2>1, <2>3, TxAddKeeps, TxTouchKeeps, TxNumberKeeps, TxStoreKeeps, TxFreeKeeps DEF Tx
  <2>4. CASE Dack  BY <2>1, <2>4, DackStepKeeps
  <2>5. ASSUME NEW e \in Entry, Clean(e) PROVE SendInv'
    BY <2>1, <2>5, CleanFireKeeps, CleanFindKeeps, CleanSlotKeeps, CleanUnlinkKeeps, CleanFreeKeeps
       DEF Clean
  <2>6. QED  BY <1>1, <2>2, <2>3, <2>4, <2>5 DEF Next
<1>2. CASE UNCHANGED vars
  <2>1. UNCHANGED <<bucket, life, key, seq, buffer, freed, stored, armed, pc, ent, enc, num, ptr,
                    dseq, cleanpc, victim, i, fault, met, crossed, failed>>
    BY <1>2 DEF vars, entries, buffers, context, cleanup, history
  <2>2. Types'  BY <2>1 DEF SendInv, Types, TypeOK
  <2>3. BucketsSound' /\ EntrySound' /\ UnusedSound'
    BY <2>1 DEF SendInv, BucketsSound, EntrySound, Linked, UnusedSound, Raced
  <2>4. ContextSound' /\ LateFinders'
    BY <2>1 DEF SendInv, ContextSound, LateFinders, Raced
  <2>5. Data'
    BY <2>1 DEF SendInv, Data, SeqSound, InTurn, SlotsSound, PtrSound, FreedSound, Reachable, CleanSound,
                Works, Stores, Frees, Raced, Swept, Current
  <2>6. MisuseExplained'  BY <2>1 DEF SendInv, MisuseExplained, Raced, Unstored
  <2>7. QED  BY <2>2, <2>3, <2>4, <2>5, <2>6 DEF SendInv, Data
<1>3. QED  BY <1>1, <1>2

(* The invariant itself.                                                   *)
THEOREM SendInvariant == Spec => []SendInv
<1>1. Init => SendInv  BY InitSend
<1>2. SendInv /\ [Next]_vars => SendInv'  BY NextSend
<1>3. QED  BY <1>1, <1>2, PTL DEF Spec

(* The fields of vmac.h:175-194 keep their types, and an entry in use has  *)
(* its encoding (tx.c:174).                                                *)
THEOREM SendTableTypeCorrect == Spec => []TypeOK
<1>1. SendInv => TypeOK  BY DEF SendInv, Types
<1>2. QED  BY <1>1, SendInvariant, PTL

(* With any number of threads in vmac_tx, and a timer that may overtake one*)
(* between find_tx and mod_timer, every use of freed or unset memory by    *)
(* vmac_tx, by a DACK or by the clean-up, and every copy freed twice, is   *)
(* one of the races that MisuseExplained names (tx.c:158-219,              *)
(* rx.c:318-390, clean.c:83-103).                                          *)
THEOREM SendMisuseHolds == Spec => []MisuseExplained
<1>1. SendInv => MisuseExplained  BY DEF SendInv
<1>2. QED  BY <1>1, SendInvariant, PTL

(* An entry removed without such a race is in no bucket, has no timer, and *)
(* took every copy it had since seq was last 0 with it, however often the  *)
(* u16 has wrapped (clean.c:96-102, tx.c:200-218).                         *)
THEOREM RemovedForGoodHolds == Spec => []RemovedForGood
<1>1. SendInv => RemovedForGood
  <2> SUFFICES ASSUME SendInv, NEW e \in Entry, life[e] = "freed"
               PROVE  /\ \A b \in DOMAIN bucket : e \notin ToSet(bucket[b])
                      /\ ~Raced(e) =>
                           /\ ~armed[e]
                           /\ \A c \in stored : c.entry = e /\ Current(c) => c \in freed
    BY DEF RemovedForGood
  <2>1. Types /\ BucketsSound /\ LateFinders /\ CleanSound  BY DEF SendInv
  <2>2. \A b \in DOMAIN bucket : e \notin ToSet(bucket[b])
    <3>1. DOMAIN bucket = 0..NBuckets - 1  BY <2>1 DEF Types
    <3>2. \A b \in 0..NBuckets - 1 : \A k \in DOMAIN bucket[b] : bucket[b][k] # e
      BY <2>1 DEF BucketsSound
    <3>3. QED  BY <3>1, <3>2 DEF ToSet
  <2>3. ASSUME ~Raced(e), NEW c \in stored, c.entry = e, Current(c) PROVE c \in freed
    BY <2>1, <2>3 DEF CleanSound, Swept
  <2>4. ~Raced(e) => ~armed[e]  BY <2>1 DEF LateFinders
  <2>5. QED  BY <2>2, <2>3, <2>4
<1>2. QED  BY <1>1, SendInvariant, PTL
=============================================================================
