--------------------------- MODULE VmacTableProofs --------------------------
(***************************************************************************)
(* Invariance proofs for VmacTable with one thread in vmac_tx, for any     *)
(* number of encodings, buckets and entries.                               *)
(***************************************************************************)
EXTENDS VmacTable, SequenceTheorems, TLAPS

(* One process sends, and netlink runs nl_recv once at a time for it.      *)
OneCaller == \A c, d \in Callers : c = d

Used(e) == life[e] # "unused"
Cleaned(e) == cleanpc[e] # "idle" \/ life[e] = "freed"

(* A bucket is empty or holds one usable entry of its own.                 *)
Holds(b, e) == bucket[b] = <<e>> /\ life[e] \in {"bare", "ready"} /\ Hash(key[e]) = b
BucketsSound ==
  \A b \in 0..NBuckets - 1 : bucket[b] = <<>> \/ \E e \in Entry : Holds(b, e)

(* Where an entry that is used and not freed is.                           *)
EntrySound ==
  /\ \A e \in Entry : life[e] \in {"bare", "ready"} =>
       IF cleanpc[e] = "free" THEN bucket[Hash(key[e])] # <<e>>
                              ELSE bucket[Hash(key[e])] = <<e>>
  /\ \A e \in Entry : life[e] = "bare" =>
       ~encArmed[e] /\ \E c \in Callers : ent[c] = e /\ pc[c] = "setup"
  /\ \A e \in Entry : cleanpc[e] # "idle" => life[e] = "ready"
  /\ \A e \in Entry : victim[e] = IF cleanpc[e] \in {"unlink", "free"} THEN e ELSE None

(* What is not used yet has nothing pending, and nobody knows it.          *)
UnusedSound == \A e \in Entry : life[e] = "unused" =>
  /\ ~encArmed[e] /\ ~dackArmed[e] /\ e \notin raced \cup reported
  /\ \A x \in Context : ent[x] # e

(* The places of the contexts, and what they know there.                   *)
ContextSound ==
  /\ \A c \in Callers : pc[c] \in {"idle", "add", "setup", "touch"}
  /\ pc["rx"] \in {"idle", "touch", "update"} /\ pc["gen"] \in {"idle", "install"}
  /\ \A x \in Context :
       /\ pc[x] \in {"idle", "add"} <=> ent[x] = None
       /\ pc[x] # "idle" => enc[x] \in Enc
       /\ ent[x] # None => Hash(enc[x]) = Hash(key[ent[x]])
  /\ \A c \in Callers : pc[c] = "add" => bucket[Hash(enc[c])] = <<>>
  /\ \A c \in Callers : pc[c] = "setup" => life[ent[c]] = "bare"

(* The timeout of an entry in the table is pending or about to be.         *)
TimeoutComes == \A e \in Entry : life[e] \in {"bare", "ready"} =>
  \/ encArmed[e] \/ cleanpc[e] # "idle"
  \/ \E c \in Callers : ent[c] = e /\ pc[c] \in {"setup", "touch"}

(* Who still knows an entry that is being cleaned had it in hand when the  *)
(* timer fired or found it after.                                          *)
LateFinders == \A e \in Entry : Cleaned(e) /\ e \notin raced =>
  /\ \A x \in Context : ent[x] # e
  /\ ~encArmed[e] /\ ~dackArmed[e]

(* A request has an entry, or had one that was used during its clean-up.   *)
RequestsServed == \A k \in DOMAIN dqueue : \E e \in Entry :
  /\ Used(e) /\ Hash(key[e]) = Hash(dqueue[k])
  /\ e \in raced \/ ~Cleaned(e)

ReportsSet == reported \subseteq Entry /\ \A e \in reported : dack[e] # "junk"

TableInv ==
  /\ TypeOK /\ BucketsSound /\ EntrySound /\ UnusedSound /\ ContextSound
  /\ TimeoutComes /\ LateFinders /\ RequestsServed /\ ReportsSet /\ MisuseExplained

LEMMA HashRange == \A n \in Enc : Hash(n) \in 0..NBuckets - 1
  BY TableAssumption DEF Hash

(* What find_rx returns: nothing for an empty bucket, or its one entry.    *)
LEMMA FindOne ==
  ASSUME TypeOK, BucketsSound, NEW n \in Enc
  PROVE  \/ Find(n) = None /\ bucket[Hash(n)] = <<>>
         \/ Find(n) \in Entry /\ Holds(Hash(n), Find(n))
<1>1. CASE bucket[Hash(n)] = <<>>  BY <1>1 DEF Find
<1>2. ASSUME NEW e \in Entry, Holds(Hash(n), e) PROVE Find(n) = e
  <2>1. bucket[Hash(n)] = <<e>>  BY <1>2 DEF Holds
  <2>2. <<e>> # <<>> /\ Last(<<e>>) = e  BY DEF Last
  <2>3. QED  BY <2>1, <2>2 DEF Find
<1>3. QED  BY <1>1, <1>2, HashRange DEF BucketsSound

LEMMA InitTable == Init => TableInv
<1> SUFFICES ASSUME Init PROVE TableInv  OBVIOUS
<1>1. <<>> \in Seq(Entry) /\ <<>> \in Seq(Enc) /\ DOMAIN <<>> = {}  OBVIOUS
<1>2. TypeOK  BY <1>1 DEF Init, TypeOK
<1>3. {"rx", "gen"} \subseteq Context  BY DEF Context
<1>4. ContextSound  BY <1>3 DEF Init, ContextSound, Context
<1>5. BucketsSound /\ EntrySound /\ UnusedSound
  BY TableAssumption DEF Init, BucketsSound, EntrySound, UnusedSound, Entry
<1>6. TimeoutComes /\ LateFinders /\ RequestsServed /\ ReportsSet
  BY <1>1 DEF Init, TimeoutComes, LateFinders, Cleaned, RequestsServed, ReportsSet
<1>7. MisuseExplained  BY DEF Init, NoFault, MisuseExplained
<1>8. QED  BY <1>2, <1>4, <1>5, <1>6, <1>7 DEF TableInv

(* An undefined step that can be explained; everything else stands still.  *)
Explained(kind, e) ==
  \/ kind = "freed" /\ e \in raced
  \/ kind = "missing" /\ \E d \in raced : Hash(key[d]) = Hash(Head(dqueue))
  \/ kind = "unset" /\ \E c \in Callers : ent[c] = e /\ pc[c] = "setup"
  \/ kind = "junk" /\ e \notin reported
  \/ kind = "null" /\ \E c \in Callers : pc[c] = "add"

LEMMA FaultStep ==
  ASSUME TableInv, NEW kind, NEW e, Fault(kind, e), Explained(kind, e)
  PROVE  TableInv'
<1> USE DEF Fault, table, timers, context, cleanup
<1>1. TypeOK' /\ BucketsSound'  BY DEF TableInv, TypeOK, BucketsSound, Holds
<1>2. EntrySound' /\ UnusedSound'  BY DEF TableInv, EntrySound, UnusedSound
<1>3. ContextSound' /\ TimeoutComes'  BY DEF TableInv, ContextSound, TimeoutComes
<1>4. LateFinders' /\ RequestsServed' /\ ReportsSet'
  BY DEF TableInv, LateFinders, Cleaned, RequestsServed, Used, ReportsSet
<1>5. MisuseExplained'
  <2>1. fault'.kind = kind /\ fault'.entry = e  OBVIOUS
  <2>2. QED  BY <2>1 DEF Explained, MisuseExplained
<1>6. QED  BY <1>1, <1>2, <1>3, <1>4, <1>5 DEF TableInv

(* The uses of an entry that is not ready can be explained.                *)
LEMMA MisuseStep ==
  ASSUME TableInv, NEW x \in Context, ent[x] \in Entry, Unusable(ent[x]), Misuse(ent[x])
  PROVE  TableInv'
<1>1. CASE life[ent[x]] = "freed"
  <2>1. ent[x] \in raced  BY <1>1 DEF TableInv, LateFinders, Cleaned
  <2>2. QED  BY <1>1, <2>1, FaultStep DEF Misuse, Explained
<1>2. CASE life[ent[x]] # "freed"
  <2>1. life[ent[x]] = "bare"  BY <1>2 DEF TableInv, TypeOK, UnusedSound, Unusable
  <2>2. \E c \in Callers : ent[c] = ent[x] /\ pc[c] = "setup"
    BY <2>1 DEF TableInv, EntrySound
  <2>3. QED  BY <1>2, <2>2, FaultStep DEF Misuse, Explained
<1>3. QED  BY <1>1, <1>2

(* A context that looks an encoding up, and finds its entry or, in vmac_tx,*)
(* none.                                                                   *)
LEMMA FindStep ==
  ASSUME TableInv, fault = NoFault, NEW x \in Context, NEW n \in Enc, NEW p,
         FindFor(x, n, p), pc[x] = "idle",
         IF Find(n) = None THEN p = "add" /\ x \in Callers
                           ELSE p = IF x = "gen" THEN "install" ELSE "touch",
         UNCHANGED <<table, dack, timers, cleanup, dqueue, fault, reported>>
  PROVE  TableInv'
<1> USE DEF TableInv, table, timers, cleanup
<1>1. /\ pc' = [pc EXCEPT ![x] = p] /\ ent' = [ent EXCEPT ![x] = Find(n)]
      /\ enc' = [enc EXCEPT ![x] = n]
      /\ raced' = raced \cup {e \in {Find(n)} \ {None} : cleanpc[e] # "idle"}
  BY DEF FindFor
<1>2. \/ Find(n) = None /\ bucket[Hash(n)] = <<>>
      \/ Find(n) \in Entry /\ Holds(Hash(n), Find(n))
  BY FindOne
<1>3. None \notin Entry /\ "gen" \notin Callers /\ "rx" \notin Callers /\ "gen" # "rx"
  BY TableAssumption DEF Entry
<1>4. TypeOK'  BY <1>1, <1>2 DEF TypeOK
<1>5. BucketsSound'  BY DEF BucketsSound, Holds
<1>6. ent[x] = None  BY DEF ContextSound
<1>7. \A y \in Context \ {x} : pc'[y] = pc[y] /\ ent'[y] = ent[y] /\ enc'[y] = enc[y]
  BY <1>1 DEF TypeOK
<1>8. pc'[x] = p /\ ent'[x] = Find(n) /\ enc'[x] = n  BY <1>1 DEF TypeOK
<1>9. EntrySound'
  <2>1. ASSUME NEW c \in Callers, pc[c] = "setup" PROVE pc'[c] = "setup" /\ ent'[c] = ent[c]
    BY <2>1, <1>7 DEF Context
  <2>2. EntrySound /\ UNCHANGED <<bucket, life, key, encArmed, cleanpc, victim>>  OBVIOUS
  <2> HIDE DEF TableInv
  <2>3. \A e \in Entry : life[e] = "bare" =>
          ~encArmed[e] /\ \E c \in Callers : ent'[c] = e /\ pc'[c] = "setup"
    BY <2>1, <2>2 DEF EntrySound
  <2>4. QED  BY <2>2, <2>3 DEF EntrySound
<1>10. UnusedSound'
  <2>1. ASSUME NEW e \in Entry, life[e] = "unused" PROVE e # Find(n)
    BY <1>2, <1>3, <2>1 DEF Holds
  <2>2. QED  BY <1>1, <1>7, <1>8, <2>1 DEF UnusedSound
<1>11. ContextSound'
  <2>1. p \in {"add", "touch", "install"} /\ (p = "install" <=> x = "gen")
        /\ (p = "add" => x \in Callers) /\ (p = "add" <=> Find(n) = None)
    BY <1>3
  <2>2. \A c \in Callers : pc'[c] \in {"idle", "add", "setup", "touch"}
    BY <1>3, <1>7, <1>8, <2>1 DEF ContextSound, Context
  <2>3. pc'["rx"] \in {"idle", "touch", "update"} /\ pc'["gen"] \in {"idle", "install"}
    BY <1>3, <1>7, <1>8, <2>1 DEF ContextSound, Context
  <2>4. \A y \in Context :
          /\ pc'[y] \in {"idle", "add"} <=> ent'[y] = None
          /\ pc'[y] # "idle" => enc'[y] \in Enc
          /\ ent'[y] # None => Hash(enc'[y]) = Hash(key[ent'[y]])
    BY <1>2, <1>7, <1>8, <2>1 DEF ContextSound, Holds
  <2>5. \A c \in Callers : pc'[c] = "add" => bucket[Hash(enc'[c])] = <<>>
    BY <1>2, <1>3, <1>7, <1>8, <2>1 DEF ContextSound, Context
  <2>6. \A c \in Callers : pc'[c] = "setup" => life[ent'[c]] = "bare"
    BY <1>7, <1>8, <2>1 DEF ContextSound, Context
  <2>7. QED  BY <2>2, <2>3, <2>4, <2>5, <2>6 DEF ContextSound
<1>12. TimeoutComes'
  <2>1. ASSUME NEW c \in Callers, ent[c] # None PROVE pc'[c] = pc[c] /\ ent'[c] = ent[c]
    BY <2>1, <1>6, <1>7 DEF Context
  <2>2. QED  BY <2>1, <1>3 DEF TimeoutComes
<1>13. LateFinders'
  <2>1. ASSUME NEW e \in Entry, Cleaned(e), e \notin raced' PROVE e # Find(n)
    BY <1>1, <1>2, <1>3, <2>1 DEF Cleaned, Holds
  <2>2. QED  BY <1>1, <1>7, <1>8, <2>1 DEF LateFinders, Cleaned
<1>14. RequestsServed' /\ ReportsSet'
  BY <1>1 DEF RequestsServed, Used, Cleaned, ReportsSet
<1>15. MisuseExplained'  BY DEF MisuseExplained, NoFault
<1>16. QED  BY <1>4, <1>5, <1>9, <1>10, <1>11, <1>12, <1>13, <1>14, <1>15

----------------------------------------------------------------------------
(* vmac_tx: an entry is created, by the one thread that does so.           *)
LEMMA AddEntryStep ==
  ASSUME OneCaller, TableInv, fault = NoFault, NEW c \in Callers, TxAdd(c),
         ~Fault("null", None)
  PROVE  TableInv'
<1> USE DEF TableInv
<1>1. PICK e \in Entry, d0 \in {"null", "junk"} :
        /\ life[e] = "unused"
        /\ life' = [life EXCEPT ![e] = "bare"] /\ key' = [key EXCEPT ![e] = enc[c]]
        /\ dack' = [dack EXCEPT ![e] = d0]
        /\ bucket' = [bucket EXCEPT ![Hash(enc[c])] = <<e>> \o @]
        /\ ent' = [ent EXCEPT ![c] = e]
  BY DEF TxAdd
<1>2. /\ pc[c] = "add" /\ pc' = [pc EXCEPT ![c] = "setup"]
      /\ UNCHANGED <<timers, enc, cleanup, dqueue, traffic, fault, raced, reported>>
  BY DEF TxAdd
<1> DEFINE b == Hash(enc[c])
<1>3. c \in Context /\ enc[c] \in Enc /\ b \in 0..NBuckets - 1 /\ bucket[b] = <<>>
      /\ ent[c] = None /\ None \notin Entry
  BY <1>2, HashRange, TableAssumption DEF Context, ContextSound, Entry
<1>4. bucket' = [bucket EXCEPT ![b] = <<e>>]
  <2>1. <<e>> \o <<>> = <<e>>  OBVIOUS
  <2>2. QED  BY <1>1, <1>3, <2>1 DEF TypeOK
<1> HIDE DEF b
<1>5. TypeOK'
  <2>1. <<e>> \in Seq(Entry)  OBVIOUS
  <2>2. bucket' \in [0..NBuckets - 1 -> Seq(Entry)]  BY <1>3, <1>4, <2>1 DEF TypeOK
  <2>3. /\ key' \in [Entry -> Enc \cup {None}]
        /\ \A d \in Entry : life'[d] # "unused" => key'[d] \in Enc
    BY <1>1, <1>3 DEF TypeOK
  <2>4. life' \in [Entry -> {"unused", "bare", "ready", "freed"}]
        /\ dack' \in [Entry -> {"null", "junk", "frame"}]
    BY <1>1 DEF TypeOK
  <2>5. pc' \in [Context -> {"idle", "add", "setup", "touch", "update", "install"}]
        /\ ent' \in [Context -> Entry \cup {None}]
    BY <1>1, <1>2, <1>3 DEF TypeOK
  <2>6. QED  BY <1>2, <2>2, <2>3, <2>4, <2>5 DEF TypeOK, timers, cleanup
\* What changes, and for whom.
<1>6. /\ bucket'[b] = <<e>> /\ \A x \in (0..NBuckets - 1) \ {b} : bucket'[x] = bucket[x]
      /\ life'[e] = "bare" /\ key'[e] = enc[c] /\ Hash(key'[e]) = b
      /\ \A d \in Entry \ {e} : life'[d] = life[d] /\ key'[d] = key[d] /\ dack'[d] = dack[d]
      /\ pc'[c] = "setup" /\ ent'[c] = e
      /\ \A x \in Context \ {c} : pc'[x] = pc[x] /\ ent'[x] = ent[x] /\ ent[x] # e
      /\ enc' = enc
  BY <1>1, <1>2, <1>3, <1>4 DEF TypeOK, UnusedSound, b
<1>7. \A d \in Callers : d = c  BY DEF OneCaller
<1>8. \A d \in Entry : life[d] # "bare"  BY <1>2, <1>7 DEF EntrySound
<1>9. \A d \in Entry : life[d] = "ready" => Hash(key[d]) \in 0..NBuckets - 1
  BY HashRange DEF TypeOK
<1>10. ~encArmed[e] /\ ~dackArmed[e] /\ e \notin raced \cup reported /\ cleanpc[e] = "idle"
  BY <1>1 DEF UnusedSound, EntrySound
<1>11. BucketsSound'
  <2> SUFFICES ASSUME NEW x \in 0..NBuckets - 1
               PROVE  bucket'[x] = <<>> \/ \E d \in Entry : Holds(x, d)'
    BY DEF BucketsSound
  <2>1. CASE x = b  BY <2>1, <1>6 DEF Holds
  <2>2. CASE x # b
    <3>1. ASSUME NEW d \in Entry, Holds(x, d) PROVE Holds(x, d)'
      BY <1>1, <1>6, <2>2, <3>1 DEF Holds
    <3>2. QED  BY <1>6, <2>2, <3>1 DEF BucketsSound
  <2>3. QED  BY <2>1, <2>2
<1>12. EntrySound'
  <2>1. ASSUME NEW d \in Entry, life'[d] \in {"bare", "ready"}
        PROVE  IF cleanpc[d] = "free" THEN bucket'[Hash(key'[d])] # <<d>>
                                      ELSE bucket'[Hash(key'[d])] = <<d>>
    <3>1. CASE d = e  BY <3>1, <1>6, <1>10
    <3>2. CASE d # e
      <4>1. life[d] = "ready" /\ key'[d] = key[d]  BY <2>1, <3>2, <1>6, <1>8
      <4>2. bucket'[Hash(key[d])] =
              IF Hash(key[d]) = b THEN <<e>> ELSE bucket[Hash(key[d])]
        BY <4>1, <1>6, <1>9
      <4>3. <<e>> # <<d>> /\ <<d>> # <<>>  BY <3>2
      <4>4. IF cleanpc[d] = "free" THEN bucket[Hash(key[d])] # <<d>>
                                   ELSE bucket[Hash(key[d])] = <<d>>
        BY <4>1 DEF EntrySound
      <4> HIDE DEF TableInv
      <4>5. CASE Hash(key[d]) = b  BY <4>1, <4>2, <4>3, <4>4, <4>5, <1>3
      <4>6. CASE Hash(key[d]) # b  BY <4>1, <4>2, <4>4, <4>6
      <4>7. QED  BY <4>5, <4>6
    <3>3. QED  BY <3>1, <3>2
  <2>2. \A d \in Entry : life'[d] = "bare" =>
          ~encArmed[d] /\ \E x \in Callers : ent'[x] = d /\ pc'[x] = "setup"
    BY <1>6, <1>8, <1>10
  <2>3. \A d \in Entry : cleanpc[d] # "idle" => life'[d] = "ready"
    BY <1>6, <1>10 DEF EntrySound
  <2>4. UNCHANGED <<encArmed, cleanpc, victim>>  BY <1>2 DEF timers, cleanup
  <2>5. \A d \in Entry : Hash(key[d])' = Hash(key'[d])  BY DEF Hash
  <2>6. \A d \in Entry : victim[d] = IF cleanpc[d] \in {"unlink", "free"} THEN d ELSE None
    BY DEF EntrySound
  <2> HIDE DEF TableInv
  <2>7. QED  BY <2>1, <2>2, <2>3, <2>4, <2>5, <2>6 DEF EntrySound
<1>13. UnusedSound'  BY <1>2, <1>6 DEF UnusedSound, timers
<1>14. ContextSound'
  <2>1. \A x \in Context :
          /\ pc'[x] \in {"idle", "add"} <=> ent'[x] = None
          /\ pc'[x] # "idle" => enc[x] \in Enc
          /\ ent'[x] # None => Hash(enc[x]) = Hash(key'[ent'[x]])
    <3>1. Hash(enc[c]) = Hash(key'[e])  BY <1>6
    <3>2. \A x \in Context \ {c} : ent[x] # None => key'[ent[x]] = key[ent[x]]
      BY <1>6 DEF TypeOK
    <3>3. QED  BY <1>3, <1>6, <3>1, <3>2 DEF ContextSound
  <2>2. "rx" # c /\ "gen" # c /\ "rx" \in Context /\ "gen" \in Context
    BY TableAssumption DEF Context
  <2>3. QED  BY <1>6, <1>7, <2>1, <2>2 DEF ContextSound
<1>15. TimeoutComes'
  <2>1. \A d \in Entry \ {e} : life'[d] = "ready" => encArmed[d] \/ cleanpc[d] # "idle"
    BY <1>2, <1>3, <1>6, <1>7 DEF TimeoutComes
  <2>2. QED  BY <1>2, <1>6, <1>8, <2>1 DEF TimeoutComes, timers, cleanup
<1>16. LateFinders'
  <2>1. ASSUME NEW d \in Entry, Cleaned(d)' PROVE d # e /\ Cleaned(d)
    BY <1>2, <1>6, <1>10, <2>1 DEF Cleaned, cleanup
  <2>2. QED  BY <1>2, <1>6, <2>1 DEF LateFinders, timers
<1>17. RequestsServed'
  <2>1. \A d \in Entry : Used(d) => Used(d)' /\ key'[d] = key[d] /\ (Cleaned(d)' <=> Cleaned(d))
    BY <1>1, <1>2, <1>6 DEF Used, Cleaned, cleanup
  <2>2. QED  BY <1>2, <2>1 DEF RequestsServed
<1>18. ReportsSet'
  BY <1>2, <1>6, <1>10 DEF ReportsSet
<1>19. MisuseExplained'  BY <1>2 DEF MisuseExplained, NoFault
<1>20. QED
  BY <1>5, <1>11, <1>12, <1>13, <1>14, <1>15, <1>16, <1>17, <1>18, <1>19

(* A block is made an entry, or there was none.                            *)
LEMMA AddStep ==
  ASSUME OneCaller, TableInv, fault = NoFault, NEW c \in Callers, TxAdd(c)
  PROVE  TableInv'
<1>1. CASE Fault("null", None)
  <2>1. pc[c] = "add"  BY DEF TxAdd
  <2>2. QED  BY <1>1, <2>1, FaultStep DEF Explained
<1>2. CASE ~Fault("null", None)  BY <1>2, AddEntryStep
<1>3. QED  BY <1>1, <1>2

LEMMA SetupStep ==
  ASSUME OneCaller, TableInv, fault = NoFault, NEW c \in Callers, TxSetup(c)
  PROVE  TableInv'
<1> USE DEF TableInv
<1>1. /\ pc[c] = "setup" /\ life' = [life EXCEPT ![ent[c]] = "ready"]
      /\ dackArmed' = [dackArmed EXCEPT ![ent[c]] = TRUE] /\ pc' = [pc EXCEPT ![c] = "touch"]
      /\ UNCHANGED <<bucket, key, dack, encArmed, ent, enc, cleanup, dqueue, traffic, fault,
                     raced, reported>>
  BY DEF TxSetup
<1> DEFINE e == ent[c]
<1>2. c \in Context /\ e \in Entry /\ life[e] = "bare"
  <2>1. c \in Context  BY DEF Context
  <2>2. ent[c] # None /\ life[ent[c]] = "bare"  BY <1>1, <2>1 DEF ContextSound
  <2>3. QED  BY <2>1, <2>2 DEF TypeOK
<1>3. ~encArmed[e] /\ cleanpc[e] = "idle"  BY <1>2 DEF EntrySound
<1>4. /\ life'[e] = "ready" /\ \A d \in Entry \ {e} : life'[d] = life[d]
      /\ \A d \in Entry \ {e} : dackArmed'[d] = dackArmed[d]
      /\ pc'[c] = "touch" /\ \A x \in Context \ {c} : pc'[x] = pc[x]
  BY <1>1, <1>2 DEF TypeOK
<1> HIDE DEF e
<1>5. TypeOK'
  <2>1. life' \in [Entry -> {"unused", "bare", "ready", "freed"}] /\ dackArmed' \in [Entry -> BOOLEAN]
        /\ pc' \in [Context -> {"idle", "add", "setup", "touch", "update", "install"}]
    BY <1>1, <1>2 DEF TypeOK, e
  <2>2. \A d \in Entry : life'[d] # "unused" => key'[d] \in Enc  BY <1>1, <1>2, <1>4 DEF TypeOK
  <2>3. QED  BY <1>1, <2>1, <2>2 DEF TypeOK, cleanup
<1>6. BucketsSound'  BY <1>1, <1>2, <1>4 DEF BucketsSound, Holds
<1>7. EntrySound'
  <2>1. ASSUME NEW d \in Entry, life'[d] = "bare" PROVE FALSE
    <3>1. PICK x \in Callers : ent[x] = d /\ pc[x] = "setup"  BY <2>1, <1>4 DEF EntrySound
    <3>2. x = c  BY DEF OneCaller
    <3>3. QED  BY <2>1, <3>1, <3>2, <1>4 DEF e
  <2>2. \A d \in Entry : life'[d] \in {"bare", "ready"} =>
          IF cleanpc[d] = "free" THEN bucket[Hash(key[d])] # <<d>>
                                 ELSE bucket[Hash(key[d])] = <<d>>
    BY <1>2, <1>4 DEF EntrySound
  <2>3. \A d \in Entry : cleanpc[d] # "idle" => life'[d] = "ready"
    BY <1>3, <1>4 DEF EntrySound
  <2>4. QED  BY <1>1, <2>1, <2>2, <2>3 DEF EntrySound, cleanup
<1>8. UnusedSound'  BY <1>1, <1>2, <1>4 DEF UnusedSound
<1>9. ContextSound'
  <2>1. "rx" # c /\ "gen" # c /\ "rx" \in Context /\ "gen" \in Context
    BY TableAssumption DEF Context
  <2>2. \A x \in Callers : x = c  BY DEF OneCaller
  <2>3. \A x \in Context :
          /\ pc'[x] \in {"idle", "add"} <=> ent[x] = None
          /\ pc'[x] # "idle" => enc[x] \in Enc
    BY <1>1, <1>2, <1>4 DEF ContextSound
  <2>4. QED  BY <1>1, <1>4, <2>1, <2>2, <2>3 DEF ContextSound
<1>10. TimeoutComes'
  <2>1. \A x \in Callers : x = c  BY DEF OneCaller
  <2>2. QED  BY <1>1, <1>2, <1>4, <2>1 DEF TimeoutComes, cleanup, e
<1>11. LateFinders'
  <2>1. \A d \in Entry : Cleaned(d)' => d # e /\ Cleaned(d)
    BY <1>1, <1>3, <1>4 DEF Cleaned, cleanup
  <2>2. QED  BY <1>1, <1>4, <2>1 DEF LateFinders
<1>12. RequestsServed' /\ ReportsSet'
  <2>1. \A d \in Entry : Used(d) => Used(d)' /\ (Cleaned(d)' => Cleaned(d))
    BY <1>1, <1>2, <1>3, <1>4 DEF Used, Cleaned, cleanup
  <2>2. QED  BY <1>1, <2>1 DEF RequestsServed, ReportsSet
<1>13. MisuseExplained'  BY <1>1 DEF MisuseExplained, NoFault
<1>14. QED  BY <1>5, <1>6, <1>7, <1>8, <1>9, <1>10, <1>11, <1>12, <1>13

(* A context that has used its entry x starts the timeout, or leaves, or   *)
(* both: what vmac_tx, vmac_rx and prepDACK have in common.                *)
LEMMA UseStep ==
  ASSUME TableInv, fault = NoFault, NEW x \in Context, ent[x] \in Entry,
         life[ent[x]] = "ready",
         \/ Leave(x)
         \/ x = "rx" /\ pc' = [pc EXCEPT ![x] = "update"] /\ UNCHANGED <<ent, enc>>,
         encArmed' \in {encArmed, [encArmed EXCEPT ![ent[x]] = TRUE]},
         pc[x] = "touch" => encArmed' = [encArmed EXCEPT ![ent[x]] = TRUE],
         pc[x] # "setup", pc[x] # "add",
         dackArmed' = dackArmed
           \/ \E v \in BOOLEAN : dackArmed' = [dackArmed EXCEPT ![ent[x]] = @ \/ v],
         dack' \in {dack, [dack EXCEPT ![ent[x]] = "frame"]},
         \/ reported' = reported
         \/ reported' = reported \cup {ent[x]} /\ dack' = [dack EXCEPT ![ent[x]] = "frame"],
         dqueue' \in Seq(Enc), RequestsServed',
         UNCHANGED <<table, cleanup, fault, raced>>
  PROVE  TableInv'
<1> USE DEF TableInv, table, cleanup
<1> DEFINE e == ent[x]
<1>1. e \in Entry /\ life[e] = "ready" /\ None \notin Entry  BY TableAssumption DEF Entry
<1>2. /\ \A y \in Context \ {x} : pc'[y] = pc[y] /\ ent'[y] = ent[y] /\ enc'[y] = enc[y]
      /\ \/ pc'[x] = "idle" /\ ent'[x] = None
         \/ x = "rx" /\ pc'[x] = "update" /\ ent'[x] = e /\ enc'[x] = enc[x]
  BY DEF Leave, TypeOK
<1>3. /\ \A d \in Entry \ {e} : encArmed'[d] = encArmed[d] /\ dackArmed'[d] = dackArmed[d]
                               /\ dack'[d] = dack[d]
      /\ encArmed[e] => encArmed'[e]
      /\ pc[x] = "touch" => encArmed'[e]
      /\ dack'[e] = dack[e] \/ dack'[e] = "frame"
      /\ dack' # dack => dack'[e] = "frame"
  BY <1>1 DEF TypeOK
<1>4. reported' = reported \/ (reported' = reported \cup {e} /\ dack'[e] = "frame")
  BY <1>1 DEF TypeOK
<1>5. TypeOK'
  <2>1. /\ pc' \in [Context -> {"idle", "add", "setup", "touch", "update", "install"}]
        /\ ent' \in [Context -> Entry \cup {None}] /\ enc' \in [Context -> Enc \cup {None}]
    <3>1. CASE Leave(x)  BY <3>1 DEF Leave, TypeOK
    <3>2. CASE pc' = [pc EXCEPT ![x] = "update"] /\ UNCHANGED <<ent, enc>>  BY <3>2 DEF TypeOK
    <3>3. QED  BY <3>1, <3>2
  <2>2. encArmed' \in [Entry -> BOOLEAN] /\ dack' \in [Entry -> {"null", "junk", "frame"}]
    BY DEF TypeOK
  <2>3. dackArmed' \in [Entry -> BOOLEAN]  BY DEF TypeOK
  <2>4. QED  BY <2>1, <2>2, <2>3 DEF TypeOK
<1> HIDE DEF e
<1>6. BucketsSound'  BY DEF BucketsSound, Holds
<1>7. EntrySound'
  <2>1. \A c \in Callers : pc[c] = "setup" => pc'[c] = "setup" /\ ent'[c] = ent[c]
    BY <1>2 DEF Context
  <2>2. \A d \in Entry : life[d] = "bare" =>
          ~encArmed'[d] /\ \E c \in Callers : ent'[c] = d /\ pc'[c] = "setup"
    <3>1. ASSUME NEW d \in Entry, life[d] = "bare"
          PROVE  ~encArmed'[d] /\ \E c \in Callers : ent'[c] = d /\ pc'[c] = "setup"
      BY <1>1, <1>3, <2>1, <3>1 DEF EntrySound
    <3>2. QED  BY <3>1
  <2>3. UNCHANGED <<life, cleanpc, bucket, key, victim>>  OBVIOUS
  <2>4. \A d \in Entry : Hash(key[d])' = Hash(key[d])  BY <2>3 DEF Hash
  <2>5. \A d \in Entry :
          /\ life[d] \in {"bare", "ready"} =>
               IF cleanpc[d] = "free" THEN bucket[Hash(key[d])] # <<d>>
                                      ELSE bucket[Hash(key[d])] = <<d>>
          /\ cleanpc[d] # "idle" => life[d] = "ready"
          /\ victim[d] = IF cleanpc[d] \in {"unlink", "free"} THEN d ELSE None
    BY DEF EntrySound
  <2> HIDE DEF TableInv, table, cleanup
  <2>6. QED  BY <2>2, <2>3, <2>4, <2>5 DEF EntrySound
<1>8. UnusedSound'
  BY <1>1, <1>2, <1>3, <1>4 DEF UnusedSound
<1>9. ContextSound'
  <2>1. "rx" \notin Callers /\ "gen" \notin Callers /\ "rx" # "gen" /\ "rx" \in Context /\ "gen" \in Context
        /\ Callers \subseteq Context
    BY TableAssumption DEF Context
  <2>2. \A y \in Context :
          /\ pc'[y] \in {"idle", "add"} <=> ent'[y] = None
          /\ pc'[y] # "idle" => enc'[y] \in Enc
          /\ ent'[y] # None => Hash(enc'[y]) = Hash(key[ent'[y]])
    BY <1>1, <1>2 DEF ContextSound, e
  <2>3. QED  BY <1>2, <2>1, <2>2 DEF ContextSound
<1>10. TimeoutComes'
  <2>1. ASSUME NEW d \in Entry, life[d] \in {"bare", "ready"}, ~encArmed'[d], cleanpc[d] = "idle"
        PROVE  \E c \in Callers : ent'[c] = d /\ pc'[c] \in {"setup", "touch"}
    <3>1. ~encArmed[d]  BY <1>3, <2>1
    <3>2. PICK c \in Callers : ent[c] = d /\ pc[c] \in {"setup", "touch"}
      BY <2>1, <3>1 DEF TimeoutComes
    <3>3. c # x  BY <1>3, <2>1, <3>2 DEF e
    <3>4. QED  BY <1>2, <3>2, <3>3 DEF Context
  <2>2. QED  BY <2>1 DEF TimeoutComes
<1>11. LateFinders'
  <2>1. \A d \in Entry : Cleaned(d)' => Cleaned(d)  BY DEF Cleaned
  <2>2. Cleaned(e) => e \in raced  BY <1>1 DEF LateFinders, e
  <2>3. QED  BY <1>1, <1>2, <1>3, <2>1, <2>2 DEF LateFinders
<1>12. ReportsSet'  BY <1>1, <1>3, <1>4 DEF ReportsSet
<1>13. MisuseExplained'  BY DEF MisuseExplained, NoFault
<1>14. QED  BY <1>5, <1>6, <1>7, <1>8, <1>9, <1>10, <1>11, <1>12, <1>13

LEMMA TouchStep ==
  ASSUME TableInv, fault = NoFault, (\E c \in Callers : TxTouch(c)) \/ RxTouch
  PROVE  TableInv'
<1> USE DEF TableInv
<1>1. \A x \in Context : pc[x] = "touch" => ent[x] \in Entry
  BY DEF ContextSound, TypeOK
<1>2. "rx" \in Context /\ Callers \subseteq Context  BY DEF Context
<1>3. ASSUME NEW c \in Callers, TxTouch(c) PROVE TableInv'
  <2>1. CASE Unusable(ent[c])  BY <1>1, <1>2, <1>3, <2>1, MisuseStep DEF TxTouch
  <2>2. CASE ~Unusable(ent[c])
    <3>1. RequestsServed' /\ dqueue' \in Seq(Enc)
      BY <1>3, <2>2 DEF TxTouch, RequestsServed, Used, Cleaned, table, cleanup, TypeOK
    <3>2. QED  BY <1>1, <1>2, <1>3, <2>2, <3>1, UseStep DEF TxTouch, Unusable
  <2>3. QED  BY <2>1, <2>2
<1>4. CASE RxTouch
  <2>1. CASE Unusable(ent["rx"])  BY <1>1, <1>2, <1>4, <2>1, MisuseStep DEF RxTouch
  <2>2. CASE ~Unusable(ent["rx"])
    <3>1. RequestsServed' /\ dqueue' \in Seq(Enc)
      BY <1>4, <2>2 DEF RxTouch, RequestsServed, Used, Cleaned, table, cleanup, TypeOK
    <3>2. QED  BY <1>1, <1>2, <1>4, <2>2, <3>1, UseStep DEF RxTouch, Unusable
  <2>3. QED  BY <2>1, <2>2
<1>5. QED  BY <1>3, <1>4

----------------------------------------------------------------------------
(* An arrival: an interest, or a frame that finds an entry or none.        *)
LEMMA ArriveStep ==
  ASSUME TableInv, Arrival
  PROVE  TableInv'
<1> USE DEF TableInv
<1>1. fault = NoFault  BY DEF Arrival
<1>2. "rx" \in Context /\ Callers \subseteq Context /\ "rx" \notin Callers /\ "gen" \notin Callers
  BY TableAssumption DEF Context
<1>3. ASSUME NEW n \in Enc, RxFind(n) PROVE TableInv'
  <2>1. CASE Find(n) = None
    <3>1. UNCHANGED <<table, dack, timers, context, cleanup, dqueue, fault, raced, reported>>
      BY <1>3, <2>1 DEF RxFind
    <3> USE <3>1 DEF table, timers, context, cleanup
    <3>2. TypeOK' /\ BucketsSound' /\ EntrySound'
      BY DEF TypeOK, BucketsSound, Holds, EntrySound
    <3>3. UnusedSound' /\ ContextSound' /\ TimeoutComes'
      BY DEF UnusedSound, ContextSound, TimeoutComes
    <3>4. LateFinders' /\ RequestsServed' /\ ReportsSet' /\ MisuseExplained'
      BY DEF LateFinders, RequestsServed, Used, Cleaned, ReportsSet, MisuseExplained
    <3>5. QED  BY <3>2, <3>3, <3>4
  <2>2. CASE Find(n) # None
    <3>1. /\ FindFor("rx", n, "touch") /\ pc["rx"] = "idle"
          /\ UNCHANGED <<table, dack, timers, cleanup, dqueue, fault, reported>>
      BY <1>3, <2>2 DEF RxFind
    <3>2. IF Find(n) = None THEN "touch" = "add" /\ "rx" \in Callers
                            ELSE "touch" = IF "rx" = "gen" THEN "install" ELSE "touch"
      BY <2>2
    <3>3. QED  BY <1>1, <1>2, <3>1, <3>2, FindStep
  <2>3. QED  BY <2>1, <2>2
<1>4. ASSUME NEW n \in Enc, NEW c \in Callers, TxFind(c, n) PROVE TableInv'
  <2> DEFINE p == IF Find(n) = None THEN "add" ELSE "touch"
  <2>1. /\ FindFor(c, n, p) /\ pc[c] = "idle"
        /\ UNCHANGED <<table, dack, timers, cleanup, dqueue, fault, reported>>
    BY <1>4 DEF TxFind
  <2>2. IF Find(n) = None THEN p = "add" /\ c \in Callers
                          ELSE p = IF c = "gen" THEN "install" ELSE "touch"
    BY <1>2
  <2> HIDE DEF p
  <2>3. QED  BY <1>1, <1>2, <2>1, <2>2, FindStep
<1>5. QED  BY <1>3, <1>4 DEF Arrival

(* The window is updated, and a DACK is requested or not.                  *)
LEMMA UpdateStep ==
  ASSUME TableInv, fault = NoFault, RxUpdate
  PROVE  TableInv'
<1> USE DEF TableInv
<1> DEFINE e == ent["rx"]
<1>1. pc["rx"] = "update" /\ "rx" \in Context  BY DEF RxUpdate, Context
<1>2. e # None /\ Hash(enc["rx"]) = Hash(key[e]) /\ enc["rx"] \in Enc
  BY <1>1 DEF ContextSound
<1>3. e \in Entry  BY <1>1, <1>2 DEF TypeOK
<1>4. CASE Unusable(e)  BY <1>1, <1>3, <1>4, MisuseStep DEF RxUpdate
<1>5. CASE ~Unusable(e)
  <2>1. /\ dqueue' \in {dqueue, Append(dqueue, enc["rx"])} /\ Leave("rx")
        /\ UNCHANGED <<table, dack, timers, cleanup, traffic, fault, raced, reported>>
    BY <1>5 DEF RxUpdate
  <2>2. life[e] = "ready"  BY <1>5 DEF Unusable
  <2>3. dqueue \in Seq(Enc)  BY DEF TypeOK
  <2>4. dqueue' \in Seq(Enc)  BY <1>2, <2>1, <2>3, AppendProperties
  <2>5. e \in raced \/ ~Cleaned(e)  BY <1>1, <1>3 DEF LateFinders
  <2>6. RequestsServed'
    <3>1. \A d \in Entry : (Used(d)' <=> Used(d)) /\ (Cleaned(d)' <=> Cleaned(d))
      BY <2>1 DEF Used, Cleaned, table, cleanup
    <3>2. key' = key /\ raced' = raced  BY <2>1 DEF table
    <3>3. ASSUME NEW k \in DOMAIN dqueue'
          PROVE  \E d \in Entry : /\ Used(d) /\ Hash(key[d]) = Hash(dqueue'[k])
                                  /\ d \in raced \/ ~Cleaned(d)
      <4>1. CASE k \in DOMAIN dqueue /\ dqueue'[k] = dqueue[k]
        BY <4>1 DEF RequestsServed
      <4>2. CASE dqueue'[k] = enc["rx"]
        <5>1. Used(e)  BY <2>2 DEF Used
        <5>2. Hash(key[e]) = Hash(dqueue'[k])  BY <1>2, <4>2
        <5>3. QED  BY <1>3, <2>5, <5>1, <5>2
      <4>3. (k \in DOMAIN dqueue /\ dqueue'[k] = dqueue[k]) \/ dqueue'[k] = enc["rx"]
        BY <1>2, <2>1, <2>3, <3>3, AppendProperties, LenProperties
      <4>4. QED  BY <4>1, <4>2, <4>3
    <3>4. QED  BY <3>1, <3>2, <3>3 DEF RequestsServed
  <2>7. pc["rx"] # "setup" /\ pc["rx"] # "add" /\ pc["rx"] # "touch"  BY <1>1
  <2>8. /\ encArmed' = encArmed /\ dackArmed' = dackArmed /\ dack' = dack /\ reported' = reported
        /\ UNCHANGED <<table, cleanup, fault, raced>>
    BY <2>1 DEF timers
  <2>9. QED  BY <1>1, <1>3, <2>1, <2>2, <2>4, <2>6, <2>7, <2>8, UseStep
<1>6. QED  BY <1>4, <1>5

----------------------------------------------------------------------------
(* prepDACK finds an entry; that it finds none can be explained.           *)
LEMMA GenFindStep ==
  ASSUME TableInv, fault = NoFault, GenFind
  PROVE  TableInv'
<1> USE DEF TableInv
<1> DEFINE n == Head(dqueue)
<1>1. dqueue \in Seq(Enc) /\ dqueue # <<>>  BY DEF GenFind, TypeOK
<1>2. n \in Enc /\ n = dqueue[1] /\ 1 \in DOMAIN dqueue
  BY <1>1, HeadTailProperties, LenProperties, EmptySeq
<1>3. "gen" \in Context /\ "gen" \notin Callers  BY TableAssumption DEF Context
<1> HIDE DEF n
<1>4. CASE Find(n) = None
  <2>1. Fault("missing", None)  BY <1>4 DEF GenFind, n
  <2>2. bucket[Hash(n)] = <<>>
    <3>1. None \notin Entry  BY TableAssumption DEF Entry
    <3>2. QED  BY <1>2, <1>4, <3>1, FindOne
  <2>3. PICK e \in Entry : /\ Used(e) /\ Hash(key[e]) = Hash(n)
                           /\ e \in raced \/ ~Cleaned(e)
    BY <1>2 DEF RequestsServed
  <2>4. ASSUME ~Cleaned(e) PROVE FALSE
    <3>1. life[e] \in {"bare", "ready"} /\ cleanpc[e] = "idle"
      BY <2>3, <2>4 DEF Used, Cleaned, TypeOK
    <3>2. bucket[Hash(key[e])] = <<e>>  BY <3>1 DEF EntrySound
    <3>3. <<e>> # <<>>  OBVIOUS
    <3>4. QED  BY <2>2, <2>3, <3>2, <3>3
  <2>5. Explained("missing", None)  BY <2>3, <2>4 DEF Explained, n
  <2>6. QED  BY <2>1, <2>5, FaultStep
<1>5. CASE Find(n) # None
  <2>1. /\ FindFor("gen", n, "install") /\ pc["gen"] = "idle"
        /\ UNCHANGED <<table, dack, timers, cleanup, dqueue, fault, reported>>
    BY <1>5 DEF GenFind, n
  <2>2. IF Find(n) = None THEN "install" = "add" /\ "gen" \in Callers
                          ELSE "install" = IF "gen" = "gen" THEN "install" ELSE "touch"
    BY <1>5
  <2>3. QED  BY <1>2, <1>3, <2>1, <2>2, FindStep
<1>6. QED  BY <1>4, <1>5

(* The report is dropped or installed, and the request is done.            *)
LEMMA GenInstallStep ==
  ASSUME TableInv, fault = NoFault, GenInstall
  PROVE  TableInv'
<1> USE DEF TableInv
<1> DEFINE e == ent["gen"]
<1>1. pc["gen"] = "install" /\ "gen" \in Context  BY DEF GenInstall, Context
<1>2. e \in Entry  BY <1>1 DEF ContextSound, TypeOK
<1>3. CASE Unusable(e)  BY <1>1, <1>2, <1>3, MisuseStep DEF GenInstall
<1>4. CASE ~Unusable(e)
  <2>1. /\ \/ UNCHANGED <<dack, dackArmed, reported>>
           \/ /\ dack' = [dack EXCEPT ![e] = "frame"]
              /\ dackArmed' = [dackArmed EXCEPT ![e] = @ \/ dack[e] # "frame"]
              /\ reported' = reported \cup {e}
        /\ dqueue' = Tail(dqueue) /\ Leave("gen")
        /\ UNCHANGED <<table, encArmed, cleanup, traffic, fault, raced>>
    BY <1>4 DEF GenInstall
  <2>2. life[e] = "ready"  BY <1>4 DEF Unusable
  <2>3. dqueue' \in Seq(Enc) /\ \A k \in DOMAIN dqueue' : k + 1 \in DOMAIN dqueue /\ dqueue'[k] = dqueue[k + 1]
    <3>1. dqueue \in Seq(Enc)  BY DEF TypeOK
    <3>2. CASE dqueue = <<>>
      BY <2>1, <3>1, <3>2
    <3>3. CASE dqueue # <<>>
      BY <2>1, <3>1, <3>3, HeadTailProperties, LenProperties
    <3>4. QED  BY <3>2, <3>3
  <2>4. RequestsServed'
    <3>1. \A d \in Entry : (Used(d)' <=> Used(d)) /\ (Cleaned(d)' <=> Cleaned(d))
      BY <2>1 DEF Used, Cleaned, table, cleanup
    <3>2. key' = key /\ raced' = raced  BY <2>1 DEF table
    <3>3. QED  BY <2>3, <3>1, <3>2 DEF RequestsServed
  <2>5. pc["gen"] # "setup" /\ pc["gen"] # "add" /\ pc["gen"] # "touch"  BY <1>1
  <2>6. encArmed' = encArmed /\ UNCHANGED <<table, cleanup, fault, raced>>  BY <2>1
  <2>7. dackArmed' = dackArmed \/ \E v \in BOOLEAN : dackArmed' = [dackArmed EXCEPT ![e] = @ \/ v]
    <3>1. (dack[e] # "frame") \in BOOLEAN  OBVIOUS
    <3>2. QED  BY <2>1, <3>1
  <2>8. /\ dack' \in {dack, [dack EXCEPT ![e] = "frame"]}
        /\ \/ reported' = reported
           \/ reported' = reported \cup {e} /\ dack' = [dack EXCEPT ![e] = "frame"]
    BY <2>1
  <2> HIDE DEF e
  <2>9. QED  BY <1>1, <1>2, <2>1, <2>2, <2>3, <2>4, <2>5, <2>6, <2>7, <2>8, UseStep DEF e
<1>5. QED  BY <1>3, <1>4

----------------------------------------------------------------------------
(* The DACK timer.                                                         *)
LEMMA DackFireStep ==
  ASSUME TableInv, NEW e \in Entry, DackFire(e)
  PROVE  TableInv'
<1> USE DEF TableInv
<1>1. fault = NoFault /\ dackArmed[e]  BY DEF DackFire
<1>2. CASE life[e] = "freed"
  <2>1. e \in raced  BY <1>1, <1>2 DEF LateFinders, Cleaned
  <2>2. QED  BY <1>2, <2>1, FaultStep DEF DackFire, Explained
<1>3. CASE life[e] # "freed"
  <2>1. /\ dack' = [dack EXCEPT ![e] = IF @ = "frame" THEN "null" ELSE @]
        /\ dackArmed' = [dackArmed EXCEPT ![e] = FALSE]
        /\ UNCHANGED <<bucket, life, key, encArmed, pc, ent, enc, cleanpc, victim, dqueue,
                       traffic, fault, raced, reported>>
    BY <1>3 DEF DackFire, table, context, cleanup
  <2>2. \A d \in Entry : dackArmed'[d] => dackArmed[d]  BY <2>1 DEF TypeOK
  <2>3. \A d \in Entry : dack'[d] = "junk" => dack[d] = "junk"  BY <2>1 DEF TypeOK
  <2>4. TypeOK'
    <3>1. dack' \in [Entry -> {"null", "junk", "frame"}] /\ dackArmed' \in [Entry -> BOOLEAN]
      BY <2>1 DEF TypeOK
    <3>2. QED  BY <2>1, <3>1 DEF TypeOK
  <2>5. BucketsSound' /\ EntrySound'  BY <2>1 DEF BucketsSound, Holds, EntrySound
  <2>6. UnusedSound' /\ ContextSound'  BY <2>1, <2>2 DEF UnusedSound, ContextSound
  <2>7. TimeoutComes' /\ LateFinders'  BY <2>1, <2>2 DEF TimeoutComes, LateFinders, Cleaned
  <2>8. RequestsServed' /\ ReportsSet'
    BY <2>1, <2>3 DEF RequestsServed, Used, Cleaned, ReportsSet
  <2>9. MisuseExplained'  BY <1>1, <2>1 DEF MisuseExplained, NoFault
  <2>10. QED  BY <2>4, <2>5, <2>6, <2>7, <2>8, <2>9
<1>4. QED  BY <1>2, <1>3

(* The clean-up starts when nobody uses the entry.                         *)
LEMMA CleanFireStep ==
  ASSUME TableInv, fault = NoFault, NEW e \in Entry, CleanFire(e)
  PROVE  TableInv'
<1> USE DEF TableInv
<1>1. encArmed[e] /\ cleanpc[e] = "idle"  BY DEF CleanFire
<1>2. CASE life[e] = "freed"
  <2>1. e \in raced  BY <1>1, <1>2 DEF LateFinders, Cleaned
  <2>2. QED  BY <1>2, <2>1, FaultStep DEF CleanFire, Explained
<1>3. CASE life[e] # "freed"
  <2>1. /\ Elapsed(e) /\ encArmed' = [encArmed EXCEPT ![e] = FALSE]
        /\ cleanpc' = [cleanpc EXCEPT ![e] = "find"]
        /\ UNCHANGED <<bucket, life, key, dack, dackArmed, pc, ent, enc, victim, dqueue,
                       traffic, fault, reported>>
        /\ raced' = raced \cup {d \in {e} : \E x \in Context : ent[x] = d}
    BY <1>3 DEF CleanFire, table, context
  <2>2. life[e] = "ready"  BY <1>1, <1>3 DEF TypeOK, UnusedSound, EntrySound
  <2>3. /\ ~encArmed'[e] /\ cleanpc'[e] = "find"
        /\ \A d \in Entry \ {e} : encArmed'[d] = encArmed[d] /\ cleanpc'[d] = cleanpc[d]
    BY <2>1 DEF TypeOK
  <2>r. raced \subseteq raced' /\ \A d \in raced' \ raced : d = e
         /\ (e \notin raced' => \A x \in Context : ent[x] # e)
    BY <2>1
  <2>4. TypeOK'
    <3>1. encArmed' \in [Entry -> BOOLEAN]
          /\ cleanpc' \in [Entry -> {"idle", "find", "unlink", "free"}]
      BY <2>1 DEF TypeOK
    <3>2. QED  BY <2>1, <3>1 DEF TypeOK
  <2>5. BucketsSound'  BY <2>1 DEF BucketsSound, Holds
  <2>6. EntrySound'
    <3>1. \A d \in Entry : /\ (cleanpc'[d] = "free" <=> cleanpc[d] = "free")
                           /\ encArmed'[d] => encArmed[d]
                           /\ cleanpc'[d] \in {"unlink", "free"} <=> cleanpc[d] \in {"unlink", "free"}
      BY <1>1, <2>3
    <3>2. \A d \in Entry : cleanpc'[d] # "idle" => life[d] = "ready"
      BY <2>2, <2>3 DEF EntrySound
    <3>3. QED  BY <2>1, <3>1, <3>2 DEF EntrySound
  <2>7. UnusedSound' /\ ContextSound'
    BY <2>1, <2>2, <2>3, <2>r DEF UnusedSound, ContextSound
  <2>8. TimeoutComes'  BY <2>1, <2>3 DEF TimeoutComes
  <2>9. LateFinders'
    <3>1. \A d \in Entry \ {e} : Cleaned(d)' <=> Cleaned(d)  BY <2>1, <2>3 DEF Cleaned
    <3>2. QED  BY <2>1, <2>3, <2>r, <3>1 DEF LateFinders, Elapsed
  <2>10. RequestsServed'
    <3>1. \A d \in Entry \ {e} : Cleaned(d)' <=> Cleaned(d)  BY <2>1, <2>3 DEF Cleaned
    <3>2. \A k \in DOMAIN dqueue : Hash(dqueue[k]) # Hash(key[e])
      <4>1. DOMAIN dqueue = 1..Len(dqueue)  BY LenProperties DEF TypeOK
      <4>2. QED  BY <2>1, <4>1 DEF Elapsed
    <3>3. \A d \in Entry : Used(d)' <=> Used(d)  BY <2>1 DEF Used
    <3>4. ASSUME NEW k \in DOMAIN dqueue
          PROVE  \E d \in Entry : /\ Used(d) /\ Hash(key[d]) = Hash(dqueue[k])
                                  /\ d \in raced' \/ ~Cleaned(d)'
      <4>1. PICK d \in Entry : /\ Used(d) /\ Hash(key[d]) = Hash(dqueue[k])
                               /\ d \in raced \/ ~Cleaned(d)
        BY DEF RequestsServed
      <4>2. d # e  BY <3>2, <4>1
      <4>3. QED  BY <3>1, <4>1, <4>2, <2>r
    <3>5. QED  BY <2>1, <3>3, <3>4 DEF RequestsServed
  <2>11. ReportsSet' /\ MisuseExplained'  BY <2>1 DEF ReportsSet, MisuseExplained, NoFault
  <2>12. QED  BY <2>4, <2>5, <2>6, <2>7, <2>8, <2>9, <2>10, <2>11
<1>4. QED  BY <1>2, <1>3

(* What the handler finds is its own entry.                                *)
LEMMA CleanFindStep ==
  ASSUME TableInv, fault = NoFault, NEW e \in Entry, CleanFind(e)
  PROVE  TableInv'
<1> USE DEF TableInv
<1>1. cleanpc[e] = "find"  BY DEF CleanFind
<1>2. life[e] = "ready" /\ bucket[Hash(key[e])] = <<e>>  BY <1>1 DEF EntrySound
<1>3. Find(key[e]) = e
  <2>1. <<e>> # <<>> /\ Last(<<e>>) = e  BY DEF Last
  <2>2. QED  BY <1>2, <2>1 DEF Find
<1>4. e # None  BY TableAssumption DEF Entry
<1>5. /\ victim' = [victim EXCEPT ![e] = e] /\ cleanpc' = [cleanpc EXCEPT ![e] = "unlink"]
      /\ UNCHANGED <<bucket, life, key, dack, encArmed, dackArmed, pc, ent, enc, dqueue,
                     traffic, fault, raced, reported>>
  BY <1>3, <1>4 DEF CleanFind, table, timers, context
<1>6. /\ cleanpc'[e] = "unlink" /\ victim'[e] = e
      /\ \A d \in Entry \ {e} : cleanpc'[d] = cleanpc[d] /\ victim'[d] = victim[d]
  BY <1>5 DEF TypeOK
<1>7. TypeOK'
  <2>1. cleanpc' \in [Entry -> {"idle", "find", "unlink", "free"}]
        /\ victim' \in [Entry -> Entry \cup {None}]
    BY <1>5 DEF TypeOK
  <2>2. QED  BY <1>5, <2>1 DEF TypeOK
<1>8. BucketsSound'  BY <1>5 DEF BucketsSound, Holds
<1>9. EntrySound'
  <2>1. \A d \in Entry : /\ cleanpc'[d] = "free" <=> cleanpc[d] = "free"
                         /\ cleanpc'[d] # "idle" => life[d] = "ready"
    BY <1>1, <1>2, <1>6 DEF EntrySound
  <2>2. \A d \in Entry : victim'[d] = IF cleanpc'[d] \in {"unlink", "free"} THEN d ELSE None
    BY <1>6 DEF EntrySound
  <2>3. QED  BY <1>5, <2>1, <2>2 DEF EntrySound
<1>10. UnusedSound' /\ ContextSound'  BY <1>5 DEF UnusedSound, ContextSound
<1>11. TimeoutComes'  BY <1>5, <1>6 DEF TimeoutComes
<1>12. \A d \in Entry : Cleaned(d)' <=> Cleaned(d)  BY <1>1, <1>5, <1>6 DEF Cleaned
<1>13. LateFinders' /\ RequestsServed'  BY <1>5, <1>12 DEF LateFinders, RequestsServed, Used
<1>14. ReportsSet' /\ MisuseExplained'  BY <1>5 DEF ReportsSet, MisuseExplained, NoFault
<1>15. QED  BY <1>7, <1>8, <1>9, <1>10, <1>11, <1>13, <1>14

(* hash_del of the only entry leaves the bucket empty.                     *)
LEMMA UnlinkOnly == \A e : Unlink(<<e>>, e) = <<>>
<1> SUFFICES ASSUME NEW e PROVE Unlink(<<e>>, e) = <<>>  OBVIOUS
<1>1. DOMAIN <<e>> = {1} /\ <<e>>[1] = e  OBVIOUS
<1>2. Contains(<<e>>, e)  BY <1>1 DEF Contains
<1>3. (CHOOSE k \in DOMAIN <<e>> : <<e>>[k] = e) = 1  BY <1>1
<1>4. RemoveAt(<<e>>, 1) = <<>>  BY DEF RemoveAt
<1>5. QED  BY <1>2, <1>3, <1>4 DEF Unlink

LEMMA CleanUnlinkStep ==
  ASSUME TableInv, fault = NoFault, NEW e \in Entry, CleanUnlink(e)
  PROVE  TableInv'
<1> USE DEF TableInv
<1> DEFINE b == Hash(key[e])
<1>1. cleanpc[e] = "unlink" /\ victim[e] = e  BY DEF CleanUnlink, EntrySound
<1>2. life[e] = "ready" /\ bucket[b] = <<e>>  BY <1>1 DEF EntrySound
<1>3. b \in 0..NBuckets - 1  BY <1>2, HashRange DEF TypeOK
<1>4. /\ bucket' = [bucket EXCEPT ![b] = <<>>] /\ cleanpc' = [cleanpc EXCEPT ![e] = "free"]
      /\ UNCHANGED <<life, key, dack, encArmed, dackArmed, pc, ent, enc, victim, dqueue,
                     traffic, fault, raced, reported>>
  BY <1>1, <1>2, <1>3, UnlinkOnly DEF CleanUnlink, timers, context, TypeOK
<1> HIDE DEF b
<1>5. /\ bucket'[b] = <<>> /\ \A x \in (0..NBuckets - 1) \ {b} : bucket'[x] = bucket[x]
      /\ cleanpc'[e] = "free" /\ \A d \in Entry \ {e} : cleanpc'[d] = cleanpc[d]
  BY <1>3, <1>4 DEF TypeOK
<1>6. TypeOK'
  <2>1. <<>> \in Seq(Entry)  OBVIOUS
  <2>2. bucket' \in [0..NBuckets - 1 -> Seq(Entry)]
        /\ cleanpc' \in [Entry -> {"idle", "find", "unlink", "free"}]
    BY <1>4, <2>1 DEF TypeOK
  <2>3. QED  BY <1>4, <2>2 DEF TypeOK
<1>7. BucketsSound'
  <2> SUFFICES ASSUME NEW x \in 0..NBuckets - 1
               PROVE  bucket'[x] = <<>> \/ \E d \in Entry : Holds(x, d)'
    BY DEF BucketsSound
  <2>1. CASE x = b  BY <2>1, <1>5
  <2>2. CASE x # b  BY <2>2, <1>4, <1>5 DEF BucketsSound, Holds
  <2>3. QED  BY <2>1, <2>2
<1>8. EntrySound'
  <2>1. ASSUME NEW d \in Entry, life[d] \in {"bare", "ready"}
        PROVE  IF cleanpc'[d] = "free" THEN bucket'[Hash(key[d])] # <<d>>
                                       ELSE bucket'[Hash(key[d])] = <<d>>
    <3>1. Hash(key[d]) \in 0..NBuckets - 1 /\ <<d>> # <<>>
      BY <2>1, HashRange DEF TypeOK
    <3>2. CASE d = e  BY <3>1, <3>2, <1>5 DEF b
    <3>3. CASE d # e
      <4>1. <<d>> # <<e>>  BY <3>3
      <4>2. cleanpc[d] # "free" => Hash(key[d]) # b
        BY <2>1, <4>1, <1>2 DEF EntrySound
      <4>3. cleanpc'[d] = cleanpc[d]  BY <3>3, <1>5
      <4>4. bucket'[Hash(key[d])] \in {<<>>, bucket[Hash(key[d])]}  BY <3>1, <1>5
      <4>5. CASE cleanpc[d] = "free"  BY <2>1, <3>1, <4>3, <4>4, <4>5 DEF EntrySound
      <4>6. CASE cleanpc[d] # "free"
        <5>1. bucket[Hash(key[d])] = <<d>>  BY <2>1, <4>6 DEF EntrySound
        <5>2. bucket'[Hash(key[d])] = bucket[Hash(key[d])]  BY <3>1, <4>2, <4>6, <1>5
        <5>3. QED  BY <4>3, <4>6, <5>1, <5>2
      <4>7. QED  BY <4>5, <4>6
    <3>4. QED  BY <3>2, <3>3
  <2>2. \A d \in Entry : cleanpc'[d] # "idle" => life[d] = "ready"
    BY <1>2, <1>5 DEF EntrySound
  <2>3. \A d \in Entry : victim[d] = IF cleanpc'[d] \in {"unlink", "free"} THEN d ELSE None
    BY <1>1, <1>5 DEF EntrySound
  <2>4. \A d \in Entry : life[d] = "bare" =>
          ~encArmed[d] /\ \E c \in Callers : ent[c] = d /\ pc[c] = "setup"
    BY DEF EntrySound
  <2>5. UNCHANGED <<life, key, encArmed, pc, ent, victim>>  BY <1>4
  <2> HIDE DEF TableInv
  <2>6. QED  BY <2>1, <2>2, <2>3, <2>4, <2>5 DEF EntrySound
<1>9. UnusedSound' /\ TimeoutComes'  BY <1>4, <1>5 DEF UnusedSound, TimeoutComes
<1>10. ContextSound'
  <2>1. \A c \in Callers : pc[c] = "add" => bucket'[Hash(enc[c])] = <<>>
    <3>1. ASSUME NEW c \in Callers, pc[c] = "add" PROVE bucket'[Hash(enc[c])] = <<>>
      <4>1. enc[c] \in Enc  BY <3>1 DEF ContextSound, Context
      <4>2. Hash(enc[c]) \in 0..NBuckets - 1  BY <4>1, HashRange
      <4>3. QED  BY <3>1, <4>2, <1>5 DEF ContextSound
    <3>2. QED  BY <3>1
  <2>2. QED  BY <1>4, <2>1 DEF ContextSound
<1>11. \A d \in Entry : Cleaned(d)' <=> Cleaned(d)  BY <1>1, <1>4, <1>5 DEF Cleaned
<1>12. LateFinders' /\ RequestsServed'  BY <1>4, <1>11 DEF LateFinders, RequestsServed, Used
<1>13. ReportsSet' /\ MisuseExplained'  BY <1>4 DEF ReportsSet, MisuseExplained, NoFault
<1>14. QED  BY <1>6, <1>7, <1>8, <1>9, <1>10, <1>12, <1>13

(* The entry is freed, or with it a pointer that was never set.            *)
LEMMA CleanFreeStep ==
  ASSUME TableInv, fault = NoFault, NEW e \in Entry, CleanFree(e)
  PROVE  TableInv'
<1> USE DEF TableInv
<1>1. cleanpc[e] = "free" /\ victim[e] = e  BY DEF CleanFree, EntrySound
<1>2. life[e] = "ready" /\ bucket[Hash(key[e])] # <<e>>  BY <1>1 DEF EntrySound
<1>3. CASE dack[e] = "junk"
  <2>1. Fault("junk", e)  BY <1>1, <1>3 DEF CleanFree
  <2>2. e \notin reported  BY <1>3 DEF ReportsSet
  <2>3. QED  BY <2>1, <2>2, FaultStep DEF Explained
<1>4. CASE dack[e] # "junk"
  <2>1. /\ life' = [life EXCEPT ![e] = "freed"] /\ cleanpc' = [cleanpc EXCEPT ![e] = "idle"]
        /\ victim' = [victim EXCEPT ![e] = None]
        /\ UNCHANGED <<bucket, key, dack, encArmed, dackArmed, pc, ent, enc, dqueue,
                       traffic, fault, raced, reported>>
    BY <1>1, <1>4 DEF CleanFree, timers, context
  <2>2. /\ life'[e] = "freed" /\ cleanpc'[e] = "idle" /\ victim'[e] = None
        /\ \A d \in Entry \ {e} : /\ life'[d] = life[d] /\ cleanpc'[d] = cleanpc[d]
                                  /\ victim'[d] = victim[d]
    BY <2>1 DEF TypeOK
  <2>3. TypeOK'
    <3>1. life' \in [Entry -> {"unused", "bare", "ready", "freed"}]
          /\ cleanpc' \in [Entry -> {"idle", "find", "unlink", "free"}]
          /\ victim' \in [Entry -> Entry \cup {None}]
      BY <2>1 DEF TypeOK
    <3>2. \A d \in Entry : life'[d] # "unused" => key[d] \in Enc
      BY <1>2, <2>2 DEF TypeOK
    <3>3. QED  BY <2>1, <3>1, <3>2 DEF TypeOK
  <2>4. BucketsSound'
    <3>1. ASSUME NEW b \in 0..NBuckets - 1, NEW d \in Entry, Holds(b, d) PROVE Holds(b, d)'
      BY <3>1, <1>2, <2>1, <2>2 DEF Holds
    <3>2. QED  BY <2>1, <3>1 DEF BucketsSound
  <2>5. EntrySound'
    <3> HIDE DEF TableInv
    <3>0. EntrySound  BY DEF TableInv
    <3>1. \A d \in Entry : life'[d] \in {"bare", "ready"} =>
            IF cleanpc'[d] = "free" THEN bucket[Hash(key[d])] # <<d>>
                                    ELSE bucket[Hash(key[d])] = <<d>>
      BY <2>2, <3>0 DEF EntrySound
    <3>2. \A d \in Entry : life'[d] = "bare" =>
            ~encArmed[d] /\ \E c \in Callers : ent[c] = d /\ pc[c] = "setup"
      BY <2>2, <3>0 DEF EntrySound
    <3>3. \A d \in Entry : /\ cleanpc'[d] # "idle" => life'[d] = "ready"
                           /\ victim'[d] = IF cleanpc'[d] \in {"unlink", "free"} THEN d ELSE None
      BY <2>2, <3>0 DEF EntrySound
    <3>4. QED  BY <2>1, <3>1, <3>2, <3>3 DEF EntrySound
  <2>6. UnusedSound' /\ TimeoutComes'  BY <2>1, <2>2 DEF UnusedSound, TimeoutComes
  <2>7. ContextSound'
    <3>1. \A c \in Callers : pc[c] = "setup" => life'[ent[c]] = "bare"
      <4>1. ASSUME NEW c \in Callers, pc[c] = "setup" PROVE life'[ent[c]] = "bare"
        <5>1. life[ent[c]] = "bare" /\ c \in Context  BY <4>1 DEF ContextSound, Context
        <5>2. ent[c] \in Entry  BY <4>1, <5>1 DEF ContextSound, TypeOK
        <5>3. QED  BY <1>2, <2>2, <5>1, <5>2
      <4>2. QED  BY <4>1
    <3>2. QED  BY <2>1, <3>1 DEF ContextSound
  <2>8. \A d \in Entry : (Cleaned(d)' <=> Cleaned(d)) /\ (Used(d) => Used(d)')
    BY <1>1, <2>2 DEF Cleaned, Used
  <2>9. LateFinders' /\ RequestsServed'  BY <2>1, <2>8 DEF LateFinders, RequestsServed
  <2>10. ReportsSet' /\ MisuseExplained'  BY <2>1 DEF ReportsSet, MisuseExplained, NoFault
  <2>11. QED  BY <2>3, <2>4, <2>5, <2>6, <2>7, <2>9, <2>10
<1>5. QED  BY <1>3, <1>4

----------------------------------------------------------------------------
LEMMA NextTable == ASSUME OneCaller, TableInv, [Next]_vars PROVE TableInv'
<1>1. CASE UNCHANGED vars
  <2> USE <1>1 DEF TableInv, vars, table, timers, context, cleanup
  <2>1. TypeOK' /\ BucketsSound' /\ EntrySound'
    BY DEF TypeOK, BucketsSound, Holds, EntrySound
  <2>2. UnusedSound' /\ ContextSound' /\ TimeoutComes'
    BY DEF UnusedSound, ContextSound, TimeoutComes
  <2>3. LateFinders' /\ RequestsServed' /\ ReportsSet' /\ MisuseExplained'
    BY DEF LateFinders, RequestsServed, Used, Cleaned, ReportsSet, MisuseExplained
  <2>4. QED  BY <2>1, <2>2, <2>3
<1>2. CASE Arrival  BY <1>2, ArriveStep
<1>3. ASSUME NEW c \in Callers, Tx(c) PROVE TableInv'
  BY <1>3, AddStep, SetupStep, TouchStep DEF Tx
<1>4. CASE Rx  BY <1>4, TouchStep, UpdateStep DEF Rx
<1>5. CASE Gen  BY <1>5, GenFindStep, GenInstallStep DEF Gen
<1>6. ASSUME NEW e \in Entry, DackFire(e) PROVE TableInv'  BY <1>6, DackFireStep
<1>7. ASSUME NEW e \in Entry, Clean(e) PROVE TableInv'
  BY <1>7, CleanFireStep, CleanFindStep, CleanUnlinkStep, CleanFreeStep DEF Clean
<1>8. QED  BY <1>1, <1>2, <1>3, <1>4, <1>5, <1>6, <1>7 DEF Next

LEMMA TableInvariance == ASSUME OneCaller PROVE Spec => []TableInv
<1>1. Init => TableInv  BY InitTable
<1>2. TableInv /\ [Next]_vars => TableInv'  BY NextTable
<1>3. QED  BY <1>1, <1>2, PTL DEF Spec

(* With one thread in vmac_tx every entry in use has an encoding and every *)
(* pointer of tx.c, rx.c, dack.c and clean.c is one that the code set.     *)
THEOREM TableTypeCorrect == ASSUME OneCaller PROVE Spec => []TypeOK
<1>1. TableInv => TypeOK  BY DEF TableInv
<1>2. QED  BY <1>1, TableInvariance, PTL

(* With one thread in vmac_tx a bucket never holds two entries, each entry *)
(* in it will time out, and each that left it is freed (tx.c:113-155,      *)
(* clean.c:66-81), for any number of encodings, buckets and entries.       *)
THEOREM EntriesKeptHolds == ASSUME OneCaller PROVE Spec => []EntriesKept
<1>1. ASSUME TableInv PROVE EntriesKept
  <2> USE <1>1 DEF TableInv
  <2>1. \A e : Len(<<e>>) <= 1 /\ Len(<<>>) <= 1  OBVIOUS
  <2>2. \A b \in DOMAIN bucket : Len(bucket[b]) <= 1
    <3>1. ASSUME NEW b \in 0..NBuckets - 1 PROVE Len(bucket[b]) <= 1
      <4>1. CASE bucket[b] = <<>>  BY <2>1, <4>1
      <4>2. ASSUME NEW e \in Entry, Holds(b, e) PROVE Len(bucket[b]) <= 1
        BY <2>1, <4>2 DEF Holds
      <4>3. QED  BY <4>1, <4>2 DEF BucketsSound
    <3>2. QED  BY <3>1 DEF TypeOK
  <2>3. ASSUME NEW e \in Entry, InTable(e)
        PROVE  life[e] \in {"bare", "ready"}
    <3>1. PICK b \in DOMAIN bucket : \E k \in DOMAIN bucket[b] : bucket[b][k] = e
      BY <2>3 DEF InTable
    <3>2. b \in 0..NBuckets - 1  BY DEF TypeOK
    <3>3. bucket[b] # <<>>  BY <3>1
    <3>4. PICK d \in Entry : Holds(b, d)  BY <3>2, <3>3 DEF BucketsSound
    <3>5. \A k \in DOMAIN <<d>> : <<d>>[k] = d  OBVIOUS
    <3>6. d = e  BY <3>1, <3>4, <3>5 DEF Holds
    <3>7. QED  BY <3>4, <3>6 DEF Holds
  <2>4. ASSUME NEW e \in Entry, life[e] \in {"bare", "ready"}
        PROVE  InTable(e) \/ \E h \in Entry : victim[h] = e /\ cleanpc[h] = "free"
    <3>1. CASE cleanpc[e] = "free"  BY <3>1 DEF EntrySound
    <3>2. CASE cleanpc[e] # "free"
      <4>1. bucket[Hash(key[e])] = <<e>>  BY <2>4, <3>2 DEF EntrySound
      <4>2. Hash(key[e]) \in DOMAIN bucket  BY <2>4, HashRange DEF TypeOK
      <4>3. 1 \in DOMAIN <<e>> /\ <<e>>[1] = e  OBVIOUS
      <4>4. QED  BY <4>1, <4>2, <4>3 DEF InTable
    <3>3. QED  BY <3>1, <3>2
  <2>5. QED  BY <2>2, <2>3, <2>4 DEF EntriesKept, TimeoutComes
<1>2. QED  BY <1>1, TableInvariance, PTL

(* With one thread in vmac_tx memory that was freed or never set is used   *)
(* only in the ways tx.c:119, tx.c:140, dack.c:250 and clean.c:77-81 leave *)
(* open. Freed memory: the entry was in the hands of a context between     *)
(* find_rx and mod_timer when its timeout came, or was found after that.   *)
THEOREM TableMisuseHolds == ASSUME OneCaller PROVE Spec => []MisuseExplained
<1>1. TableInv => MisuseExplained  BY DEF TableInv
<1>2. QED  BY <1>1, TableInvariance, PTL
=============================================================================
