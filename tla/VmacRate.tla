------------------------------- MODULE VmacRate ------------------------------
(***************************************************************************)
(* Rate adaptation (rate.c): three rate indices, shared by all encodings,  *)
(* are lowered and raised by what the DACKs of an encoding report, and     *)
(* copied by whoever sends. rate_c and copyrate give up, changing nothing, *)
(* when the lock is taken. Nothing calls them yet (main.c:145), so who     *)
(* calls, and when, is assumed.                                            *)
(***************************************************************************)
EXTENDS Naturals, Sequences

CONSTANTS
  Enc,          \* encodings, each with its missing_idx
  Copiers,      \* threads that call copyrate
  First,        \* the indices at the start: <<2, 3, 11>>
  Top, Wide,    \* the last index of one table, and the only one beyond: 11, 35
  MaxRound,     \* bound: rounds of a stream, which grow until u8 wraps
  Nobody        \* the lock is free

ASSUME RateAssumption ==
  /\ {Top, Wide} \subseteq Nat /\ MaxRound \in Nat \ {0} /\ Top + 1 < Wide
  /\ First \in [1..3 -> 0..Top] /\ First[1] < First[2] /\ First[2] < First[3]
  /\ Nobody \notin Enc \cup Copiers /\ Enc \cap Copiers = {}

VARIABLES
  idx,          \* global.rate_idx, from the slowest, 1, to the fastest, 3
  lock,         \* who has ratelok
  pc,           \* of an encoding's or copier's thread: its place in the call
  lost, round,  \* per encoding: rate and round of its missing_idx
  dec, inc,     \* per encoding: its round_dec and round_inc
  copy          \* per copier: the indices it has read

rateVars == <<idx, lock, pc, lost, round, dec, inc, copy>>

(* rate.c:31-40; the rounds of an entry are set in tx.c:183-188.           *)
RateInit ==
  /\ idx = First /\ lock = Nobody
  /\ pc = [x \in Enc \cup Copiers |-> "out"]
  /\ round = [e \in Enc |-> 0]
  /\ lost = [e \in Enc |-> <<0, 0, 0>>]
  /\ dec = [e \in Enc |-> <<0, 0, 0>>] /\ inc = dec
  /\ copy = [c \in Copiers |-> <<>>]

(* Mistake: the lock is taken whoever has it.                              *)
TakeAnyway(x, place) == lock' = x /\ pc' = [pc EXCEPT ![x] = place]

Take(x, place) ==
  /\ lock = Nobody /\ lock' = x
  /\ pc' = [pc EXCEPT ![x] = place]

Release(x) == lock' = Nobody /\ pc' = [pc EXCEPT ![x] = "out"]

Low(e) == round[e] \div 2
High(e) == (round[e] * 7) \div 10

(* Mistake: the fastest rate is raised out of its table.                   *)
AboveOne(i, x) == x + 1

(* The indices next to one: there is none between Top and Wide.            *)
Below(i, x) == IF i = 3 /\ x = Wide THEN Top ELSE x - 1
Above(i, x) == IF i = 3 /\ x = Top THEN Wide ELSE x + 1

(* May index i be lowered, raised, when the three are g?                   *)
MayFall(g, i) == IF i = 1 THEN g[1] > 0 ELSE g[i] > g[i - 1] + 1
MayRise(g, i) ==
  CASE i = 3 -> g[3] < Wide
    [] i = 2 -> g[2] + 1 < g[3] /\ g[2] < Top
    [] i = 1 -> g[1] + 1 < g[2] /\ g[1] < Top - 1

(* Index i is lowered when too much was lost, once in a round; s has the   *)
(* indices and the rounds of their last change.                            *)
Lower(e, s, i) ==
  IF lost[e][i] > Low(e) /\ MayFall(s.idx, i) /\ s.at[i] < round[e]
  THEN [idx |-> [s.idx EXCEPT ![i] = Below(i, @)],
        at  |-> [s.at EXCEPT ![i] = round[e]]]
  ELSE s

(* It is raised when little was lost, every third round at most, and not   *)
(* in the round it was lowered in.                                         *)
Raise(e, s, i) ==
  IF /\ lost[e][i] < High(e) /\ MayRise(s.idx, i)
     /\ s.at[i] + 2 < round[e] /\ round[e] # dec[e][i]
  THEN [idx |-> [s.idx EXCEPT ![i] = Above(i, @)],
        at  |-> [s.at EXCEPT ![i] = round[e]]]
  ELSE s

(* rate_c, called with what a DACK of this or a later round reports lost.  *)
RateBegin(e, r) ==
  /\ pc[e] = "out" /\ r >= round[e] /\ Take(e, "lower")
  /\ round' = [round EXCEPT ![e] = r]
  /\ \E l \in [1..3 -> {0, r \div 2 + 1, r}] : lost' = [lost EXCEPT ![e] = l]
  /\ UNCHANGED <<idx, dec, inc, copy>>

RateLower(e) ==
  LET s == Lower(e, Lower(e, Lower(e, [idx |-> idx, at |-> dec[e]], 1), 2), 3) IN
  /\ pc[e] = "lower" /\ pc' = [pc EXCEPT ![e] = "raise"]
  /\ idx' = s.idx /\ dec' = [dec EXCEPT ![e] = s.at]
  /\ UNCHANGED <<lock, lost, round, inc, copy>>

RateRaise(e) ==
  LET s == Raise(e, Raise(e, Raise(e, [idx |-> idx, at |-> inc[e]], 3), 2), 1) IN
  /\ pc[e] = "raise" /\ Release(e)
  /\ idx' = s.idx /\ inc' = [inc EXCEPT ![e] = s.at]
  /\ UNCHANGED <<lost, round, dec, copy>>

(* copyrate.                                                               *)
CopyBegin(c) ==
  /\ pc[c] = "out" /\ Take(c, "copy")
  /\ copy' = [copy EXCEPT ![c] = <<>>]
  /\ UNCHANGED <<idx, lost, round, dec, inc>>

CopyRead(c) ==
  /\ pc[c] = "copy" /\ Len(copy[c]) < 3
  /\ copy' = [copy EXCEPT ![c] = Append(@, idx[Len(@) + 1])]
  /\ UNCHANGED <<idx, lock, pc, lost, round, dec, inc>>

CopyEnd(c) ==
  /\ pc[c] = "copy" /\ Len(copy[c]) = 3 /\ Release(c)
  /\ UNCHANGED <<idx, lost, round, dec, inc, copy>>

RateNext ==
  \/ \E e \in Enc : (\E r \in 0..MaxRound : RateBegin(e, r)) \/ RateLower(e) \/ RateRaise(e)
  \/ \E c \in Copiers : CopyBegin(c) \/ CopyRead(c) \/ CopyEnd(c)

RateSpec == RateInit /\ [][RateNext]_rateVars

----------------------------------------------------------------------------
(* Every variable stays in its domain; no index leaves its table.          *)
RateTypeOK ==
  /\ idx \in [1..3 -> 0..Top \cup {Wide}] /\ lock \in Enc \cup Copiers \cup {Nobody}
  /\ pc \in [Enc \cup Copiers -> {"out", "lower", "raise", "copy"}]
  /\ round \in [Enc -> 0..MaxRound]
  /\ lost \in [Enc -> [1..3 -> 0..MaxRound]]
  /\ dec \in [Enc -> [1..3 -> 0..MaxRound]] /\ inc \in [Enc -> [1..3 -> 0..MaxRound]]
  /\ copy \in [Copiers -> Seq(0..Top \cup {Wide})]

InOrder ==
  /\ idx[1] < idx[2]
  /\ idx[2] < idx[3] \/ (idx[2] = idx[3] /\ idx[3] = Top)

CopyWhole == \A c \in Copiers : pc[c] = "copy" =>
  /\ \A i \in DOMAIN copy[c] : copy[c][i] = idx[i]
  /\ \A e \in Enc : pc[e] # "raise"

(* However lowerings and raisings of the encodings follow one another, the *)
(* rates stay apart and in order (the neighbour tests of rate.c:76-111 with*)
(* the jumps of 90 and 99). The two faster ones may meet at Top: the jump  *)
(* down from Wide comes after the test. And a copy is made of one set of   *)
(* indices, between two calls of rate_c: what has been read of them still  *)
(* holds when the rest is read (the trylocks of rate.c:49 and 65).         *)
RatesSound == InOrder /\ CopyWhole
==============================================================================
