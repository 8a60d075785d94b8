----------------------------- MODULE MCVmacHost ------------------------------
(***************************************************************************)
(* The instances of VmacHost: an ath9k_htc-like device and its variations. *)
(***************************************************************************)
EXTENDS VmacHost

Band(n, r, caps) == [channels |-> n, rates |-> r, caps |-> caps]

Plain == [ops |-> TRUE, chanctx |-> 0, unmet |-> "none", wide |-> FALSE,
          radar |-> FALSE, wds |-> FALSE, queues |-> 4, hwscan |-> FALSE,
          offer |-> 0, old |-> FALSE, bands |-> <<Band(2, 12, {"ht"})>>]

NewKinds ==
  {Plain, [Plain EXCEPT !.ops = FALSE],
   [Plain EXCEPT !.bands = <<Band(2, 12, {"ht"}), Band(3, 8, {"ht", "vht"})>>],
   [Plain EXCEPT !.hwscan = TRUE, !.offer = 0],
   [Plain EXCEPT !.hwscan = TRUE, !.offer = 40],
   [Plain EXCEPT !.hwscan = TRUE, !.offer = 100, !.queues = MaxQueues + 1]}
  \cup {[Plain EXCEPT !.chanctx = c, !.wide = w, !.radar = r, !.wds = s] :
          c \in {0, 3, 5}, w \in BOOLEAN, r \in BOOLEAN, s \in BOOLEAN}
  \cup {[Plain EXCEPT !.unmet = u] : u \in Demands(Plain) \cup {"wowlan", "adhoc"}}

MCDevKinds == NewKinds \cup {[k EXCEPT !.old = TRUE] : k \in NewKinds}

PlainKinds == {Plain}
==============================================================================
