------------------------------ MODULE MCVmacKey ------------------------------
(***************************************************************************)
(* The instance of VmacKey: an AP with a VLAN and a station, or a client.  *)
(***************************************************************************)
EXTENDS VmacKey

CONSTANTS ap, vlan, client, a1

Kind(i, pair, cipher, tk, mic) ==
  [idx |-> i, pairwise |-> pair, cipher |-> cipher, tk |-> tk, mic |-> mic]
Group(mic) == Kind(0, FALSE, "TKIP", 1, mic)

MCSetups == {{ap, vlan}, {client}}
MCType == [s \in UNION MCSetups |-> CASE s = ap -> "AP" [] s = vlan -> "AP_VLAN"
                              [] s = client -> "STATION"]
MCHome == [a \in Stas |-> ap]
MCKinds == [s \in UNION MCSetups |->
  CASE s = ap -> {Kind(0, TRUE, c, 1, 0) : c \in {"AES", "SCHEME"}}
                   \cup {Group(1)}
    [] s = vlan -> {Group(1)}
    [] s = client -> {Group(1), Group(2), Kind(1, FALSE, "AES", 1, 0)}]
=============================================================================
