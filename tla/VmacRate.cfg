\* One encoding and one sender; tables of four and one rates.
SPECIFICATION RateSpec
CONSTANTS
  Enc = {e1}
  Copiers = {c1}
  First <- MCFirst
  Top = 3
  Wide = 5
  MaxRound = 7
  Nobody = Nobody
INVARIANTS
  RateTypeOK
  RatesSound
