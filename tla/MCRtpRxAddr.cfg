CONSTANTS
  Bytes = {0, 1}
  Slots = {1, 2}
  Senders <- AddressSenders
  Own = 9
  Groups = {"g", "h"}
  Pt = 98
  SeqMod = 8
  FirstSeq = 6
  MaxSend <- AddressMaxSend
  MaxAir = 2
  MaxDup = 1
SPECIFICATION Spec
INVARIANT HeardIsAddressed
