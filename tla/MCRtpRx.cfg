CONSTANTS
  Bytes = {0, 1}
  Slots = {1, 2}
  Senders <- MCSenders
  Own = 9
  Groups = {"g", "h"}
  Pt = 98
  SeqMod = 8
  FirstSeq = 6
  MaxSend <- MCMaxSend
  MaxAir = 2
  MaxDup = 1
SPECIFICATION Spec
INVARIANT OneSinkPerSender
INVARIANT LossIsCounted
INVARIANT NoErrorMeansIntact
