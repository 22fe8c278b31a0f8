SPECIFICATION Spec
CONSTANTS
  i1 = i1  i2 = i2  i3 = i3  r1 = r1  r2 = r2  r3 = r3
  alice = alice  bob = bob  carol = carol
  Keys <- ThreeKeys
  IRuns <- Dials
  RRuns <- Answers
  IKey <- DialKey
  IPeer <- DialPeer
  RKey <- AnswerKey
  Acl <- OnlyAlice
  Domains <- BothDomains
INVARIANTS ResponderAgreement InitiatorAgreement EpochAgreement OpenedIsFromPeer
CHECK_DEADLOCK FALSE
