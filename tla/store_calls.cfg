SPECIFICATION FairSpec
CONSTANTS
  Characters <- OneCharacter
  Values <- OneValue
  Lawful <- MCLawful
  Complete <- MCComplete
  NoValue = NoValue
  NoVersion = NoVersion
  Closed = Closed
  NoRecord = NoRecord
  Workers = {w1, w2}
  NoWorker = NoWorker
  NoCall = NoCall
  Partial = Partial
  Receipts <- OneReceipt
  OwnerOf <- MCOwnerOf
  Mentions <- MCMentions
  Recorded <- MCRecorded
INVARIANTS TypeOK MarkersTrue LockIsWorked
PROPERTIES ImplementsAtomicStore LockReleased
