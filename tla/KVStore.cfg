SPECIFICATION Spec
CONSTANTS
  Keys = {k1, k2}
  Readers = {t1}
  Ids = {a}
  MaxLen = 3
  Inline = 1
  HeaderSize = 8
  SizeLimit = 64
  Provisioned = {k1}
  WritesFail = TRUE
  MaxCrashes = 1
  NoFile = NoFile
  Empty = Empty
  Unset = Unset
INVARIANTS TypeOK CleanIsSaved OnlySyncIsSilent NoOverrun
PROPERTY StoreSpec
CHECK_DEADLOCK FALSE
