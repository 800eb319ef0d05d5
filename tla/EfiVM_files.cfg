SPECIFICATION Spec
CONSTANTS
  img = img  code = code  vrs = vrs  code2 = code2  vrs2 = vrs2
  Originals = {img, code, vrs, code2, vrs2}
  Length <- MCLength
  Hosts <- MCHosts
  Ovmf <- MCOvmf
  Configs <- MCConfigs
  Images = {img}
  Envs <- MCEnvs
  DiskSize = 3
  MaxFiles = 2
  MaxVMs = 2
  NoFile = NoFile  NoSize = NoSize  EmptySize = EmptySize  BadSize = BadSize
INVARIANTS TypeOK OpensPrepared MissingIsUnchecked AttachedIsBound NoTpmLeft
PROPERTIES OriginalsUnmodified
CHECK_DEADLOCK FALSE
