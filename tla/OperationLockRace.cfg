CONSTANTS
  Contenders = {backup, retention}
  Nobody = Nobody
  NoFile = NoFile
  SoloReclaim = FALSE
SPECIFICATION Spec
INVARIANT MutualExclusion
