SPECIFICATION Spec
CONSTANTS
  ann = ann
  bob = bob
  Speaker = {ann, bob}
  Channel = {1}
  Heard = {1}
  WindowSize = 2
  Target = 1
  MaxSeq <- MCMaxSeq
VIEW SwitchView
CHECK_DEADLOCK FALSE
INVARIANT BuffersWellFormed
INVARIANT PlayedFramesDoNotReturn
INVARIANT DuplicatesEvictNothing
INVARIANT RefusalsHaveACause
