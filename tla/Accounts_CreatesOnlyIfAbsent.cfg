\* One instance that is started twice: CreatesOnlyIfAbsent is refuted.
CONSTANTS
  alice = alice
  AliceCapital = AliceCapital
  bob = bob
  None = None
  Requests = {}
  Instances = {i1}
  Typed <- Addresses
  Stored <- Normals
  Normal <- NormalForm
SPECIFICATION Spec
INVARIANT CreatesOnlyIfAbsent
