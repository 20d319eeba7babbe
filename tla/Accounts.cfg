\* Three requests and two instances.
CONSTANTS
  alice = alice
  AliceCapital = AliceCapital
  bob = bob
  None = None
  Requests = {r1, r2, r3}
  Instances = {i1, i2}
  Typed <- Addresses
  Stored <- Normals
  Normal <- NormalForm
SPECIFICATION Spec
SYMMETRY Symmetry
INVARIANTS
  TypeOK
  OneWinner
  RefusedWhenTaken
  RegisteredCanLogIn
  RestartsSucceed
