SPECIFICATION Spec
CONSTANTS
  IdxModulus = 4
  Num = 2
  Heads = {h1, h2}
  NoHead = NoHead
  Kinds = {"whole"}
  MaxPosts = 5
INVARIANT CanReceiveHasDescriptor
