SPECIFICATION FairSpec
CONSTANTS
  IdxModulus = 8
  Num = 2
  Heads = {h1, h2}
  NoHead = NoHead
  Kinds = {"whole", "runt"}
  MaxPosts = 5
INVARIANTS NoLap NoLostInterrupt NoLostConfig CanReceiveHasDescriptor
PROPERTIES ImplementsRequestQueue BufferReturns UsedEntrySeen
