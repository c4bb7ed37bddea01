\* A flood whose recursion grows flood_remove_nodes past its mask.
CONSTANTS
    u1 = u1  u2 = u2  u3 = u3  u4 = u4  u5 = u5  u6 = u6  u7 = u7  u8 = u8
    d1 = d1  d2 = d2  d3 = d3  k1 = k1  k2 = k2  a1 = a1  Nil = Nil
    Uuids <- ChainUuids
    DIds <- ChainDIds
    Keys <- ChainKeys
    Acts <- MCActs
    Hash <- ChainHash
    InitFlows <- ChainFlows
    MaxActsLen = 7
    MaxAdds = 0
    AppendMayRepeatSource = FALSE
SPECIFICATION Spec
PROPERTY SbFlowLinksSpec
