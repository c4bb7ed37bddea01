\* Adds, appends, removes, clears and floods from the empty table.
CONSTANTS
    u1 = u1  u2 = u2  u3 = u3  u4 = u4  u5 = u5  u6 = u6  u7 = u7  u8 = u8
    d1 = d1  d2 = d2  d3 = d3  k1 = k1  k2 = k2  a1 = a1  Nil = Nil
    Uuids <- MCUuids
    DIds <- MCDIds
    Keys <- MCKeys
    Acts <- MCActs
    Hash <- MCHash
    InitFlows <- NoFlows
    MaxActsLen = 2
    MaxAdds = 4
    AppendMayRepeatSource = FALSE
SPECIFICATION Spec
INVARIANT TypeOK
INVARIANT LinksConsistent
PROPERTY SbFlowLinksSpec
PROPERTY DesiredFlowsSpec
