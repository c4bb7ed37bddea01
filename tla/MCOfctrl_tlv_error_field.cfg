\* The switch refuses the TLV mod with an error that is not a race.
CONSTANTS
    k1 = k1  k2 = k2  d1 = d1  d2 = d2  a1 = a1  a2 = a2  c1 = c1  c2 = c2
    z1 = z1  g1 = g1  m1 = m1  Nil = Nil
    Keys <- NoKeys
    DIds <- MCDIds
    Acts <- MCActs
    Cookies <- MCCookies
    Groups <- NoExt
    Meters <- NoExt
    StringMeters <- NoExt
    SbMeters <- NoExt
    Uses <- NoUses
    Zones <- NoZones
    NumTlvSlots = 1
    MaxActsLen = 1
    MaxCfg = 1
    MaxChanges = 1
    MaxDisconnects = 1
    MaxRaces = 0
    MaxEchoes = 0
    MaxInjects = 0
    SwitchRejectsFlows = FALSE
    TlvMayFail = TRUE
    NbCfgMayRegress = FALSE
SPECIFICATION Spec
INVARIANT FieldIdMapped
