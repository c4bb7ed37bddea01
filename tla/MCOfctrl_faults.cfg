\* ofctrl_put() with a switch that refuses flow_mods and an nb_cfg that
\* regresses, while other controllers race for TLV slots: the bookkeeping
\* stays consistent and the Geneve field id stays mapped.
CONSTANTS
    k1 = k1  k2 = k2  d1 = d1  d2 = d2  a1 = a1  a2 = a2  c1 = c1  c2 = c2
    z1 = z1  g1 = g1  m1 = m1  Nil = Nil
    Keys <- MCKeys
    DIds <- MCDIds
    Acts <- MCActs
    Cookies <- MCCookies
    Groups <- NoExt
    Meters <- NoExt
    StringMeters <- NoExt
    SbMeters <- NoExt
    Uses <- NoUses
    Zones <- MCZones
    NumTlvSlots = 2
    MaxActsLen = 1
    MaxCfg = 2
    MaxChanges = 3
    MaxDisconnects = 1
    MaxRaces = 1
    MaxEchoes = 0
    MaxInjects = 0
    SwitchRejectsFlows = TRUE
    TlvMayFail = FALSE
    NbCfgMayRegress = TRUE
SPECIFICATION Spec
INVARIANT FieldIdMapped
PROPERTY BarrierCertifiesCfg
