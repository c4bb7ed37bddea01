\* ofctrl_put() against a switch that accepts everything, with a reconnect
\* (with or without a switch restart), two desired flows sharing a key,
\* appends, cookie changes, nb_cfg bumps and a conntrack flush.
CONSTANTS
    k1 = k1  k2 = k2  d1 = d1  d2 = d2  a1 = a1  a2 = a2  c1 = c1  c2 = c2
    z1 = z1  g1 = g1  m1 = m1  Nil = Nil
    Keys <- MCKeys
    DIds <- MCDIds
    Acts <- MCActs
    Cookies <- MCCookies
    Groups <- NoExt
    Meters <- NoExt
    StringMeters <- NoExt
    SbMeters <- NoExt
    Uses <- NoUses
    Zones <- MCZones
    NumTlvSlots = 1
    MaxActsLen = 2
    MaxCfg = 2
    MaxChanges = 4
    MaxDisconnects = 1
    MaxRaces = 0
    MaxEchoes = 0
    MaxInjects = 0
    SwitchRejectsFlows = FALSE
    TlvMayFail = FALSE
    NbCfgMayRegress = FALSE
SPECIFICATION Spec
INVARIANT TypeOK
INVARIANT InstalledLinks
INVARIANT InstalledMirrorsSwitch
PROPERTY CtFlushLifecycleSpec
PROPERTY BarrierCertifiesCfg
