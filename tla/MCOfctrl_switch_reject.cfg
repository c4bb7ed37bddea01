\* The only action a1 uses the meter m1, which has no SB Meter row:
\* add_meter() sends nothing, the sync marks m1 existing, and the switch
\* refuses the flow_mod that uses it; the error is only logged.
CONSTANTS
    k1 = k1  k2 = k2  d1 = d1  d2 = d2  a1 = a1  a2 = a2  c1 = c1  c2 = c2
    z1 = z1  g1 = g1  m1 = m1  Nil = Nil
    Keys <- MCKeys
    DIds <- MCDIds
    Acts <- MCActs
    Cookies <- MCCookies
    Groups <- NoExt
    Meters <- MCMeters
    StringMeters <- NoExt
    SbMeters <- NoExt
    Uses <- MCMeterUses
    Zones <- NoZones
    NumTlvSlots = 1
    MaxActsLen = 1
    MaxCfg = 1
    MaxChanges = 2
    MaxDisconnects = 1
    MaxRaces = 0
    MaxEchoes = 0
    MaxInjects = 0
    SwitchRejectsFlows = FALSE
    TlvMayFail = FALSE
    NbCfgMayRegress = FALSE
SPECIFICATION Spec
INVARIANT InstalledMirrorsSwitch
