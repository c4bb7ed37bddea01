\* Geneve option negotiation when the switch may also refuse the TLV table
\* request or mod with an error other than a race, and may send an echo
\* request, or the caller inject a packet, at any point of it.
CONSTANTS
    k1 = k1  k2 = k2  d1 = d1  d2 = d2  a1 = a1  a2 = a2  c1 = c1  c2 = c2
    z1 = z1  g1 = g1  m1 = m1  Nil = Nil
    Keys <- NoKeys
    DIds <- MCDIds
    Acts <- MCActs
    Cookies <- MCCookies
    Groups <- NoExt
    Meters <- NoExt
    StringMeters <- NoExt
    SbMeters <- NoExt
    Uses <- NoUses
    Zones <- NoZones
    NumTlvSlots = 2
    MaxActsLen = 1
    MaxCfg = 1
    MaxChanges = 1
    MaxDisconnects = 2
    MaxRaces = 2
    MaxEchoes = 1
    MaxInjects = 1
    SwitchRejectsFlows = FALSE
    TlvMayFail = TRUE
    NbCfgMayRegress = FALSE
CONSTRAINT OneProbe
SPECIFICATION FairSpec
PROPERTY NegotiationCompletes
PROPERTY GeneveDisabledOnlyWhenRefusedOrFull
