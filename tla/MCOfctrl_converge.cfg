\* Liveness of ofctrl_put() and the barrier bookkeeping under the fairness
\* of ovn-controller's main loop, with a reconnect, a ct flush, and a group
\* and a meter that the action a1 refers to, so flows depend on them being
\* added first and deleted after them.
CONSTANTS
    k1 = k1  k2 = k2  d1 = d1  d2 = d2  a1 = a1  a2 = a2  c1 = c1  c2 = c2
    z1 = z1  g1 = g1  m1 = m1  Nil = Nil
    Keys <- MCKeys
    DIds <- MCDIds
    Acts <- MCActs
    Cookies <- MCCookies
    Groups <- MCGroups
    Meters <- MCMeters
    StringMeters <- NoExt
    SbMeters <- MCMeters
    Uses <- MCUses
    Zones <- MCZones
    NumTlvSlots = 1
    MaxActsLen = 1
    MaxCfg = 1
    MaxChanges = 3
    MaxDisconnects = 1
    MaxRaces = 0
    MaxEchoes = 0
    MaxInjects = 0
    SwitchRejectsFlows = FALSE
    TlvMayFail = FALSE
    NbCfgMayRegress = FALSE
SPECIFICATION FairSpec
INVARIANT InstalledMirrorsSwitch
PROPERTY EventuallyConverged
PROPERTY CtFlushCompletes
