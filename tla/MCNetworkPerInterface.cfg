SPECIFICATION Spec
CONSTANTS
    Iface = {en0, lo0}
    Hidden = {lo0}
    Word = 3
    MaxPackets = 1
INVARIANT
    EveryInterfaceShown
