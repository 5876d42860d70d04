------------------------- MODULE MCDeviceCredentials -------------------------
EXTENDS DeviceCredentials, TLC

Symmetry ==
    Permutations(Sockets) \cup Permutations(Handlers) \cup Permutations(Credentials)
=============================================================================
