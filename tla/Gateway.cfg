SPECIFICATION FairGatewaySpec
CONSTANTS
    i1 = i1
    i2 = i2
    t1 = t1
    t2 = t2
    Ids = {i1, i2}
    Lossy = TRUE
    Teams = {t1, t2}
    Owner <- MCOwner
    Admin = admin
    Tcp = {i2}
INVARIANTS EndedIsClosed RunningIsReached GatewayInv
PROPERTIES LaunchesEnd EndedLosesRoute RunningGetsRoute
