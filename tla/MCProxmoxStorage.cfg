CONSTANTS
    None = None
    Name <- MCName
    Source <- MCSource
    IsUrl <- MCIsUrl
    BaseName <- MCBaseName
SPECIFICATION ProxmoxSpec
INVARIANTS
    ProxmoxTypeOK
    SuccessTrue
    OnlyAsked
    AgainUnchanged
