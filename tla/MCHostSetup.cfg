SPECIFICATION FairSetupSpec
CONSTANTS
    None = None
    Torn = Torn
    Nobody = Nobody
    Rules <- MCRules
    Accepted <- MCAccepted
    Path <- MCPath
    Main = "interfaces"
    Iface <- MCIface
    Skipped <- MCSkipped
    Found <- MCFound
    Hosts <- MCHosts
    Inventory <- MCInventory
    Home <- MCHome
    Address = "addr"
    Malformed = "{}"
INVARIANTS
    SetupTypeOK
    SuccessEnforced
    RewriteExact
    NothingDeclared
    SshReaches
    DescriptorUsed
    DescriptorTrue
    NothingStranded
    RendererMoved
PROPERTIES
    Promised
    FailureKeepsRules
    RerunChangesNothing
    PlayEnds
