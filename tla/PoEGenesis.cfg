SPECIFICATION Spec
CONSTANTS
    a = a
    b = b
    k1 = k1
    k2 = k2
    Nobody = Nobody
    Bootstrap = Bootstrap
    People = {a, b}
    PrivilegeTypes = {"begin_blocker", "end_blocker", "gov_proposal_executor", "validator_set_updater", "delegator", "state_exporter_importer"}
    SingletonTypes = {"validator_set_updater"}
    Exporter = "state_exporter_importer"
    MaxPos = 2
    PromoteRequests <- MCRequests
    ImportRequests <- MCImportRequests
    SeedDocs <- MCSeedDocs
    MaxGov = 2
    MaxExports = 1
    MaxCrashes = 1
INVARIANTS
    
    AddressesSurvive
    ContractsAreWired
    
    EscrowIsComplete
    AllGenTxsDelivered
    ImportRestores
    

    
