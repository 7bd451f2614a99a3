SPECIFICATION Spec
CONSTANTS
    NumMax = 3
    MaxRows = 2
    EthIds <- MCEthIds
    Settings <- MCSettings
    Values <- MCValues
    StartNumbers <- MCStartNumbers
    MaxFailures = 2
INVARIANTS
    TypeOK
    SortedUnique
    NoDuplicateEth
    RowsMatchLinks
    DrivenWasCommitted
PROPERTIES
    DeletesOwnEth
    SettingsSurvive
    TableSpec
