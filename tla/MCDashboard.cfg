\* Expected to be violated: ShowsTheAgentsLabel.
SPECIFICATION Spec
CONSTANTS
    Sessions = {s1, s2}
    Tables = {t1}
    CatalogTTL = 2
    QueryTTL = 1
    Missing = Missing
    MaxTime = 4
PROPERTIES
    ShowsTheAgentsLabel
