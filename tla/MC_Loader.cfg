CONSTANTS
    NONE = NONE
    TagsLimit = 2
    NameOrder <- MCNameOrder
    ImportOrder <- MCImportOrder
    ImportKind <- MCImportKind
    ImportDir <- MCImportDir
    Disks <- MCDisks
    Loads <- MCLoads
SPECIFICATION FairSpec
INVARIANTS
    TypeOK
    FilesAreThoseNamed
    ImportsExplained
    TagsFollowNesting
    TagsSurviveSelection
PROPERTIES
    ImplementsClosure
    LoadEnds
