SPECIFICATION Spec
CONSTANTS
    None = None
    CommandLines <- MCCommandLines
    Catalogues <- MCCatalogues
    OtherCatalogues <- MCOtherCatalogues
    DestCatalogues <- MCDestCatalogues
INVARIANTS
    SelectionExact
    DestinationReady
    GlobalsOnce
    FatalsExplained
