SPECIFICATION Spec
CONSTANTS
    None = None
    CommandLines <- FullExclude
    Catalogues <- FlatCatalogues
    OtherCatalogues <- MCOtherCatalogues
    DestCatalogues <- MCDestCatalogues
INVARIANT
    ExcludedNotCopied
