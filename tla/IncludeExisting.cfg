SPECIFICATION Spec
CONSTANTS
    None = None
    CommandLines <- IncludeExisting
    Catalogues <- FlatCatalogues
    OtherCatalogues <- MCOtherCatalogues
    DestCatalogues <- MCDestCatalogues
INVARIANT
    OnlyNamedCreated
