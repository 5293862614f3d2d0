CONSTANTS
    Absent = Absent
    Segments <- MCSegments
    MaxSegments = 2
    Graphs <- MCGraphs
    Catalogues <- MCCatalogues
    Selectors <- MCSelectors
    Targets <- MCTargets
    Versions <- MCVersions
    Payloads <- MCPayloads
    ProductRows <- MCProductRows
    MaxRows = 3
    Frames <- MCFrameInputs
    Bodies <- MCBodies
    Wrap = 16

SPECIFICATION Spec
INVARIANTS
    IdentifiersAreInjective
    PortalAgreesWithIndex
    CatalogsAreUnambiguous
    SchemasRoundTrip
    CapabilityNeedsAgreement
    ClaimsRestOnTheirBytes
    CalculationsUseOnlyWhatCounts
CHECK_DEADLOCK FALSE
