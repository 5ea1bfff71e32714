CONSTANTS
    classifier = classifier
    analyzer = analyzer
    other = other
    p1 = p1
    p2 = p2
    Process = {p1, p2}
    Model = {classifier, analyzer, other}
    Default = {classifier, analyzer}
    MaxBatchSize = 32
    Catalogue <- MCCatalogue
SPECIFICATION RegistrySpec
INVARIANTS
    CatalogueIsServed
