SPECIFICATION Spec
CONSTANTS
    Handlers = {"a", "b", "c"}
    Home = "home"
    Scenarios <- MCScenarios
    RepoNames = {"r0", "r1", "r2"}
    ModelNames = {"db.iris", "db_iris"}
    Classes = {"c1", "c2"}
    TableOf <- MCTableOf
    DefaultRepo = "r0"
    DefaultClasses = {"c1", "c2"}
INVARIANTS
    CatalogueConsistent
    ModelsAttributed
    AttributionInv
    AnswersAreTrue
PROPERTIES
    HandlersEnd
CHECK_DEADLOCK FALSE
