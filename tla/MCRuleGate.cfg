SPECIFICATION Spec
CHECK_DEADLOCK FALSE
CONSTANTS
    NoCampus = "none"
    Offerings = {1, 2, 3}
    Courses = {2, 7, 8}
    NoOffering = 0
    CatalogueAnswers <- MCCatalogueAnswers
    ScheduleAnswers <- MCScheduleAnswers
    MaxRefreshes = 2
    Saves = {s1, s2}
    Majors = {"cs", "ee"}
    Versions = {"v1"}
    ItemLists <- MCItemLists
    CurriculumRules <- MCCurriculumRules
    CreditCap = 30
SYMMETRY Requests
INVARIANTS
    PlanFromOneSave
    ViewNeverStale
    PrecheckAgrees
    TimetableClashFree
PROPERTIES
    RefreshKeepsSeats
