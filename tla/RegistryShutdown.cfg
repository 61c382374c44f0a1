CONSTANTS
    Projects = {p1}
    Tokens = {k1}
    Tasks = {t1}
    CanCrash = FALSE
    CanVanish = FALSE
SPECIFICATION Spec
INVARIANT ProjectsSurvive
