CONSTANTS
    Projects = {p1, p2}
    Tokens = {k1}
    Tasks = {t1, t2}
    CanCrash = TRUE
    CanVanish = TRUE
SPECIFICATION Spec
INVARIANTS  RegistryAgrees
SYMMETRY Symmetry
