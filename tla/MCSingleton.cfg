SPECIFICATION Spec
CONSTANTS
    t1 = t1
    t2 = t2
    t3 = t3
    Threads = {t1, t2, t3}
    Main = t1
    Program <- ProgramOfThree
    DtorUses = {"stl", "tls"}
    Iterations = 4
INVARIANTS
    UsesItsOwn
    Reaped
