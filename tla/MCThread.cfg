SPECIFICATION Spec
CONSTANTS
    a = a
    b = b
    c = c
    Tids = {1, 2, 3, 100000}
    FirstTid = 1
    FiveDigits = {1, 2, 3}
    Objects = {a, b, c}
    NoObject = NoObject
    MainProgram <- Main
    ChildProgram <- Child
    Func <- Functions
INVARIANTS Identity TidKnown NoDangling
