SPECIFICATION Spec
CONSTANTS
    r1 = r1
    r2 = r2
    r3 = r3
    main = main
    other = other
    Request = {r1, r2}
    Provider = {main, other}
    Main = main
    MaxNonce = 2
SYMMETRY Alike
INVARIANTS
    TypeOK
    ManagersCountApart
    NoHoles
    PhantomHasRival
CHECK_DEADLOCK FALSE
