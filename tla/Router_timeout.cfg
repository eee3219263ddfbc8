CONSTANTS
    c1 = c1
    c2 = c2
    c3 = c3
    k1 = k1
    k2 = k2
    NoCall = NoCall
    NoKey = NoKey
    Calls = {c1, c2, c3}
    Keys = {k1, k2}
    Key <- KeyOf
    Session <- OneSession
    Queue <- AllDialog
SPECIFICATION Spec
INVARIANTS
    DialogIsSerial
