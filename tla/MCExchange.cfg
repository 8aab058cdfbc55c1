\* Three calls: side by side in one context, one after the other, or nested.
\* other is an encoder the server has not registered.
CONSTANTS
    c1 = c1
    c2 = c2
    c3 = c3
    shared = shared
    nil = nil
    json = json
    other = other
    Fresh = Fresh
    None = None
    Nil = Nil
    Plain = Plain
    Calls = {c1, c2, c3}
    Contexts = {shared, nil}
    NilContexts = {nil}
    Names = {json, other}
    Encoders = {json}
    Codes <- MCCodes
SPECIFICATION Spec
SYMMETRY Symmetry
INVARIANTS
    OutcomeTravels
    DecodedAsEncoded
CHECK_DEADLOCK FALSE
