CONSTANTS
    alice = alice
    bob = bob
    t1 = t1
    t2 = t2
    User <- MCUser
    Token <- MCToken
    Sub <- MCSub
    Request = {r1, r2}
    Rule = {k1}
    QosRule = {q1}
    Profile = {p1}
    Nobody = Nobody
    NoToken = NoToken
    NoRow = NoRow
CONSTRAINT OneAtATime
SYMMETRY Symmetry
SPECIFICATION Spec
PROPERTIES
    RefusedForGood
    OnlyOvertakenLost
