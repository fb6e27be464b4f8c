SPECIFICATION Spec
CONSTANTS
    Browser = {b1, b2}
    Shell = {s1}
    ann = ann
    Ann = Ann
    bob = bob
    Username = {ann, Ann, bob}
    Folded <- Collation
    Password = {p1, p2}
    Token = {t1, t2, t3}
    MaxAdminId = 3
    Faults = TRUE
    None = None
SYMMETRY AuthSymmetry
CONSTRAINT FewWhenOverlapping
INVARIANTS
    AdminInv
    PasswordEndsSessions
PROPERTIES
    AdminRemains
    StaysSignedIn
