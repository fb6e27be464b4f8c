SPECIFICATION Spec
CONSTANTS
    Browser = {b1}
    Shell = {}
    ann = ann
    Ann = Ann
    bob = bob
    Username = {ann, Ann}
    Folded <- Collation
    Password = {p1}
    Token = {t1}
    MaxAdminId = 2
    Faults = FALSE
    None = None
SYMMETRY AuthSymmetry
PROPERTIES
    OwnAccountStays
