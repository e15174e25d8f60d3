SPECIFICATION Spec
CONSTANTS
    a = a
    b = b
    Domain = domain
    Names = {domain, a, b}
    Dmarc = dmarc
    OrgDmarc = orgdmarc
    Dkim = dkim
    Macro = macro
    Private = private
    MaxLinks = 2
    EmailQueries = 5
    EmailDepth = 2
    Reserve = 2
SYMMETRY Symmetry
INVARIANTS
    ReserveKept
CHECK_DEADLOCK FALSE
