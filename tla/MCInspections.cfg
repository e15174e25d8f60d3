SPECIFICATION InspectionSpec
CONSTANTS
    Hosts = {web, www, intranet}
    Denied = {intranet}
    Public = {p1, p2}
    Private = {q}
    HttpHops = 3
    HttpAddresses = 3
    DnsQueries = 5
    a = a
    b = b
    Domain = domain
    Names = {domain, a, b}
    Dmarc = dmarc
    OrgDmarc = orgdmarc
    Dkim = dkim
    Macro = macro
    PrivateName = private
    MaxLinks = 2
    EmailQueries = 5
    EmailDepth = 2
    Reserve = 2
SYMMETRY Symmetry
INVARIANTS
    HopsAreChecked
    ReportIsTrue
    CompleteIsExplored
    NothingIsGuessed
CHECK_DEADLOCK FALSE
