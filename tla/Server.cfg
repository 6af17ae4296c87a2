CONSTANTS
    a = a  b = b  c = c  C = C  r = r  here = here  there = there
    ka = ka  kb = kb  kb2 = kb2  kr = kr
    t1 = t1  t2 = t2  tb = tb  tb2 = tb2   tc = tc  tC = tC  tr = tr
    User = {a, b, c, C}
    Remote = {r}
    Domain = {here, there}
    DomainOf <- MCDomainOf
    Fold <- MCFold
    Key = {ka, kb, kb2, kr}
    RemoteKey = {kr, kb2}
    Pow = {t1, t2, tb, tb2, tc, tC, tr}
    PowFor <- MCPowFor
    Spelling = {"padded", "unpadded"}
    Payloads <- MCPayloads
    InitialRow <- MCInitialRow
    Handler = {h1, h2}
    RegistrationEnabled = TRUE
    FederationEnabled = TRUE
    Absent = Absent
    Destroyed = Destroyed
    Unreachable = Unreachable
    NoRequest = NoRequest
    MaxEvents = 3
SPECIFICATION Spec
SYMMETRY Interchangeable
INVARIANTS OncePerBoot OneCopy AnsweredMailKept NoUnwantedMail MailReadable
PROPERTIES KeySuccession
