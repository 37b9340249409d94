\* Two concurrent requests and two creators of the resource; versions 1 and 2
\* are those a REST client may have read.
CONSTANTS
    r1 = r1  r2 = r2  c1 = c1  c2 = c2
    Req = {r1, r2}
    Creator = {c1, c2}
    MaxBase = 2
    Asked <- EachKind
SPECIFICATION TunnelSpec
SYMMETRY Interchangeable
INVARIANTS
    SuccessIsTrue
    CreatedIsTrue
    NoLostUpdate
    DeletedIsDoomed
