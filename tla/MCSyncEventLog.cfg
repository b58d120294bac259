SPECIFICATION MCSpec
CONSTANTS
    o = o
    u = u
    i = i
    j = j
    k = k
    s = s
    b = b
    r = r
    order = order
    item = item
    linked = linked
    stock = stock
    other = other
    d = d
    h1 = h1
    h2 = h2
    None = None
    Events = {o, u, i, j, k, s, b, r}
    Entities = {order, item, linked, stock, other}
    Handlers = {h1, h2}
    Devices = {d}
    DeviceOf <- MCDeviceOf
    KindOf <- MCKindOf
    EntityOf <- MCEntityOf
    OrderOf <- MCOrderOf
    Malformed = {b}
    Refused = {r}
    Reprocessable = {s}
    MaxVersion = 3
SYMMETRY HandlerSymmetry
INVARIANTS
    RowsHaveOneCreator
    ConflictsMatchEvents
PROPERTIES
    FeedSpec
