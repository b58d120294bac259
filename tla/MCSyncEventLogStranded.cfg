SPECIFICATION Spec
CONSTANTS
    o = o
    u = u
    i = i
    j = j
    k = k
    s = s
    b = b
    r = r
    order = order
    item = item
    linked = linked
    stock = stock
    other = other
    d = d
    h1 = h1
    h2 = h2
    None = None
    Events = {o, i}
    Entities = {order, item}
    Handlers = {h1, h2}
    Devices = {d}
    DeviceOf <- MCDeviceOf
    KindOf <- MCKindOf
    EntityOf <- MCEntityOf
    OrderOf <- MCOrderOf
    Malformed = {}
    Refused = {}
    Reprocessable = {}
    MaxVersion = 2
INVARIANTS
    NoItemLeftBehind
