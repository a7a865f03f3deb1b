SPECIFICATION Spec
CONSTANTS
    Ids = {i1, i2}
    Handlers = {h1, h2, h3}
    Faults = {"session", "remove", "readdir", "insert", "select", "delete", "storage"}
SYMMETRY Symmetry
INVARIANTS TypeOK RowsAreServed CreatedIsKept CreatedIsListed DeletedIsGone
