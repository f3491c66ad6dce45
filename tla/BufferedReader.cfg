\* Two cores, and a buffer that is smaller than a record.
SPECIFICATION Spec
CONSTANTS
    Pipes = {0, 1}
    CAPACITY = 3
    Blocks = {2, 3}
    TraceSizes = {4, 8}
    JunkSizes = {0, 3}
    ReadErrors = {0, 1}
    BUFFER = 3
    inst_addr_size = 2
    inst_type_size = 1
    ldst_addr_size = 1
PROPERTIES
    CoresReadTheirStreams
    EverybodyEnds
CHECK_DEADLOCK FALSE
