SPECIFICATION Spec
CONSTANTS
    Bytes = {0, 1}
    BufLength = 2
    Width = 4
    MaxBlock = 3
PROPERTIES
    RefinesQueue
