SPECIFICATION Spec
CONSTANTS
    Values = {v1, v2}
    None = None
    Fields = 2
PROPERTIES
    StaysProvisioned
