CONSTANTS
    A = A
    B = B
    AccountId = {A, B}
    NoValue = NoValue
    NotSigned = NotSigned
    MAX = 15
SPECIFICATION TemplateSpec
INVARIANTS
    StoredIsAccounted
