SPECIFICATION Spec
CONSTANTS
    Handlers = {h1, h2}
    Amounts <- SmallAmounts
    MaxRequests <- ThreeRequests
INVARIANTS NeverOver ExactAlone
