SPECIFICATION Spec
CONSTANTS
    From = {240}
    To = {400}
INVARIANTS SizeArrives
CHECK_DEADLOCK FALSE
