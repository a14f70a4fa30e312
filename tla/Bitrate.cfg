SPECIFICATION Spec
CONSTANTS
    Mega = 50
    Ceilings = {50, 80}
    MaxCeiling = 80
    Hooks = {h1, h2}
    Sender = sender
    Pollers = {sender, encoder}
    MaxLoss = 1
    MaxRtt = 3
INVARIANTS TypeOK FloorHeld CeilingsOrdered NoStaleRaise
SYMMETRY HookSymmetry
