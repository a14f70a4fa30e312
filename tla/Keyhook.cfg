SPECIFICATION Spec
CONSTANTS
  Keys = {k1}
  Buttons = {b1}
  MaxLines = 2
  MaxStarts = 2
INVARIANTS OwnedIsPressed RemoteUpIsOwed
VIEW Seen
