CONSTANTS
  Readers = {p1, p2}
  Nobody = Nobody
  INPUT_BUF = 3
  MaxUint = 6
  MaxRead = 2
  COLS = 2
  ROWS = 1
SPECIFICATION Spec
INVARIANTS RingNotStuck NoLostWakeup CursorOnScreen
PROPERTY IsLineDiscipline
SYMMETRY Symmetry
CHECK_DEADLOCK FALSE
