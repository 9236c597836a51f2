SPECIFICATION Spec
CONSTANTS
  Tasks = {t1, t2}
  Blocks = {b1}
  Generations = {0, 1, 2}
  Lens = {1, 2}
  Budget = 3
  Width = 32
  MaxLeaked = 0
SYMMETRY Symmetric
INVARIANTS TypeOK Accounting OverBudgetBounded MarkCovers
