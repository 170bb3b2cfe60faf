SPECIFICATION Spec
CONSTANTS
  Texts = {a, b}
  Searches = {{a}}
  ListLimit = 3
  SearchLimit = 2
  Heights = {0, 1, 2}
  MaxRows = 3
INVARIANTS
  TypeOK
  IndicesValid
  SelectionVisible
  ItemsTruthful
CHECK_DEADLOCK FALSE
