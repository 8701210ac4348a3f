\* Every buffer of up to five bytes through stringlist_to_array: its items.
CONSTANTS
  Null = Null
  Bytes <- MCBytes
  Spaces <- MCSpaces
  Newlines <- MCNewlines
  MaxLen = 5
  MaxItems = 6

SPECIFICATION Spec

\* The function returns: its final states have no successor.
CHECK_DEADLOCK FALSE

INVARIANT StringListItems
