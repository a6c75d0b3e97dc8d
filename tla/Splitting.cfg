\* Amounts up to seven with limits up to three: multiples of a limit, a remainder of
\* one, amounts at and below the limit; a time before, at and after the cutoff.
SPECIFICATION SplitSpec
CONSTANTS
  Amounts = {1, 2, 3, 4, 5, 6, 7}
  Limits = {1, 2, 3}
  Times = {0, 1, 2}
  Unset = Unset
INVARIANTS
  RowsAddUp
  NoRowOverTheLimit
  FewestRows
\* The call returns.
CHECK_DEADLOCK FALSE
