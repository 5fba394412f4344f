\* Two edits at a time, one name, the organisation and another owner.
CONSTANTS
  Editor = {e1, e2}
  Owner = {org, other}
  Name = {api}
  Org = org
  NoOrg = NoOrg
  Missing = Missing
  Empty = Empty
  Torn = Torn
  Order <- MCOrder
SPECIFICATION Spec
SYMMETRY Symmetry
INVARIANTS TypeOK NeverUninvited
PROPERTIES EditsAreAtomic EditSticks
\* After an overlap the file may be torn, and then every edit is refused.
CHECK_DEADLOCK FALSE
