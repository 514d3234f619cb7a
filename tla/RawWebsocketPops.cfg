\* One user and one text.
SPECIFICATION Spec
CONSTANTS
    Users = {owner}
    Owner = owner
    MaxTexts = 1
INVARIANT NeverPopsEmpty
CHECK_DEADLOCK FALSE
