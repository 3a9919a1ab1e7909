SPECIFICATION Spec
INVARIANT
  NoNullDereference
