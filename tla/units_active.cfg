SPECIFICATION Spec
CONSTANTS
  Addresses = {a1, a2}
  Lengths = {l1, l2}
  Fields = {f1, f2}
  Values = {v1, v2}
INVARIANT ActiveIsRefused
