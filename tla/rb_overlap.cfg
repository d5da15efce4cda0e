\* A fast reader that loaded the state before a writer came.
CONSTANTS
  Readers = {r1}
  Writers = {w1}
  Slots = {s1}
  NoHolder = NoHolder
SPECIFICATION RBSpec
INVARIANT MutualExclusion
