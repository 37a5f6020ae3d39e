\* One block with two consumers, lists with room for one task.
CONSTANTS
  Blocks = {1}
  Consumers = 2
  LargeSize = 2
  TinySize = 2
  bound_height = 0
  bound_size = 1
SPECIFICATION Spec
INVARIANTS NothingLost EndedExact CountersExact
PROPERTY EndsUnlessLeft
