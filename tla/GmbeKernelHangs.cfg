\* One block with one consumer, lists with room for one task.
CONSTANTS
  Blocks = {1}
  Consumers = 1
  LargeSize = 2
  TinySize = 2
  bound_height = 0
  bound_size = 1
SPECIFICATION Spec
PROPERTY Terminates
