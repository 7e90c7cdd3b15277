SPECIFICATION Spec
CONSTANTS
  PAGE_NSIZES = 3
  PAGE_SIZE = 24
  NPAGES = 9
  SLAB_MAX_ORDER = 3
  SLAB = 4
  BUFCTL = 2
  ALLOCATOR = 6
  REDZONE = 1
  POINTER = 1
  KMALLOC_SIZE_MIN_ORDER = 2
  KMALLOC_SIZE_MAX_ORDER = 2
  Npages = {1, 2}
  Sizes = {22}
  KSizes = {3}
  MaxAllocators = 3
  MaxHeld = 4
  NULL = NULL
INVARIANTS
  BuddyBits
  SlabObjects
PROPERTIES
  ImplementsHeap
