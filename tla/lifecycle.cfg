\* Any kernel call may fail; after a failed load the driver stays out.
SPECIFICATION FairSpec
CONSTANTS
  PCI_MAX_DEV = 2
  PCI_MAX_NUM_REGS = 2
  Devices <- MCDevices
  Failures = {"cdev_add", "pci_enable_device", "request_region", "ioremap", "request_irq", "__get_free_pages"}
INVARIANTS
  TypeOK
  ReleasesWhatItHolds
  HandlerHasRegisters
  UnloadedHoldsNothing
  FilesHaveRegisters
  CleanupGivesBack
PROPERTIES
  LoadEnds
CHECK_DEADLOCK FALSE
