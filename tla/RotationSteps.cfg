SPECIFICATION Spec
CONSTANTS
  Slots = 2
  DefaultCount = 2
  MaxGen = 2
  Kinds = {"nats", "minio", "registry", "controller", "ca"}
  TLS = {"nats", "minio", "registry"}
INVARIANTS
  NotLockedOut
  SuccessMeansCurrent
PROPERTIES
  CertKeepsTrust
