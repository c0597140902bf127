SPECIFICATION Spec
CONSTANTS
  Intents = {i1}
  Conversations <- OneConversation
  CustomerOf <- OneCustomer
  Names <- OneName
  FindContacts <- OneContact
  Recipients <- OneRecipient
  KnownRecipients = {"joao"}
  Amounts = {150000}
  OpeningBalance = 254310
  Processes = {"server", "server2", "cli"}
  Servers = {"server", "server2"}
  SecretOf <- OneSecret
  Workers = {"worker", "other", "operator"}
  ProcessOf <- TwoServers
  DeviceTrusted <- Trusted
  TTL = 0
  MaxTime = 0
  HourAt <- Midday
  MaxCrashes = 1
  Tampering = FALSE
  None = None
CHECK_DEADLOCK FALSE
INVARIANTS
  EvidenceBeforeMoney
  LargePaymentsAuthenticated
  IInv
PROPERTIES
  PaidOnce
  KeepsThePromise
