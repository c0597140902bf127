SPECIFICATION Spec
CONSTANTS
  Intents = {i1}
  Conversations <- OneConversation
  CustomerOf <- OneCustomer
  Names <- OneName
  FindContacts <- OneContact
  Recipients <- OneRecipient
  KnownRecipients = {}
  Amounts = {600}
  OpeningBalance = 1000
  Processes = {"server"}
  Servers = {"server"}
  SecretOf <- OneSecret
  Workers = {"worker", "thread"}
  ProcessOf <- OneServer
  DeviceTrusted <- Trusted
  TTL = 1
  MaxTime = 0
  HourAt <- Midday
  MaxCrashes = 0
  Tampering = FALSE
  None = None
CHECK_DEADLOCK FALSE
INVARIANTS
  CancelledMeansNotPaid
