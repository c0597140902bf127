SPECIFICATION FairSpec
CONSTANTS
  Intents = {i1, i2}
  Conversations <- OneConversation
  CustomerOf <- OneCustomer
  Names <- OneName
  FindContacts <- OneContact
  Recipients <- OneRecipient
  KnownRecipients = {}
  Amounts = {600, 613}
  OpeningBalance = 1000
  Processes = {"server"}
  Servers = {"server"}
  SecretOf <- OneSecret
  Workers = {"worker"}
  ProcessOf <- OneServer
  DeviceTrusted <- Trusted
  TTL = 1
  MaxTime = 1
  HourAt <- Midday
  MaxCrashes = 1
  Tampering = FALSE
  None = None
CHECK_DEADLOCK FALSE
INVARIANTS
  TypeOK
PROPERTIES
  SavedHopsAreLogged
  SubmittedIsResolved
