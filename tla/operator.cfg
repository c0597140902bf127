SPECIFICATION Spec
CONSTANTS
  Intents = {i1}
  Conversations <- MCConversations
  CustomerOf <- MCCustomerOf
  Names <- MCNames
  FindContacts <- MCFindContacts
  Recipients <- MCRecipients
  KnownRecipients = {"renata"}
  Amounts = {10013, 150000}
  OpeningBalance = 254310
  Processes = {"server", "cli"}
  Servers = {"server"}
  SecretOf <- HostCli
  Workers = {"worker", "operator"}
  ProcessOf <- ServerAndCli
  DeviceTrusted <- Trusted
  TTL = 0
  MaxTime = 1
  HourAt <- Nightfall
  MaxCrashes = 1
  Tampering = TRUE
  None = None
CHECK_DEADLOCK FALSE
INVARIANTS
  PaidByConsent
  MismatchHasACause
  AnswersMatchTheBook
  NothingLeftSubmitted
PROPERTIES
  UnknownIsNeverRepaid
