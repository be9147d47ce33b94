SPECIFICATION FairSpec
CONSTANTS
  Responses <- MCResponses
  HeaderBufLen = 10
  Settings <- MCSettings
  SendBufSize = 6
  RedirectMax = 1
  MaxRequests = 2
INVARIANTS
  BodyDelivered
  ErrorsHaveReasons
  RequestArrives
PROPERTIES
  CallsReturn
