\* Certificates of a day and a half or a month, two ticks a day, checks at least daily.
SPECIFICATION Spec
CONSTANTS
  TicksPerDay = 2
  MaxNow = 66
  Gap = 2
  Lifetimes = {3, 63}
  WarnDays = 7
  WarnDaysExpiry = 0
  AcceptedStatuses = {0, 204}
  ExpectedStatus = 200
  Replies = {0, 204, 500}
INVARIANTS
  TypeOK
  RemindedInTime
  SslWarnsFirst
PROPERTIES
  OnlyRenewalRecovers
CHECK_DEADLOCK FALSE
