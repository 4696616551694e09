\* Two domains, with a cap of one and of two, that two workers share.
CONSTANTS
  serial = serial
  wide = wide
  w1 = w1
  w2 = w2
  NoDomain = NoDomain
  Domains <- MCDomains
  Callers <- MCCallers
  Limits <- MCLimits
  MaxErrors = 2
SPECIFICATION HSpec
INVARIANTS SlotsExact WithinLimits SpanBudget
PROPERTIES RequestsSpaced CooldownKeptWhenSerial
