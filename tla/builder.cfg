SPECIFICATION Spec
CONSTANTS
  MaxCalls = 4
INVARIANTS ExchangesAreBounded NothingIsIgnored OriginsOnly
