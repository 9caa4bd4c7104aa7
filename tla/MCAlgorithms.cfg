CONSTANTS
  DivisionPrecision = 2
  Operands <- MCOperands
  Texts <- MCTexts
  MaxHundredths = 9999
  MaxPowHundredths = 300
  MaxOps = 2
  MonthDays <- MCMonthDays
  Hours = 2
  Minutes = 2
  Seconds = 2
  Week = 3
  Nanos = 2
  YearLimit = 1
  Specs <- MCSpecs
  Starts <- MCStarts
  Values = {2, 12}
  Table <- MCTable
  OrParts <- MCOrParts
  MaxConditions = 2
  Others <- MCOthers
  MaxParts = 4
  MaxPageSize = 2
  DefaultPageSize = 2
  PageSizes = {0, 1, 2}
  MaxChanges = 2
  Callers = {c1, c2}
  Burst = 1
  TokenParts = 2
  Expire = 1
  WaitLimits = {1, 3}
  MaxNow = 4
  MaxAsks = 4
SPECIFICATION Spec
INVARIANTS DecimalAgrees NextIsLeast QuerySelects ComplexSelects PagesVisitAll RateRespected NoNeedlessRefusal
CHECK_DEADLOCK FALSE
