--------------------------------- MODULE Pages ---------------------------------
(***************************************************************************)
(* The arithmetic of list endpoints: which page a query asks for           *)
(* (internal/httpapi/helpers.go), where it starts (internal/repository)    *)
(* and whether another one follows (NewPage, internal/service/service.go). *)
(***************************************************************************)
EXTENDS Integers

CONSTANTS
  DefaultPageSize, MaxPageSize,  \* 10 and 50 in the code
  MaxInt                         \* the largest int of the platform

ASSUME PageLimits ==
  /\ {DefaultPageSize, MaxPageSize, MaxInt} \subseteq Nat \ {0}
  /\ DefaultPageSize <= MaxPageSize /\ MaxPageSize <= MaxInt

\* A query parameter: what strconv.Atoi makes of it, 0 when it is absent or no
\* number.
Parameters == -MaxInt..MaxInt

PositiveInt(value, fallback) == IF value <= 0 THEN fallback ELSE value

\* The size and then the page that a request gets.
PageSize(size) ==
  LET wanted == PositiveInt(size, DefaultPageSize)
  IN  IF wanted > MaxPageSize THEN MaxPageSize ELSE wanted
PageNumber(page, size) ==
  IF PositiveInt(page, 1) > MaxInt \div PageSize(size) THEN 1 ELSE PositiveInt(page, 1)

Offset(page, size) == (page - 1) * size

\* Broken variant: the division is not rounded from the last row.
HasMoreRounded(total, page, size) == total > 0 /\ page < total \div size
\* Page.HasMore, for a size that PageSize has returned.
HasMore(total, page, size) == total > 0 /\ page <= (total - 1) \div size
=============================================================================
