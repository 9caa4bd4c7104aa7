------------------------------ MODULE Decimal -------------------------------
(***************************************************************************)
(* The fixed-point numbers of utils/decimal/decimal.go.  A Decimal is      *)
(* value * 10^exp, and one number has many: 1.5 is 15 * 10^-1 and          *)
(* 150 * 10^-2.  The machine is a caller that chains operations on one     *)
(* Decimal; `calc` remembers the last of them with its arguments, so that  *)
(* the result is compared with the number it stands for, computed on       *)
(* integers and not by the steps of the code.                              *)
(*                                                                         *)
(* math/big's Quo truncates and its Div and DivMod round so that the       *)
(* remainder is not negative.  Numbers are kept small (MaxHundredths), so  *)
(* neither the exponents nor the coefficients leave TLC's integers.        *)
(***************************************************************************)
EXTENDS Integers, Sequences

CONSTANTS
  DivisionPrecision, \* decimal.DivisionPrecision
  Operands,          \* the Decimals a calculation starts from and takes
  Texts,             \* the texts given to NewFromString
  MaxHundredths,     \* bound on the numbers an operation is applied to
  MaxPowHundredths,  \* bound on the numbers that are raised to a power
  MaxOps             \* bound on the operations of a calculation

ASSUME DecimalAssumption ==
  /\ DivisionPrecision \in Nat /\ MaxHundredths \in Nat /\ MaxPowHundredths \in Nat /\ MaxOps \in Nat
  /\ \A d \in Operands : d.value \in Int /\ d.exp \in -2..1

VARIABLES
  calc,  \* the last operation: op, its operands x, y and p, its result z
  ops    \* the operations done

decimalVars == <<calc, ops>>

New(v, e) == [value |-> v, exp |-> e]
Zero == New(0, 1)
Panic == New(0, 99)      \* what an operation that panics leaves

Magnitude(i) == IF i < 0 THEN -i ELSE i
Signum(i) == IF i < 0 THEN -1 ELSE IF i = 0 THEN 0 ELSE 1
Lesser(a, b) == IF a >= b THEN b ELSE a
Quo(a, b) == Signum(a) * Signum(b) * (Magnitude(a) \div Magnitude(b))

-----------------------------------------------------------------------------
(* Scaling and comparing. *)

rescale(d, e) ==
  New(IF e > d.exp THEN Quo(d.value, 10^(e - d.exp)) ELSE d.value * 10^(d.exp - e), e)

\* Add and Sub bring both operands to the smaller exponent.
Add(x, y) ==
  LET e == Lesser(x.exp, y.exp) IN New(rescale(x, e).value + rescale(y, e).value, e)
Sub(x, y) ==
  LET e == Lesser(x.exp, y.exp) IN New(rescale(x, e).value - rescale(y, e).value, e)
Neg(d) == New(-d.value, d.exp)
AbsOf(d) == New(Magnitude(d.value), d.exp)
Mul(x, y) == New(x.value * y.value, x.exp + y.exp)
Shift(d, s) == New(d.value, d.exp + s)

Cmp(x, y) ==
  LET e == Lesser(x.exp, y.exp) IN Signum(rescale(x, e).value - rescale(y, e).value)
Equal(x, y) == Cmp(x, y) = 0
GreaterThan(x, y) == Cmp(x, y) = 1
GreaterThanOrEqual(x, y) == Cmp(x, y) \in {0, 1}
LessThan(x, y) == Cmp(x, y) = -1
LessThanOrEqual(x, y) == Cmp(x, y) \in {-1, 0}
Sign(d) == Signum(d.value)

MinOf(x, y) == IF Cmp(y, x) < 0 THEN y ELSE x
MaxOf(x, y) == IF Cmp(y, x) > 0 THEN y ELSE x

-----------------------------------------------------------------------------
(* Rounding. *)

\* Faulty: what DivMod took too much is not taken back.
RoundDown(d, places) ==
  LET ret == rescale(d, -places - 1).value
  IN  New((IF ret < 0 THEN ret - 5 ELSE ret + 5) \div 10, -places)
\* Truncate to one digit more, add half away from zero, divide by ten with
\* DivMod and take back what rounding towards minus infinity took too much.
Round(d, places) ==
  LET ret == rescale(d, -places - 1).value
      up == IF ret < 0 THEN ret - 5 ELSE ret + 5
      div == up \div 10
  IN  New(IF div < 0 /\ up % 10 # 0 THEN div + 1 ELSE div, -places)

RoundBank(d, places) ==
  LET round == Round(d, places)
      tie == Equal(AbsOf(Sub(d, round)), New(5, -places - 1))
  IN  IF tie /\ round.value % 2 # 0
      THEN [round EXCEPT !.value = IF @ < 0 THEN @ + 1 ELSE @ - 1]
      ELSE round

Truncate(d, precision) ==
  IF precision >= 0 /\ -precision > d.exp THEN rescale(d, -precision) ELSE d

Floor(d) == IF d.exp >= 0 THEN d ELSE New(d.value \div 10^(-d.exp), 0)
Ceil(d) ==
  IF d.exp >= 0 THEN d
  ELSE LET n == 10^(-d.exp)
       IN  New((d.value \div n) + (IF d.value % n # 0 THEN 1 ELSE 0), 0)

IntPart(d) == rescale(d, 0).value

-----------------------------------------------------------------------------
(* Division.  y is not zero: QuoRem panics on it. *)

QuoRem(x, y, precision) ==
  LET scale == -precision
      e == x.exp - y.exp - scale
      aa == IF e < 0 THEN x.value ELSE x.value * 10^e
      bb == IF e < 0 THEN y.value * 10^(-e) ELSE y.value
      q == Quo(aa, bb)
  IN  [quo |-> New(q, scale),
       rem |-> New(aa - q * bb, IF e < 0 THEN x.exp ELSE scale + y.exp)]

\* One unit away from zero when twice the remainder reaches the divisor.
DivRound(x, y, precision) ==
  LET qr == QuoRem(x, y, precision)
      r2 == New(2 * Magnitude(qr.rem.value), qr.rem.exp + precision)
  IN  CASE LessThan(r2, AbsOf(y)) -> qr.quo
        [] Sign(x) * Sign(y) < 0 /\ ~LessThan(r2, AbsOf(y)) -> Sub(qr.quo, New(1, -precision))
        [] OTHER -> Add(qr.quo, New(1, -precision))

Div(x, y) == DivRound(x, y, DivisionPrecision)
Mod(x, y) == Sub(x, Mul(y, Truncate(Div(x, y), 0)))
Avg(x, y) == Div(Add(x, y), New(2, 0))

\* d to the power of the integer part of d2, by halving d2.
RECURSIVE Pow(_, _)
Pow(d, d2) ==
  IF IntPart(d2) = 0 THEN New(1, 0)
  ELSE LET temp == Pow(d, Div(d2, New(2, 0)))
           square == Mul(temp, temp)
       IN  CASE IntPart(d2) % 2 = 0 -> square
             [] IntPart(d2) % 2 # 0 /\ IntPart(d2) > 0 -> Mul(square, d)
             [] OTHER -> Div(square, d)

\* The bits of a XOR b, which Go writes a^b.
Xor(a, b) ==
  LET bit(n, i) == (n \div 2^i) % 2
      at[i \in 0..5] == (IF bit(a, i) # bit(b, i) THEN 2^i ELSE 0)
                        + (IF i = 0 THEN 0 ELSE at[i - 1])
  IN  at[5]

Cash == [i \in {5, 10, 15, 25, 50, 100} |->
           CASE i = 5 -> 20 [] i \in {10, 15} -> 10 [] i = 25 -> 4 [] i = 50 -> 2 [] OTHER -> 1]

\* For 15, a coefficient that ends in 5 or 0 is first lowered by dOne, which
\* is 10 XOR the number of decimals.
CashLowered(d) ==
  IF d.exp < 0 /\ Equal(Mod(New(d.value, 0), New(5, 0)), Zero)
  THEN Sub(d, New(Xor(10, -d.exp), d.exp)) ELSE d
RoundCash(d, interval) ==
  LET iVal == New(Cash[interval], 0)
      lowered == IF interval = 15 THEN CashLowered(d) ELSE d
  IN  Truncate(Div(Round(Mul(lowered, iVal), 0), iVal), 2)

-----------------------------------------------------------------------------
(* Text: a sign, the digits before and after the point, and an exponent. *)

Text(neg, int, frac, e) == [neg |-> neg, int |-> int, frac |-> frac, e |-> e]

Digits(n) ==
  LET len == CHOOSE k \in 1..9 : n < 10^k /\ (k = 1 \/ n >= 10^(k - 1))
  IN  [i \in 1..len |-> (n \div 10^(len - i)) % 10]
NumberOf(s) ==
  LET to[i \in 0..Len(s)] == IF i = 0 THEN 0 ELSE 10 * to[i - 1] + s[i] IN to[Len(s)]
TrimRight(s) ==
  SubSeq(s, 1, CHOOSE k \in 0..Len(s) : (k = 0 \/ s[k] # 0) /\ \A j \in k + 1..Len(s) : s[j] = 0)

string(d, trimTrailingZeros) ==
  LET str == Digits(Magnitude(d.value))
      short == Len(str) <= -d.exp
      frac == IF short THEN [i \in 1..(-d.exp - Len(str)) |-> 0] \o str
              ELSE SubSeq(str, Len(str) + d.exp + 1, Len(str))
  IN  IF d.exp >= 0
      THEN Text(d.value < 0, Digits(Magnitude(rescale(d, 0).value)), <<>>, 0)
      ELSE Text(d.value < 0, IF short THEN <<0>> ELSE SubSeq(str, 1, Len(str) + d.exp),
                IF trimTrailingZeros THEN TrimRight(frac) ELSE frac, 0)

\* The zeroes that end the fraction are dropped, and what is left must have
\* a digit: SetString refuses the text otherwise.
Parses(t) == t.int \o TrimRight(t.frac) # <<>>
NewFromString(t) ==
  LET n == NumberOf(t.int \o TrimRight(t.frac))
  IN  New(IF t.neg THEN -n ELSE n, t.e - Len(TrimRight(t.frac)))

StringFixed(d, places) == string(Round(d, places), FALSE)
StringFixedBank(d, places) == string(RoundBank(d, places), FALSE)
StringFixedCash(d, interval) == string(RoundCash(d, interval), FALSE)

\* What is stored and loaded again: String for JSON, in quotes unless the
\* package's MarshalJSONWithoutQuotes is set, for text and the database; for
\* binary and gob the four bytes of the exponent's two's complement and the
\* big integer's own form, a sign and a magnitude.
MarshalJSON(d, withoutQuotes) == [quoted |-> ~withoutQuotes, text |-> string(d, TRUE)]
unquoteIfQuoted(json) == json.text
UnmarshalJSON(json) == NewFromString(unquoteIfQuoted(json))
Reloaded(d) == NewFromString(string(d, TRUE))
PutUint32(n) == [i \in 1..4 |-> (n \div 256^(4 - i)) % 256]
Int32(bytes) ==
  (IF bytes[1] < 128 THEN bytes[1] ELSE bytes[1] - 256) * 256^3
    + bytes[2] * 256^2 + bytes[3] * 256 + bytes[4]
MarshalBinary(d) ==
  [exp |-> PutUint32(d.exp), value |-> [neg |-> d.value < 0, abs |-> Magnitude(d.value)]]
UnmarshalBinary(data) ==
  New(IF data.value.neg THEN -data.value.abs ELSE data.value.abs, Int32(data.exp))

\* A NullDecimal that is not valid is stored as null, and a null that is
\* loaded leaves the Decimal of the NullDecimal as it is.
NullDecimal(valid, d) == [valid |-> valid, decimal |-> d]
NullText == [quoted |-> FALSE, text |-> Text(FALSE, <<>>, <<>>, 0)]
MarshalNull(n, withoutQuotes) == IF n.valid THEN MarshalJSON(n.decimal, withoutQuotes) ELSE NullText
UnmarshalNull(n, json) ==
  IF json = NullText THEN [n EXCEPT !.valid = FALSE] ELSE NullDecimal(TRUE, UnmarshalJSON(json))

-----------------------------------------------------------------------------
(* The caller. *)

Hundredths(d) == d.value * 10^(d.exp + 2)
Small(d) == d # Panic /\ d.exp \in -2..1 /\ Magnitude(Hundredths(d)) <= MaxHundredths

Calc(op, y, p, z) ==
  /\ calc' = [op |-> op, x |-> calc.z, y |-> y, p |-> p, z |-> z]
  /\ ops' = ops + 1

InitDecimal ==
  /\ \E d \in Operands : calc = [op |-> "New", x |-> d, y |-> d, p |-> 0, z |-> d]
  /\ ops = 0
IdleDecimal == calc = [op |-> "New", x |-> Zero, y |-> Zero, p |-> 0, z |-> Panic] /\ ops = 0

DoAdd == \E y \in Operands : Calc("Add", y, 0, Add(calc.z, y))
DoSub == \E y \in Operands : Calc("Sub", y, 0, Sub(calc.z, y))
DoMul == \E y \in Operands : Calc("Mul", y, 0, Mul(calc.z, y))
DoNeg == Calc("Neg", calc.z, 0, Neg(calc.z))
DoAbs == Calc("Abs", calc.z, 0, AbsOf(calc.z))
DoShift == \E s \in -2..2 : Calc("Shift", calc.z, s, Shift(calc.z, s))
DoCmp == \E y \in Operands : Calc("Cmp", y, 0, New(Cmp(calc.z, y), 0))
DoMin == \E y \in Operands : Calc("Min", y, 0, MinOf(calc.z, y))
DoMax == \E y \in Operands : Calc("Max", y, 0, MaxOf(calc.z, y))
DoAvg == \E y \in Operands : Calc("Avg", y, 0, Avg(calc.z, y))
DoQuoRem == \E y \in Operands, p \in -1..2 :
  Calc("QuoRem", y, p, IF y.value = 0 THEN Panic ELSE QuoRem(calc.z, y, p).rem)
DoDivRound == \E y \in Operands, p \in -1..2 :
  Calc("DivRound", y, p, IF y.value = 0 THEN Panic ELSE DivRound(calc.z, y, p))
DoMod == \E y \in Operands : Calc("Mod", y, 0, IF y.value = 0 THEN Panic ELSE Mod(calc.z, y))
DoPow == \E n \in -1..3 :
  /\ Magnitude(Hundredths(calc.z)) <= MaxPowHundredths
  /\ Calc("Pow", New(n, 0), n, IF n < 0 /\ calc.z.value = 0 THEN Panic ELSE Pow(calc.z, New(n, 0)))
DoRound == \E p \in -1..1 : Calc("Round", calc.z, p, Round(calc.z, p))
DoRoundBank == \E p \in -1..1 : Calc("RoundBank", calc.z, p, RoundBank(calc.z, p))
DoTruncate == \E p \in -1..1 : Calc("Truncate", calc.z, p, Truncate(calc.z, p))
DoFloor == Calc("Floor", calc.z, 0, Floor(calc.z))
DoCeil == Calc("Ceil", calc.z, 0, Ceil(calc.z))
DoRoundCash == \E i \in DOMAIN Cash : Calc("RoundCash", calc.z, i, RoundCash(calc.z, i))
DoReload == Calc("Reload", calc.z, 0, Reloaded(calc.z))
DoReloadJSON == \E bare \in BOOLEAN : Calc("Reload", calc.z, 1, UnmarshalJSON(MarshalJSON(calc.z, bare)))
DoReloadNull == \E valid, bare \in BOOLEAN :
  LET n == UnmarshalNull(NullDecimal(TRUE, calc.z), MarshalNull(NullDecimal(valid, calc.z), bare))
  IN  Calc("ReloadNull", New(IF n.valid THEN 1 ELSE 0, 0), IF valid THEN 1 ELSE 0, n.decimal)
DoReloadBinary == Calc("ReloadBinary", calc.z, 0, UnmarshalBinary(MarshalBinary(calc.z)))
DoStringFixed == \E p \in -1..2 : Calc("StringFixed", calc.z, p, NewFromString(StringFixed(calc.z, p)))
DoStringFixedBank == \E p \in -1..1 :
  Calc("StringFixedBank", calc.z, p, NewFromString(StringFixedBank(calc.z, p)))
DoStringFixedCash == \E i \in DOMAIN Cash :
  Calc("RoundCash", calc.z, i, NewFromString(StringFixedCash(calc.z, i)))
\* A text that does not parse leaves an error and the zero Decimal.
DoParse == \E t \in Texts : Calc("Parse", t, 0, IF Parses(t) THEN NewFromString(t) ELSE Panic)

NextDecimal ==
  /\ ops < MaxOps /\ Small(calc.z)
  /\ \/ DoAdd \/ DoSub \/ DoMul \/ DoNeg \/ DoAbs \/ DoShift \/ DoCmp \/ DoMin \/ DoMax \/ DoAvg
     \/ DoQuoRem \/ DoDivRound \/ DoMod \/ DoPow
     \/ DoRound \/ DoRoundBank \/ DoTruncate \/ DoFloor \/ DoCeil \/ DoRoundCash
     \/ DoReload \/ DoReloadJSON \/ DoReloadNull \/ DoReloadBinary
     \/ DoStringFixed \/ DoStringFixedBank \/ DoStringFixedCash \/ DoParse

-----------------------------------------------------------------------------
(* The numbers the results stand for. *)

\* The number d as a multiple of 10^-k.
Times(d, k) == d.value * 10^(d.exp + k)

\* r is the multiple of u nearest to n, a tie going to the one Tie allows.
Nearest(r, n, u, Tie(_)) ==
  /\ r % u = 0
  /\ 2 * Magnitude(r - n) <= u
  /\ 2 * Magnitude(r - n) = u => Tie(r)
AwayFromZero(n, r) == Magnitude(r) > Magnitude(n)

\* q is the integer nearest to a / b, a tie going away from zero.
Quotient(q, a, b) ==
  /\ 2 * Magnitude(q * b - a) <= Magnitude(b)
  /\ 2 * Magnitude(q * b - a) = Magnitude(b) => Magnitude(q * b) > Magnitude(a)

\* The rounding of the quotient to DivisionPrecision digits takes it up to an
\* integer: Mod's quotient is then one too large (utils/decimal/decimal.go:540).
CarriesOver(x, y) == IntPart(Div(x, y)) # Quo(Hundredths(x), Hundredths(y))

Unit(p) == 10^(2 - p)

(***************************************************************************)
(* DecimalAgrees: whatever the exponents of its operands, an operation of  *)
(* Decimal leaves the number that the mathematical operation gives: sums,  *)
(* products and powers exactly; a quotient nearest to the exact one, ties  *)
(* away from zero; QuoRem with x = q*y + r and a remainder of x's sign and *)
(* smaller than y's last place; Round, RoundBank, RoundCash, Floor, Ceil   *)
(* and Truncate with the multiple their rounding rule names, also below    *)
(* zero; and a number survives being stored as text or as bytes and loaded *)
(* again.  Two results are left out, which README section 5 reports: Mod   *)
(* when the rounded quotient carries over to the next integer, and         *)
(* RoundCash(15), which lowers some numbers before it rounds them.         *)
(***************************************************************************)
DecimalAgrees ==
  LET x == calc.x  y == calc.y  z == calc.z  p == calc.p
      X == Hundredths(x)
  IN  z # Panic =>
      CASE calc.op = "Add" -> Times(z, 2) = X + Hundredths(y)
        [] calc.op = "Sub" -> Times(z, 2) = X - Hundredths(y)
        [] calc.op = "Mul" -> Times(z, 4) = X * Hundredths(y)
        [] calc.op = "Neg" -> Times(z, 2) = -X
        [] calc.op = "Abs" -> Times(z, 2) = Magnitude(X)
        [] calc.op = "Shift" -> Times(z, 4) = X * 10^(2 + p)
        [] calc.op = "Cmp" ->
             /\ z.value = Signum(X - Hundredths(y))
             /\ Equal(x, y) => string(x, TRUE) = string(y, TRUE)
             /\ GreaterThanOrEqual(x, y) <=> LessThanOrEqual(y, x)
             /\ GreaterThan(x, y) <=> LessThan(y, x)
        [] calc.op = "Min" -> Times(z, 2) = Lesser(X, Hundredths(y))
        [] calc.op = "Max" -> Times(z, 2) = -Lesser(-X, -Hundredths(y))
        [] calc.op = "Avg" -> Quotient(Times(z, DivisionPrecision),
                                       (X + Hundredths(y)) * 10^DivisionPrecision, 200)
        [] calc.op = "QuoRem" ->
             /\ Times(QuoRem(x, y, p).quo, 2) * Hundredths(y) + Times(z, 4) = X * 100
             /\ Magnitude(Times(z, 4)) < Magnitude(Hundredths(y)) * Unit(p)
             /\ Signum(z.value) \in {0, Signum(X)}
        [] calc.op = "DivRound" -> Quotient(Times(z, p), X * 10^(1 + p), Hundredths(y) * 10)
        [] calc.op = "Mod" /\ ~CarriesOver(x, y) ->
             /\ Times(z, 2) = X - Hundredths(y) * Quo(X, Hundredths(y))
             /\ Magnitude(Times(z, 2)) < Magnitude(Hundredths(y))
        [] calc.op = "Pow" /\ p >= 0 -> Times(z, 2 * p) = (IF p = 0 THEN 1 ELSE X^p)
        [] calc.op = "Pow" /\ p < 0 -> Quotient(Times(z, DivisionPrecision), 10^(2 + DivisionPrecision), X)
        [] calc.op \in {"Round", "StringFixed"} ->
             Nearest(Times(z, 2), X, Unit(p), LAMBDA r : AwayFromZero(X, r))
        [] calc.op \in {"RoundBank", "StringFixedBank"} ->
             Nearest(Times(z, 2), X, Unit(p), LAMBDA r : (r \div Unit(p)) % 2 = 0)
        [] calc.op = "Truncate" ->
             IF p < 0 THEN z = x ELSE Times(z, 2) = Quo(X, Unit(p)) * Unit(p)
        [] calc.op = "Floor" -> Times(z, 2) = (X \div 100) * 100
        [] calc.op = "Ceil" -> Times(z, 2) = -((-X) \div 100) * 100
        [] calc.op = "RoundCash" /\ p # 15 ->
             Nearest(Times(z, 2), X, p, LAMBDA r : AwayFromZero(X, r))
        [] calc.op \in {"Reload", "New"} -> Times(z, 2) = X
        [] calc.op = "ReloadBinary" -> z = x
        [] calc.op = "ReloadNull" -> y.value = p /\ Times(z, 2) = X
        [] calc.op = "Parse" ->
             LET n == NumberOf(y.int \o y.frac)
             IN  Times(z, 4) = (IF y.neg THEN -n ELSE n) * 10^(4 + y.e - Len(y.frac))
        [] OTHER -> TRUE
=============================================================================
