------------------------------- MODULE Amounts -------------------------------
(***************************************************************************)
(* Token amounts as the frontend writes and reads them (utils/amount.ts and *)
(* the unit conversions of lib/soroban.ts).  A displayed or typed number is *)
(* a record of its whole part and the sequence of its decimal digits; an    *)
(* on-chain amount is an integer of smallest units.                         *)
(***************************************************************************)
EXTENDS Integers, Sequences, SequencesExt

CONSTANTS DoubleBits,  \* significant bits of a number (53)
          MaxShift     \* bounds the powers of two a typed number is scaled by

ASSUME DoubleAssumption == DoubleBits \in Nat \ {0, 1} /\ MaxShift \in Nat

Display(whole, frac) == [whole |-> whole, frac |-> frac]

(* A variant: no padStart, so the zeros a fraction starts with are lost. *)
DigitsUnpadded(v, n) ==
  IF v = 0 THEN <<>>
  ELSE LET k == CHOOSE k \in 1..n : 10^(k - 1) <= v /\ v < 10^k
       IN  [i \in 1..k |-> (v \div 10^(k - i)) % 10]

(* The n digits of v, padded with zeros on the left (padStart). *)
Digits(v, n) == [i \in 1..n |-> (v \div 10^(n - i)) % 10]

(* replace(/0+$/, "") *)
Trimmed(digits) ==
  SubSeq(digits, 1, SelectLastInSeq(digits, LAMBDA digit : digit # 0))

ValueOf(digits) == FoldLeft(LAMBDA acc, digit : 10 * acc + digit, 0, digits)

formatAmount(raw, decimals) ==
  Display(raw \div 10^decimals, Trimmed(Digits(raw % 10^decimals, decimals)))

truncateAmount(raw, decimals, maxDisplayDecimals) ==
  LET frac == Digits(raw % 10^decimals, decimals)
  IN  Display(raw \div 10^decimals,
              Trimmed(SubSeq(frac, 1, IF maxDisplayDecimals < Len(frac)
                                        THEN maxDisplayDecimals ELSE Len(frac))))

(* Excess digits are cut off, missing ones are zeros (slice, padEnd). *)
parseAmount(display, decimals) ==
  display.whole * 10^decimals
    + ValueOf([i \in 1..decimals |-> IF i <= Len(display.frac) THEN display.frac[i] ELSE 0])

hasValidPrecision(display, decimals) == Len(display.frac) <= decimals

Positive(display) == display.whole > 0 \/ ValueOf(display.frac) > 0

validateAmountInput(display, decimals) == hasValidPrecision(display, decimals) /\ Positive(display)

(* A positive double is a fraction num / den whose num has DoubleBits        *)
(* significant bits and whose den is a power of two.  The double nearest to  *)
(* n / d; a tie goes to the even one.                                        *)
HalfEven(n, d) ==
  LET q == n \div d
      r == n % d
  IN  IF 2 * r > d \/ (2 * r = d /\ q % 2 = 1) THEN q + 1 ELSE q

Double(n, d) ==
  IF n >= d * 2^DoubleBits
  THEN LET j == CHOOSE j \in 1..MaxShift : n < d * 2^(DoubleBits + j)
       IN  [num |-> HalfEven(n, d * 2^j) * 2^j, den |-> 1]
  ELSE LET j == CHOOSE j \in 0..MaxShift : d * 2^(DoubleBits - 1) <= n * 2^j
       IN  [num |-> HalfEven(n * 2^j, d), den |-> 2^j]

(* A variant: the product is cut off where Math.round rounds it. *)
Floored(x) == x.num \div x.den

(* Math.round *)
Rounded(x) == (2 * x.num + x.den) \div (2 * x.den)

(* Math.round(parseFloat(value) * 10 ** decimals): reading the number and    *)
(* scaling it each end in a double.  Refused when not positive.              *)
toBaseUnits(display, decimals) ==
  LET scale == 10^Len(display.frac)
      parsed == Double(display.whole * scale + ValueOf(display.frac), scale)
  IN  Rounded(Double(parsed.num * 10^decimals, parsed.den))

fromBaseUnits(units, decimals) == formatAmount(units, decimals)

streamProgressPercent(withdrawn, deposited) ==
  IF deposited = 0 THEN (IF withdrawn > 0 THEN 100 ELSE 0)
  ELSE LET p == (withdrawn * 100) \div deposited
       IN  IF p > 100 THEN 100 ELSE p
=============================================================================
