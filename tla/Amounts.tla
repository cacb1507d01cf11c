------------------------------- MODULE Amounts -------------------------------
(***************************************************************************)
(* Amounts of coins and their decimal texts: core/coin.ts, util/units.ts,  *)
(* util/amount.ts, provider/utils.ts and the rounding of client/gas.ts.    *)
(*                                                                         *)
(* A text is a record [neg, int, frac] of a sign and two sequences of      *)
(* digits; "12" has an empty fraction.  BigInts are integers.  A function  *)
(* that may throw returns <<>> when it does and <<value>> otherwise.       *)
(***************************************************************************)
EXTENDS Integers, Sequences
LOCAL INSTANCE SequencesExt
LOCAL INSTANCE FiniteSetsExt

Throws == <<>>

\* option ?? default.
Or(option, default) == IF option = <<>> THEN default ELSE option[1]

\* A loop over results that ends with the first exception.
AllOf(results) ==
  IF \E i \in DOMAIN results : results[i] = Throws THEN Throws
  ELSE <<[i \in DOMAIN results |-> results[i][1]]>>

Magnitude(n) == IF n < 0 THEN -n ELSE n

Least(m, n) == IF m < n THEN m ELSE n

Number(digits) == FoldLeft(LAMBDA n, d : 10 * n + d, 0, digits)

\* What toString() writes of a natural number.
Digits(n) ==
  LET width == CHOOSE k \in 1 .. 20 : n < 10 ^ k /\ (k = 1 \/ 10 ^ (k - 1) <= n)
  IN [i \in 1 .. width |-> (n \div 10 ^ (width - i)) % 10]

PadEnd(digits, width) ==
  digits \o [i \in 1 .. (width - Len(digits)) |-> 0]

PadStart(digits, width) ==
  [i \in 1 .. (width - Len(digits)) |-> 0] \o digits

First(digits, width) == SubSeq(digits, 1, Least(width, Len(digits)))

WithoutTrailingZeros(digits) ==
  SubSeq(digits, 1, Max({0} \cup {i \in DOMAIN digits : digits[i] # 0}))

-----------------------------------------------------------------------------
(***************************************************************************)
(* util/units.ts                                                           *)
(***************************************************************************)
FormatUnits(value, decimals) ==
  LET str == PadStart(Digits(Magnitude(value)), decimals + 1)
      point == Len(str) - decimals
  IN [neg  |-> value < 0,
      int  |-> SubSeq(str, 1, point),
      frac |-> WithoutTrailingZeros(SubSeq(str, point + 1, Len(str)))]

\* A plausible mistake: the digits of the fraction are not padded.
ParseUnitsUnpadded(text, decimals) ==
  LET n == Number(text.int \o First(text.frac, decimals))
  IN IF decimals = 0 /\ text.frac # <<>> THEN Throws
     ELSE <<IF text.neg THEN -n ELSE n>>

\* Digits beyond decimals are cut off; without decimals BigInt() takes the
\* text as it is and refuses a fraction.
ParseUnits(text, decimals) ==
  LET n == Number(text.int \o PadEnd(First(text.frac, decimals), decimals))
  IN IF decimals = 0 /\ text.frac # <<>> THEN Throws
     ELSE <<IF text.neg THEN -n ELSE n>>

(***************************************************************************)
(* util/amount.ts: the options are [max, min, trim].                       *)
(***************************************************************************)
FormatTokenAmount(value, decimals, options) ==
  LET text  == FormatUnits(value, decimals)
      shown == First(IF options.trim THEN text.frac ELSE PadEnd(text.frac, decimals),
                     options.max)
      kept  == PadEnd(IF options.trim THEN WithoutTrailingZeros(shown) ELSE shown,
                      options.min)
      zeros == PadEnd(<<>>, IF options.trim THEN options.min
                            ELSE Least(options.max, decimals))
  IN [text EXCEPT !.frac = IF text.frac = <<>> THEN zeros ELSE kept]

(***************************************************************************)
(* provider/utils.ts: from a unit to one whose exponent is smaller by diff.*)
(***************************************************************************)
ConvertDenomAmount(text, diff) ==
  IF diff = 0 THEN <<text>>
  ELSE IF diff > 0 THEN LET n == ParseUnits(text, diff)
                        IN <<FormatUnits(n[1], 0)>>
  ELSE LET n == ParseUnits(text, 0)
       IN IF n = Throws THEN Throws ELSE <<FormatUnits(n[1], -diff)>>

-----------------------------------------------------------------------------
(***************************************************************************)
(* core/coin.ts: lists of coins [denom, amount].                           *)
(***************************************************************************)
\* Coin.format(): "/" and "%" of BigInts round towards zero, so that the
\* remainder of a negative amount keeps its sign; with it, the fraction is no
\* sequence of digits, and the text not a number (signInside).
FormatCoin(amount, decimals) ==
  LET divisor == 10 ^ decimals
      rest    == Magnitude(amount) % divisor
  IN [neg        |-> amount <= -divisor,
      int        |-> Digits(Magnitude(amount) \div divisor),
      frac       |-> WithoutTrailingZeros(
                       IF rest = 0 THEN <<>> ELSE PadStart(Digits(rest), decimals)),
      signInside |-> amount < 0 /\ rest # 0]

\* A Coin from an amount: [digits] of a text, [bigint], [number], or what is no safe integer,
\* be it [unsafe] or a [fraction].
NewCoin(denom, given) ==
  IF DOMAIN given \subseteq {"digits", "bigint", "number"}
  THEN <<[denom |-> denom, amount |-> given[CHOOSE kind \in DOMAIN given : TRUE]]>>
  ELSE Throws

\* Coin.add(), sub() and mul(), of a step [call, coin] or [call, by]: BigInt() takes any
\* integer as a factor.
CoinStep(coin, step) ==
  CASE step.call = "mul" ->
         IF "fraction" \in DOMAIN step.by THEN Throws
         ELSE <<[coin EXCEPT !.amount = @ * step.by[CHOOSE kind \in DOMAIN step.by : TRUE]]>>
    [] step.call # "mul" /\ step.coin.denom # coin.denom -> Throws
    [] OTHER -> <<[coin EXCEPT !.amount = IF step.call = "add" THEN @ + step.coin.amount
                                          ELSE @ - step.coin.amount]>>

CoinSteps(coin, steps) ==
  FoldLeft(LAMBDA c, step : IF c = Throws THEN Throws ELSE CoinStep(c[1], step), coin, steps)

CompareCoins(a, b) ==
  IF a.denom # b.denom THEN Throws
  ELSE <<[eq |-> a.amount = b.amount, gt |-> a.amount > b.amount, gte |-> a.amount >= b.amount,
          lt |-> a.amount < b.amount, lte |-> a.amount <= b.amount]>>

\* parseCoin(), of characters [digit], [letter] or [mark].
ParseCoin(chars) ==
  LET Is(kind, i) == kind \in DOMAIN chars[i]
      end == CHOOSE n \in 0 .. Len(chars) : /\ \A i \in 1 .. n : Is("digit", i)
                                          /\ (n = Len(chars) \/ ~Is("digit", n + 1))
  IN IF /\ end > 0 /\ end < Len(chars) /\ Is("letter", end + 1)
        /\ \A i \in end + 1 .. Len(chars) : Is("mark", i) => chars[i].mark = "/"
     THEN NewCoin(SubSeq(chars, end + 1, Len(chars)), [digits |-> Number([i \in 1 .. end |-> chars[i].digit])])
     ELSE Throws

\* Coin.sum()
TotalOf(coins, denom) ==
  FoldLeft(LAMBDA total, c : IF c.denom = denom THEN total + c.amount ELSE total,
           0, coins)

DenomsOf(coins) == {coins[i].denom : i \in DOMAIN coins}

\* Coin.merge(): a Map keeps the order in which its keys came.
Merge(coins) ==
  LET first == {i \in DOMAIN coins :
                  \A j \in 1 .. (i - 1) : coins[j].denom # coins[i].denom}
  IN [k \in 1 .. Cardinality(first) |->
        LET i == CHOOSE i \in first : Cardinality({j \in first : j <= i}) = k
        IN [denom |-> coins[i].denom, amount |-> TotalOf(coins, coins[i].denom)]]

FeeOf(fee, denom) == TotalOf(fee, denom)

\* Coin.subtract(): the whole fee of a denom is taken from every entry of that
\* denom; a denom the coins do not have is not looked at.
Subtract(coins, fee) ==
  IF \E i \in DOMAIN coins : coins[i].amount < FeeOf(fee, coins[i].denom)
       /\ coins[i].denom \in DenomsOf(fee)
  THEN Throws
  ELSE <<[i \in DOMAIN coins |->
            [coins[i] EXCEPT !.amount = @ - FeeOf(fee, coins[i].denom)]]>>

-----------------------------------------------------------------------------
(***************************************************************************)
(* contracts/move/bcs.ts, decimal128 and decimal256: numbers with scale    *)
(* decimals (18 in the code), unsigned.  "-0" is zero as a BigInt, so that *)
(* the sign of a text between -1 and 0 is lost.                            *)
(***************************************************************************)
DecimalInput(text, scale) ==
  LET whole == IF text.neg THEN -Number(text.int) ELSE Number(text.int)
      n     == whole * 10 ^ scale + Number(PadEnd(First(text.frac, scale), scale))
  IN IF n < 0 THEN Throws ELSE <<n>>

DecimalOutput(n, scale) ==
  LET rest == n % 10 ^ scale
  IN [neg  |-> FALSE,
      int  |-> Digits(n \div 10 ^ scale),
      frac |-> WithoutTrailingZeros(
                 IF rest = 0 THEN <<>> ELSE PadStart(Digits(rest), scale))]

-----------------------------------------------------------------------------
(***************************************************************************)
(* client/gas.ts: a float is the fraction num / den; precision is          *)
(* PRECISION, one million in the code.                                     *)
(***************************************************************************)
CeilDiv(n, d) == (n + d - 1) \div d

ScaledMultiplier(num, den, precision) == CeilDiv(num * precision, den)

MulBigIntByFloat(value, num, den, precision) ==
  CeilDiv(value * ScaledMultiplier(num, den, precision), precision)

GasLimit(used, multiplier, precision) ==
  MulBigIntByFloat(used, multiplier.num, multiplier.den, precision)

CalculateFee(limit, price, precision) ==
  MulBigIntByFloat(limit, price.num, price.den, precision)

-----------------------------------------------------------------------------
(***************************************************************************)
(* The forms of an address: util/address.ts, util/hex.ts and the address   *)
(* codec of contracts/move/bcs.ts.                                         *)
(*                                                                         *)
(* A hex text is the sequence of its digits; a bech32 text is a record     *)
(* [prefix, digits], digits being the hex digits of the bytes it encodes.  *)
(* The checksum is left out: a text that does not decode is not built.     *)
(***************************************************************************)
ShortDigits == 40      \* an account: 20 bytes
LongDigits == 64       \* a Move object or module: 32 bytes

ZerosBefore(digits, width) ==
  [i \in 1 .. (width - Len(digits)) |-> 0] \o digits

\* The replacement of /^0x0*|^0+/ by nothing.
StripLeadingZeros(digits) ==
  LET significant == {i \in DOMAIN digits : digits[i] # 0}
  IN IF significant = {} THEN <<>>
     ELSE SubSeq(digits, CHOOSE i \in significant : \A j \in significant : i <= j,
                 Len(digits))

(***************************************************************************)
(* util/address.ts                                                         *)
(***************************************************************************)
\* A plausible mistake: the zeros are kept, so that the length of the text
\* decides between the two widths.
FromHexAsWritten(digits, prefix) ==
  LET width == IF Len(digits) <= ShortDigits THEN ShortDigits ELSE LongDigits
  IN <<[prefix |-> prefix, digits |-> ZerosBefore(StripLeadingZeros(digits), width)]>>

\* AccAddress.fromHex(): <<>> if hexToBytes() refuses an odd number of digits.
FromHex(digits, prefix) ==
  LET hex    == StripLeadingZeros(digits)
      padded == ZerosBefore(hex, IF Len(hex) <= ShortDigits THEN ShortDigits
                                 ELSE LongDigits)
  IN IF Len(padded) % 2 = 1 THEN <<>>
     ELSE <<[prefix |-> prefix, digits |-> padded]>>

\* AccAddress.toHex()
ToHex(address) == address.digits

\* The characters of a bech32 text: prefix, "1", five bits each, checksum.
TextLength(address, prefixLength) ==
  prefixLength + 1 + (4 * Len(address.digits) + 4) \div 5 + 6

CheckPrefixAndLength(prefix, prefixLength, address, length) ==
  address.prefix = prefix /\ TextLength(address, prefixLength) = length

ValidAcc(address) ==
  \E length \in {43, 63} : CheckPrefixAndLength("init", 4, address, length)

ValidVal(address) == CheckPrefixAndLength("initvaloper", 11, address, 50)

ValFromAcc(address) == [address EXCEPT !.prefix = "initvaloper"]

AccFromVal(address) == [address EXCEPT !.prefix = "init"]

(***************************************************************************)
(* contracts/move/bcs.ts: the 32 bytes of an address argument, given as hex*)
(* or as bech32.  What is longer is cut.                                   *)
(***************************************************************************)
AddressBytes(digits) == SubSeq(ZerosBefore(digits, LongDigits), 1, LongDigits)

HexArgument(digits) == AddressBytes(digits)

Bech32Argument(address) == AddressBytes(ToHex(address))
=============================================================================
