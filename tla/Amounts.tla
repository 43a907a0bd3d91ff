------------------------------- MODULE Amounts -------------------------------
(***************************************************************************)
(* Amounts of the bridge: conversions between the three precisions, the    *)
(* fee, the quote that prices a deposit on another chain's rail, the       *)
(* limits a user is told, and the wide arithmetic prices are derived with. *)
(*                                                                         *)
(* Every function either returns a number or refuses: nothing is rounded   *)
(* except where the code floors, and nothing wraps.  u64 is 0..MaxU64 and  *)
(* u128 is 0..MaxU128, small but in the same proportion to what is         *)
(* multiplied; BpsDenominator is 10 000 in the code.                       *)
(***************************************************************************)
EXTENDS Integers, Sequences, SequencesExt

CONSTANTS MaxU64, MaxU128, BpsDenominator

\* Err(ConversionError::...) and its relatives
Refused == -1
Ok(r) == r # Refused
U64(n) == IF n > MaxU64 THEN Refused ELSE n
U128(n) == IF n > MaxU128 THEN Refused ELSE n

-----------------------------------------------------------------------------
(* Precisions: amount_conversion.rs, amount_conversion/robinhood.rs *)

\* Widening multiplies; narrowing divides and refuses a remainder.
ConvertAtomicAmount(amount, from, to) ==
    IF from <= to THEN U64(amount * 10 ^ (to - from))
    ELSE IF amount % 10 ^ (from - to) = 0 THEN amount \div 10 ^ (from - to)
    ELSE Refused

\* RobinhoodAtomic::from_canonical, to_canonical and to_canonical_floor:
\* the wide side is a u128.
ToRobinhood(canonical, scale) == U128(canonical * scale)
FromRobinhood(robinhood, scale) ==
    IF robinhood % scale # 0 THEN Refused ELSE U64(robinhood \div scale)
FloorFromRobinhood(robinhood, scale) ==
    [canonical |-> FromRobinhood(robinhood - (robinhood % scale), scale),
     remainder |-> robinhood % scale]

-----------------------------------------------------------------------------
(* The fee *)

\* compute_fee_at_bps, the net of it: the product must fit a u64 and the
\* fee is floored.
FeeAt(gross, bps) ==
    IF bps > BpsDenominator \/ gross * bps > MaxU64 THEN Refused
    ELSE (gross * bps) \div BpsDenominator
NetAt(gross, bps) == IF Ok(FeeAt(gross, bps)) THEN gross - FeeAt(gross, bps) ELSE Refused

\* verify_fee_breakdown
FeeVerified(gross, bps, fee, net) ==
    /\ Ok(FeeAt(gross, bps))
    /\ fee = FeeAt(gross, bps) /\ net = NetAt(gross, bps)

\* max_gross_for_net_at_bps starts from a division and walks, first down
\* while the net is too large (an overflow on the way is an error), then up
\* while the next still fits (an overflow ends the walk).
MaxGrossForNet(maxNet, bps) ==
    LET estimate == U64((maxNet * BpsDenominator) \div (BpsDenominator - bps))
        Down[g \in 0..MaxU64] ==
            IF g = 0 THEN 0
            ELSE IF ~Ok(NetAt(g, bps)) THEN Refused
            ELSE IF NetAt(g, bps) > maxNet THEN Down[g - 1] ELSE g
        Up[g \in 0..MaxU64] ==
            IF g < MaxU64 /\ Ok(NetAt(g + 1, bps)) /\ NetAt(g + 1, bps) <= maxNet
            THEN Up[g + 1] ELSE g
    IN  IF bps > BpsDenominator THEN Refused
        ELSE IF maxNet = 0 \/ bps = BpsDenominator THEN 0
        ELSE IF ~Ok(estimate) \/ ~Ok(Down[estimate]) THEN Refused
        ELSE Up[Down[estimate]]

-----------------------------------------------------------------------------
(* Quotes: bridge_rate.rs *)

\* gross_out_at_rate: the product is a u128 and always fits
GrossOutAtRate(gross, source, destination) ==
    IF source = 0 \/ destination = 0 THEN Refused
    ELSE U64((gross * source) \div destination)

NoQuote == [gross |-> Refused, fee |-> Refused, net |-> Refused, dust |-> Refused]

\* quoted_breakdown: what the rate makes of the deposit, less the fee, less
\* what the destination's precision cannot hold
QuotedBreakdown(gross, source, destination, bps, scale) ==
    LET out == GrossOutAtRate(gross, source, destination)
    IN  IF scale = 0 \/ ~Ok(out) \/ ~Ok(FeeAt(out, bps)) THEN NoQuote
        ELSE [gross |-> out, fee |-> FeeAt(out, bps),
              net |-> NetAt(out, bps) - (NetAt(out, bps) % scale),
              dust |-> NetAt(out, bps) % scale]

\* destination_scale_for_decimals
DestinationScale(decimals, canonical) ==
    IF decimals >= canonical THEN 1 ELSE 10 ^ (canonical - decimals)

\* verify_request_amounts: a row without a quote is held against the fee
\* rule, one with a quote against its own locked prices, never live ones.
RequestAmountsVerified(row, scale) ==
    IF ~row.quoted THEN FeeVerified(row.gross, row.bps, row.fee, row.net)
    ELSE /\ row.locked
         /\ LET q == QuotedBreakdown(row.gross, row.source, row.destination, row.bps, scale)
            IN  q # NoQuote /\ row.out = q.gross /\ row.fee = q.fee /\ row.net = q.net

\* expected_net_for_gross
ExpectedNet(row, gross, scale) ==
    IF ~row.quoted THEN NetAt(gross, row.bps)
    ELSE QuotedBreakdown(gross, row.source, row.destination, row.bps, scale).net

\* buffered_destination_limit
BufferedLimit(limit, buffer) ==
    (limit * (IF buffer > BpsDenominator THEN 0 ELSE BpsDenominator - buffer)) \div BpsDenominator

\* max_source_for_destination_limit: a binary search over all of u64, which
\* is only right because what fits is a prefix
MaxSourceForLimit(limit, source, destination, bps, scale, buffer) ==
    LET buffered == BufferedLimit(limit, buffer)
        Fits(g) == LET q == QuotedBreakdown(g, source, destination, bps, scale)
                   IN  q # NoQuote /\ q.net <= buffered
        Search[w \in (0..MaxU64) \X (0..MaxU64)] ==
            LET mid == w[1] + (w[2] - w[1]) \div 2
            IN  IF w[2] - w[1] <= 1 THEN w[1]
                ELSE IF Fits(mid) THEN Search[<<mid, w[2]>>] ELSE Search[<<w[1], mid>>]
    IN  CASE scale = 0 \/ bps > BpsDenominator \/ source = 0 \/ destination = 0 -> Refused
          [] buffered < scale \/ bps = BpsDenominator -> 0
          [] Fits(MaxU64) -> MaxU64
          [] OTHER -> Search[<<0, MaxU64>>]

-----------------------------------------------------------------------------
(* Limits on what is sent: min_transfer.rs *)

\* source_minimum, source_maximum and the two enforce_ functions: the same
\* figures whatever the route, but for a deposit made on Robinhood
SourceLimitsHold(policy, route, gross) ==
    /\ gross >= policy.minimum
    /\ gross <= IF route.source = "robinhood" THEN policy.maximumRobinhood ELSE policy.maximum

\* required_destination_floor and DestinationFloorCheck::is_satisfied
RequiredDestinationFloor(policy, bps) == NetAt(policy.minimum, bps)
FloorSatisfied(policy, bps, chainFloor) ==
    /\ Ok(RequiredDestinationFloor(policy, bps))
    /\ chainFloor <= RequiredDestinationFloor(policy, bps)

-----------------------------------------------------------------------------
(* Wide arithmetic: bridge_rate/bigmath.rs.  Limb is 2^64 in the code, so   *)
(* that a word of two limbs is a u128 and a double word is a U256.          *)

\* U256::mul_u128, the schoolbook product with its carries
MulWide(a, b, limb) ==
    LET ll == (a % limb) * (b % limb)
        lh == (a % limb) * (b \div limb)
        hl == (a \div limb) * (b % limb)
        hh == (a \div limb) * (b \div limb)
        mid == ll \div limb + (lh % limb) + (hl % limb)
    IN  [hi |-> hh + lh \div limb + hl \div limb + mid \div limb,
         lo |-> (mid % limb) * limb + (ll % limb)]

Bit(w, i, bits) == IF i >= bits THEN (w.hi \div 2 ^ (i - bits)) % 2 ELSE (w.lo \div 2 ^ i) % 2

DivWide_LosesCarry(w, divisor, bits) ==
    LET Step[i \in -1..(2 * bits - 1)] ==
          IF i = 2 * bits - 1 THEN [rem |-> 0, quo |-> 0, ok |-> TRUE]
          ELSE LET s == Step[i + 1]
                   rem == (s.rem * 2 + Bit(w, i + 1, bits)) % 2 ^ bits
               IN  IF rem < divisor THEN [s EXCEPT !.rem = rem]
                   ELSE [rem |-> rem - divisor, quo |-> s.quo + 2 ^ ((i + 1) % bits),
                         ok |-> s.ok /\ i + 1 < bits]
    IN  IF divisor = 0 \/ ~Step[-1].ok THEN Refused ELSE Step[-1].quo

\* U256::div_u128, long division bit by bit.  The remainder is a u128 that
\* may lose its top bit in the shift: the carry says so, and the wrapping
\* subtraction is then exact.  A quotient bit above the low word refuses.
DivWide(w, divisor, bits) ==
    LET Step[i \in -1..(2 * bits - 1)] ==
          IF i = 2 * bits - 1 THEN [rem |-> 0, quo |-> 0, ok |-> TRUE]
          ELSE LET s == Step[i + 1]
                   carry == s.rem \div 2 ^ (bits - 1)
                   rem == (s.rem * 2 + Bit(w, i + 1, bits)) % 2 ^ bits
               IN  IF carry = 0 /\ rem < divisor THEN [s EXCEPT !.rem = rem]
                   ELSE [rem |-> (rem - divisor) % 2 ^ bits,
                         quo |-> s.quo + 2 ^ ((i + 1) % bits),
                         ok |-> s.ok /\ i + 1 < bits]
    IN  IF divisor = 0 \/ ~Step[-1].ok THEN Refused ELSE Step[-1].quo

\* mul_div
MulDiv(a, b, d, bits) == DivWide(MulWide(a, b, 2 ^ (bits \div 2)), d, bits)

-----------------------------------------------------------------------------
(* Reading a price *)

\* parse_price_e12 on the digits before and after the point and an exponent:
\* leading zeros do not count as digits, more than maxDigits do not fit, and
\* what is left is shifted by the twelve decimals (decimals here) and
\* floored.  A price of nothing is refused, before and after the shift.
ParsePrice(int, frac, exponent, decimals, maxDigits) ==
    LET digits == int \o frac
        first == {i \in DOMAIN digits : digits[i] # 0}
        significant == IF first = {} THEN 0
                       ELSE Len(digits) - (CHOOSE i \in first : \A j \in first : i <= j) + 1
        value == FoldLeft(LAMBDA acc, d : acc * 10 + d, 0, digits)
        shift == exponent - Len(frac) + decimals
        scaled == IF shift >= 0 THEN value * 10 ^ shift ELSE value \div 10 ^ (-shift)
    IN  IF digits = <<>> \/ value = 0 \/ significant > maxDigits \/ scaled = 0
        THEN Refused ELSE U64(scaled)

\* glc_usd_e12_from_sqrt_price: two divisions, each floored, never the
\* square itself, then the difference of the tokens' decimals.  x96 is 2^96
\* in the code.
GlcUsdFromSqrtPrice(sqrt, eth, glcIsCurrency1, shift, x96) ==
    LET a == IF glcIsCurrency1 THEN (eth * x96) \div sqrt ELSE (eth * sqrt) \div x96
        raw == IF glcIsCurrency1 THEN (a * x96) \div sqrt ELSE (a * sqrt) \div x96
        adjusted == IF shift >= 0 THEN raw * 10 ^ shift ELSE raw \div 10 ^ (-shift)
    IN  IF sqrt = 0 \/ eth = 0 THEN Refused
        ELSE IF \/ ~Ok(U128(a)) \/ ~Ok(U128(raw)) \/ ~Ok(U128(adjusted))
                \/ adjusted = 0
        THEN Refused ELSE U64(adjusted)

-----------------------------------------------------------------------------
(* What the arithmetic must satisfy, input by input *)

\* Nothing is created or lost between two precisions: a conversion that
\* succeeds can be undone exactly, and one is refused only because the
\* amount does not fit or has digits the other side cannot hold.
ConversionIsExact(amount, from, to) ==
    LET there == ConvertAtomicAmount(amount, from, to)
    IN  IF Ok(there) THEN ConvertAtomicAmount(there, to, from) = amount
        ELSE \/ from > to /\ amount % 10 ^ (from - to) # 0
             \/ from < to /\ amount > MaxU64 \div 10 ^ (to - from)

\* A deposit on Robinhood is worth its floor and a remainder below one
\* canonical unit; what is floored can always be paid back in full.
RobinhoodIsExact(amount, scale) ==
    LET floor == FloorFromRobinhood(amount, scale)
    IN  Ok(floor.canonical) =>
            /\ ToRobinhood(floor.canonical, scale) + floor.remainder = amount
            /\ floor.remainder < scale
            /\ (floor.remainder = 0) = Ok(FromRobinhood(amount, scale))

\* Of a priced deposit every unit is accounted for, what is to be paid can
\* be paid in the destination's own precision, and settlement, which
\* recomputes it from the locked prices, finds the same figures.
QuoteAddsUp(gross, source, destination, bps, decimals, canonical) ==
    LET scale == DestinationScale(decimals, canonical)
        q == QuotedBreakdown(gross, source, destination, bps, scale)
        row == [quoted |-> TRUE, locked |-> TRUE, gross |-> gross, bps |-> bps, source |-> source,
                destination |-> destination, out |-> q.gross, fee |-> q.fee, net |-> q.net]
    IN  q # NoQuote =>
            /\ q.gross = q.fee + q.net + q.dust /\ q.dust < scale
            /\ decimals <= canonical => Ok(ConvertAtomicAmount(q.net, canonical, decimals))
            /\ RequestAmountsVerified(row, scale)
            /\ ~RequestAmountsVerified([row EXCEPT !.locked = FALSE], scale)
            /\ ExpectedNet(row, gross, scale) = q.net
            /\ source = destination /\ scale = 1 =>
                RequestAmountsVerified([row EXCEPT !.quoted = FALSE], scale)

\* The largest deposit a user is told is the largest that pays out within
\* the limit: every smaller one does and no larger one does.  It is nothing
\* at all when the limit is below the smallest amount the destination holds.
AdvertisedMaximumIsExact(limit, source, destination, bps, scale, buffer) ==
    LET top == MaxSourceForLimit(limit, source, destination, bps, scale, buffer)
        Fits(g) == LET q == QuotedBreakdown(g, source, destination, bps, scale)
                   IN  q # NoQuote /\ q.net <= BufferedLimit(limit, buffer)
    IN  Ok(top) /\ BufferedLimit(limit, buffer) >= scale /\ bps < BpsDenominator =>
            \A g \in 0..MaxU64 : Fits(g) <=> g <= top

\* The same for the fee alone; the walk gives up only where the fee of its
\* first estimate does not fit a u64.
GrossForNetIsExact(maxNet, bps) ==
    LET top == MaxGrossForNet(maxNet, bps)
    IN  /\ Ok(top) /\ maxNet > 0 /\ bps < BpsDenominator =>
            \A g \in 0..MaxU64 : (Ok(NetAt(g, bps)) /\ NetAt(g, bps) <= maxNet) <=> g <= top
        /\ ~Ok(top) => bps > BpsDenominator
                       \/ maxNet * BpsDenominator * (IF bps = 0 THEN 1 ELSE bps) > MaxU64

\* A destination floor that passes the launch gate lets every deposit the
\* source accepts be delivered.
MinimumIsDeliverable(policy, bps, chainFloor) ==
    FloorSatisfied(policy, bps, chainFloor) =>
        \A g \in policy.minimum..policy.maximum :
            Ok(NetAt(g, bps)) => NetAt(g, bps) >= chainFloor

\* The double-word product and quotient are the mathematical ones, and a
\* quotient that does not fit a word is refused rather than truncated.
MulDivIsExact(a, b, d, bits) ==
    MulDiv(a, b, d, bits) =
        IF d = 0 \/ (a * b) \div d >= 2 ^ bits THEN Refused ELSE (a * b) \div d

\* A price that is read is the number written, cut off at its last decimal.
PriceIsFloor(int, frac, exponent, decimals, maxDigits) ==
    LET p == ParsePrice(int, frac, exponent, decimals, maxDigits)
        n == FoldLeft(LAMBDA acc, d : acc * 10 + d, 0, int \o frac)
        up == IF exponent + decimals >= 0 THEN 10 ^ (exponent + decimals) ELSE 1
        down == 10 ^ Len(frac)
                * (IF exponent + decimals < 0 THEN 10 ^ (-(exponent + decimals)) ELSE 1)
    IN  Ok(p) => p > 0 /\ p * down <= n * up /\ n * up < (p + 1) * down

\* The price derived from a pool is never above the exact one and is below
\* it by less than one unit and the second division's share of one, either
\* way the pair is ordered.
PoolPriceIsClose(sqrt, eth, glcIsCurrency1, shift, x96) ==
    LET p == GlcUsdFromSqrtPrice(sqrt, eth, glcIsCurrency1, shift, x96)
        num == IF glcIsCurrency1 THEN x96 ELSE sqrt
        den == IF glcIsCurrency1 THEN sqrt ELSE x96
        up == IF shift > 0 THEN 10 ^ shift ELSE 1
        down == IF shift < 0 THEN 10 ^ (-shift) ELSE 1
    IN  Ok(p) => /\ p > 0 /\ p * down * den * den <= eth * num * num * up
                 /\ eth * num * num * up < (p + up) * down * den * den + num * den * up

==============================================================================
