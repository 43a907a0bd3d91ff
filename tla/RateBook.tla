------------------------------ MODULE RateBook ------------------------------
(***************************************************************************)
(* The live bridge rate: one history of price samples for each chain, fed  *)
(* by a poller, read by every place that prices a deposit.                 *)
(*                                                                         *)
(* A rail answers with the time-weighted price of the window that ends now *)
(* and of the one before it, or refuses: no sample, a newest sample too    *)
(* old, or a hole in what the two windows need.  A deposit that cannot be  *)
(* priced, or whose rate moved past the band, is parked.                   *)
(***************************************************************************)
EXTENDS Amounts, FiniteSets

CONSTANTS
    Rails,          \* the chains, each a rail
    Prices,         \* what a feed may print
    Lags,           \* how far behind the clock a feed's own timestamp may be
    Window,         \* price_window_secs
    Staleness,      \* price_staleness_secs
    Band,           \* rate_band_bps
    MaxSamples,     \* MAX_SAMPLES
    FeeBps, Scale,  \* of the route
    Grosses,        \* deposits asked about
    MaxClock        \* bound on the clock

VARIABLES
    clock,
    history,        \* the samples each rail holds
    printed,        \* every sample a rail ever took, for the properties
    capped          \* whether a rail ever dropped a sample for its size

vars == <<clock, history, printed, capped>>

-----------------------------------------------------------------------------
(* PriceHistory *)

\* push: the feed's own time must move on
Accepts(samples, s) == samples = <<>> \/ s.feed > Last(samples).feed
Pushed(samples, s) ==
    Append(IF Len(samples) >= MaxSamples THEN Tail(samples) ELSE samples, s)

\* prune keeps the last sample at or before the horizon, whose price still
\* runs past it
Pruned(samples, horizon) ==
    LET older == {i \in DOMAIN samples : samples[i].feed <= horizon}
    IN  IF older = {} THEN samples
        ELSE SubSeq(samples, CHOOSE i \in older : \A j \in older : j <= i, Len(samples))

RetentionHorizon_OneWindow(at) == at - Window - Staleness
\* retention_horizon: both windows, and the step before them
RetentionHorizon(at) == at - 2 * Window - Staleness

\* gap_free_from: back from the newest while no step is longer than the
\* staleness bound
GapFreeFrom(samples) ==
    LET holes == {i \in 1..(Len(samples) - 1) :
                    samples[i + 1].feed - samples[i].feed > Staleness}
    IN  IF holes = {} THEN samples[1].feed
        ELSE samples[(CHOOSE i \in holes : \A j \in holes : j <= i) + 1].feed

Larger(a, b) == IF a > b THEN a ELSE b
Smaller(a, b) == IF a < b THEN a ELSE b

\* twap: each price weighs the part of the window it was the newest in
Twap(samples, end, now) ==
    LET start == end - Window
        Until(i) == IF i = Len(samples) THEN end ELSE Smaller(samples[i + 1].feed, end)
        Weight(i) == Larger(0, Until(i) - Larger(samples[i].feed, start))
        Without(why) == [status |-> why, price |-> 0]
    IN  IF samples = <<>> THEN Without("empty")
        ELSE IF now - Last(samples).feed > Staleness THEN Without("stale")
        ELSE IF GapFreeFrom(samples) > start THEN Without("warming_up")
        ELSE [status |-> "ok",
              price |-> FoldLeft(LAMBDA acc, i : acc + samples[i].price * Weight(i), 0,
                                 [i \in DOMAIN samples |-> i]) \div Window]

-----------------------------------------------------------------------------
(* LiveBook *)

\* rail_prices: both windows or a refusal, the worse reason first
RailPrices(samples, now) ==
    LET current == Twap(samples, now, now)
        reference == Twap(samples, now - Window, now)
        both == {current.status, reference.status}
    IN  [now |-> current.price, before |-> reference.price,
         status |-> CASE both = {"ok"} -> "ok"
                      [] "empty" \in both -> "empty"
                      [] "stale" \in both -> "stale"
                      [] OTHER -> "warming_up"]
Priced(rail) == rail.status = "ok"

\* movement_bps: of the rate against the rate of the window before, by
\* cross-multiplication, against the earlier rate
MovementBps(src, dst) ==
    LET lhs == src.now * dst.before
        rhs == src.before * dst.now
        diff == IF lhs >= rhs THEN lhs - rhs ELSE rhs - lhs
    IN  (diff * BpsDenominator) \div rhs

\* route_rate and RateBook::quote, then price_final_deposit: a refusal and a
\* breach both park, only the breach keeps its quote.  An amount the
\* arithmetic refuses is neither: the fold fails, and the tick with it.
Unconvertible == [quote |-> NoQuote, net |-> Refused, park |-> "conversion_error"]

PriceFinalDeposit(source, destination, gross, now) ==
    LET src == RailPrices(history[source], now)
        dst == RailPrices(history[destination], now)
        q == QuotedBreakdown(gross, src.now, dst.now, FeeBps, Scale)
        recorded == NetAt(gross, FeeBps)
    IN  CASE Priced(src) /\ Priced(dst) /\ q # NoQuote ->
                [quote |-> q, net |-> q.net,
                 park |-> IF MovementBps(src, dst) > Band THEN "band_exceeded" ELSE "none"]
          [] ~(Priced(src) /\ Priced(dst)) /\ Ok(recorded) ->
                [quote |-> NoQuote, net |-> recorded,
                 park |-> IF Priced(src) THEN dst.status ELSE src.status]
          [] OTHER -> Unconvertible

-----------------------------------------------------------------------------
(* The poller *)

Init ==
    /\ clock = 0
    /\ history = [r \in Rails |-> <<>>]
    /\ printed = [r \in Rails |-> <<>>]
    /\ capped = [r \in Rails |-> FALSE]

\* poll_one with an answer: record_sample pushes and prunes, whether or not
\* the push was kept.
RecordSample(r, price, lag) ==
    LET s == [feed |-> clock - lag, observed |-> clock, price |-> price]
        pushed == IF Accepts(history[r], s) THEN Pushed(history[r], s) ELSE history[r]
    IN  /\ history' = [history EXCEPT ![r] = Pruned(pushed, RetentionHorizon(clock))]
        /\ printed' = [printed EXCEPT ![r] = IF Accepts(@, s) THEN Append(@, s) ELSE @]
        /\ capped' = [capped EXCEPT ![r] =
               @ \/ (Accepts(history[r], s) /\ Len(history[r]) >= MaxSamples)]
        /\ UNCHANGED clock

\* Time passes.  A poll that fails leaves the history as it was
\* (record_failure keeps only the message), so it is a tick without a sample.
Tick ==
    /\ clock < MaxClock
    /\ clock' = clock + 1
    /\ UNCHANGED <<history, printed, capped>>

Next ==
    \/ \E r \in Rails, price \in Prices, lag \in Lags : RecordSample(r, price, lag)
    \/ Tick

Spec == Init /\ [][Next]_vars

-----------------------------------------------------------------------------
(* Properties *)

\* What the book forgets never changes a price: a rail that answers answers
\* with what every sample ever taken would give, and one that never
\* overflowed answers whenever all of them together would.
ForgettingIsInvisible ==
    \A r \in Rails :
        LET kept == RailPrices(history[r], clock)
            all == RailPrices(printed[r], clock)
        IN  /\ Priced(kept) => kept = all
            /\ ~capped[r] => kept.status = all.status

\* A deposit is settled without a look only at a rate both of whose rails
\* were priced by a sample in every stretch of Staleness over the last two
\* windows, and that moved by no more than the band between them.
SettlesAtAFairRate ==
    \A source, destination \in Rails, gross \in Grosses :
        LET p == PriceFinalDeposit(source, destination, gross, clock)
            Covered(r) == \A t \in (clock - 2 * Window)..clock :
                \E i \in DOMAIN printed[r] : printed[r][i].feed \in (t - Staleness)..t
            src == RailPrices(printed[source], clock)
            dst == RailPrices(printed[destination], clock)
        IN  p.park = "none" =>
                /\ Covered(source) /\ Covered(destination)
                /\ LET moved == src.now * dst.before - src.before * dst.now
                       base == src.before * dst.now
                   IN  /\ moved * BpsDenominator < (Band + 1) * base
                       /\ -moved * BpsDenominator < (Band + 1) * base
                /\ p.quote # NoQuote /\ p.net <= p.quote.gross

RateBookSound == ForgettingIsInvisible /\ SettlesAtAFairRate

==============================================================================
