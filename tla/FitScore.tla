------------------------------- MODULE FitScore -------------------------------
(***************************************************************************)
(* domain/services/fit_score.py in integers.  A fit is a number of 60ths,  *)
(* which every fit is for metrics in whole per cent and pbr in tenths; a   *)
(* rounded one, and the score, a number of 100 000ths (round(x, 5)).       *)
(***************************************************************************)
EXTENDS Integers

Whole == 60
Half == 30
Unit == 100000

RiskLevels == {"conservative", "moderate", "aggressive"}
Fits == {"valuation_fit", "profitability_fit", "volatility_fit"}

Metrics == [per : Int, pbr : Int, roe : Int, vol : Nat]

\* Wrong form: nothing is held at zero.
ClampAbove(x) == IF x > Whole THEN Whole ELSE x

Clamp(x) == IF x < 0 THEN 0 ELSE IF x > Whole THEN Whole ELSE x
Rounded(x, d) == (2 * x + d) \div (2 * d)

Low(risk) == CASE risk = "conservative" -> 0 [] risk = "moderate" -> 10 [] OTHER -> 20
High(risk) == CASE risk = "conservative" -> 15 [] risk = "moderate" -> 30 [] OTHER -> 100

\* In 60ths: 0.3 for a loss, else the mean of 1 - (per - 10) / 30 and
\* 1 - (pbr - 1) / 3, each clamped.
ValuationFit(m) ==
    IF m.per <= 0 \/ m.pbr <= 0
    THEN 18
    ELSE (Clamp(80 - 2 * m.per) + Clamp(80 - 2 * m.pbr)) \div 2

ProfitabilityFit(m) == Clamp(4 * m.roe)

\* How far the volatility is outside of the band of the risk level.
Distance(m, risk) ==
    IF m.vol < Low(risk) THEN Low(risk) - m.vol
    ELSE IF m.vol > High(risk) THEN m.vol - High(risk)
    ELSE 0

VolatilityFit(m, risk) == Clamp(Whole - 3 * Distance(m, risk))

\* 0.35, 0.30 and 0.35, each a number of 20ths; the valuation is rounded first.
Score(m, risk) ==
    Rounded(7 * Whole * Rounded(Unit * ValuationFit(m), Whole)
            + 6 * Unit * ProfitabilityFit(m)
            + 7 * Unit * VolatilityFit(m, risk),
            20 * Whole)

\* Wrong form: an axis is named only below 0.3.
TagsBelowThreeTenths(m, risk) ==
    {f \in Fits : CASE f = "valuation_fit" -> ValuationFit(m) < 18
                    [] f = "profitability_fit" -> ProfitabilityFit(m) < 18
                    [] OTHER -> VolatilityFit(m, risk) < 18}

ImprovementTags(m, risk) ==
    {f \in Fits : CASE f = "valuation_fit" -> ValuationFit(m) < Half
                    [] f = "profitability_fit" -> ProfitabilityFit(m) < Half
                    [] OTHER -> VolatilityFit(m, risk) < Half}

\* m is on no axis worse than n.  A loss is no ratio to compare: it scores
\* more than a very high one and less than a low one.
NoWorse(m, n, risk) ==
    /\ m.per > 0 /\ m.pbr > 0 /\ n.per > 0 /\ n.pbr > 0
    /\ m.per <= n.per
    /\ m.pbr <= n.pbr
    /\ m.roe >= n.roe
    /\ Distance(m, risk) <= Distance(n, risk)
=============================================================================
