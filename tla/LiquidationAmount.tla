-------------------------- MODULE LiquidationAmount --------------------------
(* How much of a debt the liquidator bots repay, and what they expect to earn: *)
(* utils/liquidator-bot/shared/utils.ts and utils/maths/PercentMath.ts.        *)
(* Health factors and percentages are integers in hundredths of a percent, a   *)
(* unit is the 10^decimals of a token.                                         *)
EXTENDS Naturals

BASE_PERCENT == 10000

percentMul(x, pct) == (x * pct + BASE_PERCENT \div 2) \div BASE_PERCENT

percentDiv(x, pct) ==
  IF pct = 0 THEN 0 ELSE (x * BASE_PERCENT + pct \div 2) \div pct

valueInUSD(amount, price, unit) == (amount * price) \div unit

(* Half of the debt, all of it once the health factor is under the close       *)
(* factor's threshold.                                                         *)
closeFactorAmount(debt, healthFactor, closeFactorHFThreshold) ==
  IF healthFactor < closeFactorHFThreshold THEN debt ELSE debt \div 2

getMaxLiquidationAmountCalculation(collateral, debt, bonus, healthFactor, threshold) ==
  LET wanted == closeFactorAmount(debt.amount, healthFactor, threshold)
      collateralInUSD ==
        valueInUSD(collateral.amount, collateral.price, collateral.unit)
      wantedInUSD == valueInUSD(wanted, debt.price, debt.unit)
  IN  IF healthFactor >= BASE_PERCENT THEN 0
      ELSE IF percentMul(wantedInUSD, bonus) > collateralInUSD
      THEN (percentDiv(collateralInUSD, bonus) * debt.unit) \div debt.price
      ELSE wanted

(* The bonus is the one of the token that was borrowed, not of the collateral  *)
(* that is seized.                                                             *)
getLiquidationProfitInUSD(debtToken, liquidateAmount) ==
  percentMul(debtToken.price * liquidateAmount, debtToken.liquidationBonus - BASE_PERCENT)
    \div debtToken.unit
=============================================================================
