----------------------------- MODULE AdcFilter -----------------------------
(***************************************************************************)
(* The potentiometer (drivers/adc.c): every period of TIM3 its routine     *)
(* takes a sample and moves an exponential mean by an eighth of it, all of *)
(* it in unsigned 16-bit arithmetic.                                       *)
(***************************************************************************)
EXTENDS Naturals

CONSTANTS
  AdcMax,         \* ADC_MAX_COUNT, 4095
  SamplePeriod,   \* ADC_TIM_PERIOD + 1, 100 counts or 10 ms
  Positions       \* the samples that the potentiometer may give

\* uint16_t
Word == 65536

ASSUME AdcAssumption ==
  /\ AdcMax \in Nat \ {0} /\ AdcMax < Word
  /\ SamplePeriod \in Nat \ {0}
  /\ Positions \subseteq 0 .. AdcMax

VARIABLES
  pot,            \* what a conversion would give
  g_adc_ema,
  tim3_counter, tim3_uif

adcVars == <<pot, g_adc_ema, tim3_counter, tim3_uif>>

\* adc_pot_init: the first sample is the first mean.
AdcInit ==
  /\ pot \in Positions
  /\ g_adc_ema = pot
  /\ tim3_counter = 0 /\ tim3_uif = FALSE

Turn(position) ==
  /\ pot' = position
  /\ UNCHANGED <<g_adc_ema, tim3_counter, tim3_uif>>

CountTim3 ==
  /\ ~tim3_uif
  /\ tim3_uif' = (tim3_counter + 1 = SamplePeriod)
  /\ tim3_counter' = (tim3_counter + 1) % SamplePeriod
  /\ UNCHANGED <<pot, g_adc_ema>>

\* tim3_isr
Mean_WrongShift(mean, sample) == (mean - mean \div 8 + sample \div 4) % Word
Mean_UnsignedDifference(mean, sample) ==
  (mean + ((sample + Word - mean) % Word) \div 8) % Word
Mean(mean, sample) == (mean - mean \div 8 + sample \div 8) % Word

Tim3 ==
  /\ tim3_uif
  /\ tim3_uif' = FALSE
  /\ g_adc_ema' = Mean(g_adc_ema, pot)
  /\ UNCHANGED <<pot, tim3_counter>>

\* adc_pot_get_speed_pct
Percent(mean) ==
  IF (mean * 100) \div AdcMax > 100 THEN 100 ELSE (mean * 100) \div AdcMax

\* No mean exceeds what a conversion can give: with 12 bits, four digits tell it.
AdcOK ==
  /\ pot \in Positions
  /\ g_adc_ema \in 0 .. AdcMax
  /\ tim3_counter \in 0 .. SamplePeriod - 1
  /\ tim3_uif \in BOOLEAN
=============================================================================
