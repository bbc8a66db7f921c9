------------------------------ MODULE Button ------------------------------
(***************************************************************************)
(* The debouncing of the button (drivers/button.c): EXTI0 restarts a       *)
(* one-shot window of TIM1 at each edge of the pin, and TIM1 takes the     *)
(* level of the pin when the window is over.  Time is counted in counts of *)
(* TIM1; the routines run within a count, since nothing masks them for as  *)
(* long as that once the scheduler runs.  TIM1's routine may be            *)
(* interrupted by EXTI0 before it reads the pin.                           *)
(***************************************************************************)
EXTENDS Naturals

CONSTANT Window   \* BUTTON_DEBOUNCE_TIM_PERIOD + 1, 200 counts or 20 ms

ASSUME ButtonAssumption == Window \in Nat \ {0}

VARIABLES
  pin,            \* the level of PB0, TRUE while the button is held
  g_pressed,
  boot,           \* how far button_init is: "off", "read", "on"
  exti,           \* EXTI0 has an edge pending
  counting, counter, uif,   \* TIM1: enabled, its count, its update flag
  taking          \* tim1_up_isr has cleared the flag and reads the pin next

tim1Vars == <<counting, counter, uif>>
buttonVars == <<pin, g_pressed, boot, exti, tim1Vars, taking>>

ButtonInit ==
  /\ pin \in BOOLEAN
  /\ g_pressed = FALSE
  /\ boot = "off"
  /\ exti = FALSE
  /\ counting = FALSE /\ counter = 0 /\ uif = FALSE
  /\ taking = FALSE

\* button_init takes the level first, and listens to edges later.
TakeLevel ==
  /\ boot = "off"
  /\ g_pressed' = pin
  /\ boot' = "read"
  /\ UNCHANGED <<pin, exti, tim1Vars, taking>>

EnableEdges ==
  /\ boot = "read"
  /\ boot' = "on"
  /\ UNCHANGED <<pin, g_pressed, exti, tim1Vars, taking>>

\* EXTI_TRIGGER_BOTH.
Triggers_Rising(level) == level
Triggers(level) == level \in BOOLEAN

\* The pin changes, by hand or in a bounce.
Edge ==
  /\ pin' = ~pin
  /\ exti' = (exti \/ (boot = "on" /\ Triggers(~pin)))
  /\ UNCHANGED <<g_pressed, boot, tim1Vars, taking>>

Restarted_GoesOn == counter
Restarted == 0

Exti0 ==
  /\ exti
  /\ exti' = FALSE
  /\ counting' = TRUE
  /\ counter' = Restarted
  /\ UNCHANGED <<pin, g_pressed, boot, uif, taking>>

\* TIM1 counts, and stops at the end of the window.
Count ==
  LET over == counting /\ counter + 1 = Window
  IN
  /\ ~exti /\ ~uif /\ ~taking
  /\ uif' = over
  /\ counting' = (counting /\ ~over)
  /\ counter' = IF counting /\ ~over THEN counter + 1 ELSE 0
  /\ UNCHANGED <<pin, g_pressed, boot, exti, taking>>

\* tim1_up_isr, of a lower priority than EXTI0.
Tim1Begin ==
  /\ uif /\ ~exti
  /\ uif' = FALSE
  /\ taking' = TRUE
  /\ UNCHANGED <<pin, g_pressed, boot, exti, counting, counter>>

Tim1Take ==
  /\ taking
  /\ g_pressed' = pin
  /\ taking' = FALSE
  /\ UNCHANGED <<pin, boot, exti, tim1Vars>>

ButtonStep == TakeLevel \/ EnableEdges \/ Exti0 \/ Tim1Begin \/ Tim1Take

ButtonOK ==
  /\ pin \in BOOLEAN /\ g_pressed \in BOOLEAN /\ exti \in BOOLEAN
  /\ boot \in {"off", "read", "on"}
  /\ counting \in BOOLEAN /\ uif \in BOOLEAN /\ taking \in BOOLEAN
  /\ counter \in 0 .. Window - 1
=============================================================================
