---------------------------- MODULE MCSelfdrived ----------------------------
(* Selfdrived on two pandas, one of them configured, with short timers.    *)
EXTENDS Selfdrived

CONSTANTS p1, p2

mcPandas == {p1, p2}
mcConfigured == {p1}

Quiet == [canValid |-> TRUE, cruiseEnabled |-> TRUE, buttonEnable |-> FALSE,
          cancel |-> FALSE, brakePressed |-> FALSE, standstill |-> FALSE,
          gasPressed |-> FALSE, doorOpen |-> FALSE]

\* Driving, cruise off, every pedal, a door, and bad CAN with the cruise lost and with a
\* pressed brake.
CarInputs ==
  {Quiet,
   [Quiet EXCEPT !.cruiseEnabled = FALSE],
   [Quiet EXCEPT !.brakePressed = TRUE, !.standstill = TRUE],
   [Quiet EXCEPT !.brakePressed = TRUE, !.standstill = TRUE, !.cruiseEnabled = FALSE],
   [Quiet EXCEPT !.brakePressed = TRUE],
   [Quiet EXCEPT !.gasPressed = TRUE],
   [Quiet EXCEPT !.doorOpen = TRUE],
   [Quiet EXCEPT !.canValid = FALSE, !.cruiseEnabled = FALSE],
   [Quiet EXCEPT !.canValid = FALSE, !.brakePressed = TRUE, !.standstill = TRUE]}

mcCarStates ==
  CarInputs \cup
  {[Quiet EXCEPT !.buttonEnable = TRUE],
   [Quiet EXCEPT !.buttonEnable = TRUE, !.cruiseEnabled = FALSE],
   [Quiet EXCEPT !.buttonEnable = TRUE, !.brakePressed = TRUE, !.standstill = TRUE],
   [Quiet EXCEPT !.buttonEnable = TRUE, !.gasPressed = TRUE],
   [Quiet EXCEPT !.buttonEnable = TRUE, !.cancel = TRUE]}

Agree == [safetyModel |-> "car", controlsAllowed |-> TRUE, safetyRxChecksInvalid |-> FALSE]
Spare == [safetyModel |-> "noOutput", controlsAllowed |-> FALSE, safetyRxChecksInvalid |-> FALSE]
View(ps, checks, down, exc) ==
  [pandaStates |-> [p \in mcPandas |-> IF p = p1 THEN ps ELSE Spare],
   allChecks |-> checks, notRunning |-> down, excessive |-> exc]

\* All well, each failure alone, and a dead process that also fails the checks.
mcSubMasters ==
  {View(Agree, TRUE, FALSE, FALSE), View(Agree, FALSE, FALSE, FALSE),
   View(Agree, FALSE, TRUE, FALSE), View(Agree, TRUE, FALSE, TRUE),
   View([Agree EXCEPT !.controlsAllowed = FALSE], TRUE, FALSE, FALSE),
   View([Agree EXCEPT !.safetyModel = "noOutput"], TRUE, FALSE, FALSE)}

=============================================================================
