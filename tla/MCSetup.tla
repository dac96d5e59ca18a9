------------------------------- MODULE MCSetup -------------------------------
(* The time modes a reference station may be given. *)
EXTENDS ReceiverSetup

AllSkips == {"load", "io", "usb", "sbas", "datum", "bbr", "nmea"}

Survey(reset, skips, extraSignals) ==
  [tmode3 |-> "survey_in", reset |-> reset, skips |-> skips, extraSignals |-> extraSignals]

\* Every time mode; one of them with every step, one with QZSS signals to spare.
EveryMode ==
  [tmode3 : {"disabled", "fixed", "survey_in"}, reset : BOOLEAN, skips : {AllSkips},
   extraSignals : {FALSE}]
    \union {Survey(FALSE, {}, FALSE), Survey(FALSE, AllSkips, TRUE)}

DefaultSurvey == {Survey(TRUE, AllSkips, FALSE)}

SpareSignals == {Survey(FALSE, AllSkips, TRUE)}

=============================================================================
