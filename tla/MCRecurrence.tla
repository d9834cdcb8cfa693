----------------------------- MODULE MCRecurrence -----------------------------
(* A small instance of Recurrence: series that start on the last day of a  *)
(* long month and on a leap day, where the clamping of dates bites.        *)
EXTENDS Recurrence

RecurrenceFirstDues == {<<2024 * 12, 31>>, <<2024 * 12 + 1, 29>>}

=============================================================================
