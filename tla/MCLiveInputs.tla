---------------------------- MODULE MCLiveInputs ----------------------------
(* An instance of LiveInputs for TLC. *)
EXTENDS LiveInputs

\* Not positive, with and without a fraction, the last Date and beyond it.
MCNumbers == {0, 1, 3, 4, 5}

\* An arrival may be shortened to a time before the epoch, and below Earliest.
MCEarliest == -2

=============================================================================
