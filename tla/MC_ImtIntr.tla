----------------------------- MODULE MC_ImtIntr -----------------------------
(***************************************************************************)
(* A small instance of ImtIntr for TLC: two physical contacts per report,  *)
(* two evdev slots, three contact ids (so that slot overflow happens) and  *)
(* Contact Count values up to three (so that a frame spans two reports).   *)
(***************************************************************************)
EXTENDS ImtIntr

\* A touchscreen with a confidence usage and no in-range usage.
MCCaps == {WMT_TIP_SWITCH, WMT_X, WMT_Y, WMT_CONTACTID, WMT_CONFIDENCE}

\* A touchscreen with an in-range usage.
MCCapsRange == {WMT_TIP_SWITCH, WMT_X, WMT_Y, WMT_CONTACTID, WMT_IN_RANGE}

\* Every physical contact collection carries every channel of the profile.
MCLocs == [c \in 0 .. 1 |-> Usages]
=============================================================================
