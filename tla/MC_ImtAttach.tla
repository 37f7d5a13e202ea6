---------------------------- MODULE MC_ImtAttach ----------------------------
(***************************************************************************)
(* A small instance of ImtAttach for TLC.  sc->buf holds 4 bytes, so a     *)
(* 5-byte feature report is too large for it; Contact Count Maximum        *)
(* values go up to 3, above MAX_MT_SLOTS = 2, so the clamp is exercised.   *)
(***************************************************************************)
EXTENDS ImtAttach

\* Input Mode report lengths: of the descriptors of the life-cycle run,
\* one fits sc->buf and one does not; of the overflow run, only one that
\* does not.
MCModeRLens      == {0, 3, 5}
MCModeRLensLarge == {0, 5}
=============================================================================
