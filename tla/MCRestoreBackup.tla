---------------------------- MODULE MCRestoreBackup ---------------------------
(* Finite instances of RestoreBackup for TLC.                               *)
EXTENDS RestoreBackup

CONSTANTS s1, s2

MCSources == {s1, s2}
MCSourceOrder == <<s1, s2>>
===============================================================================
