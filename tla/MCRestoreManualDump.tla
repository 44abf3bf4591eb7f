------------------------ MODULE MCRestoreManualDump ------------------------
(***************************************************************************)
(* TLC instance of RestoreManualDump: the old and the new site share a     *)
(* media file, and the new one adds or drops another.                      *)
(***************************************************************************)
EXTENDS RestoreManualDump

CONSTANTS k1, k2

MCKeys == {k1, k2}
MCArchives == {{k1}, {k1, k2}}
=============================================================================
