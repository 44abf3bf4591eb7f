--------------------------- MODULE MCSiteRestore ---------------------------
(***************************************************************************)
(* TLC instance of SiteRestore: two media files, archives that replace,    *)
(* keep, drop or share files with what is there, two processes.            *)
(***************************************************************************)
EXTENDS SiteRestore

CONSTANTS k1, k2

MCKeys == {k1, k2}
MCArchives == {{k1}, {k1, k2}}
=============================================================================
