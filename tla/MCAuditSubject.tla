--------------------------- MODULE MCAuditSubject ---------------------------
(***************************************************************************)
(* An instance of AuditSubject for TLC: a queue of two places that three   *)
(* handlers fill, a file and a URL, an observer that subscribes late, and  *)
(* two goroutines that call Close.                                         *)
(***************************************************************************)
EXTENDS AuditSubject

CONSTANTS h1, h2, h3, c1, c2, diskFile, url, late
=============================================================================
