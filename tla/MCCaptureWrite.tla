--------------------------- MODULE MCCaptureWrite ---------------------------
(* Two plain captures and a forced one, or a plain one, a forced one and a  *)
(* verify, race for one path, and others change it twice: once after a      *)
(* command looked, once after it created or opened.                         *)
EXTENDS SharedFile

CONSTANTS p1, p2, f1, v1

MCMixes == {{p1, p2, f1}, {p1, f1, v1}}
Alone   == {{p1}}
=============================================================================
