-------------------------- MODULE MC_Entrypoint --------------------------
(* Small instances of Entrypoint.                                         *)
EXTENDS Entrypoint

AllModes == {"auto", "on", "off"}
AllDownloads == {"official", "other", "partial", "none"}
AnyPoint == Points \ {"down"}
(* The points after the first-boot block and before the node runs.        *)
Priming == {"decide", "tip", "hash", "enable", "servers", "height", "trust"}
==========================================================================
