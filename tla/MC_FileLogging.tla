--------------------------- MODULE MC_FileLogging ---------------------------
(* Instance of FileLogging for TLC: one logger name, one component, two    *)
(* directories, two levels.                                               *)
EXTENDS FileLogging

MCNames == {"app"}
MCComponents == {"web"}
=============================================================================
