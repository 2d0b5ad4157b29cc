---------------------------- MODULE MCAlgorithms ----------------------------
(* TLC instance of Algorithms: the shortest and the longest text of the QR *)
(* versions 1 to 6, names and tokens of up to three characters, files of   *)
(* up to four chunks, command lines of up to three options, configuration  *)
(* files with any fields missing, echoes at every delay up to MaxDelay,    *)
(* and up to four settings and blocks of the signal chain in any order.    *)
EXTENDS Algorithms

(* A plain letter and the separators of nmcli and of the setup code.       *)
NameCharacters == {"a", ":", ";", Backslash}
=============================================================================
