----------------------------- MODULE MCLineParser ------------------------------
(* LineParser for TLC: every text over one letter, CR and LF that fits the  *)
(* buffer, in every split.                                                  *)
EXTENDS LineParser
==============================================================================
