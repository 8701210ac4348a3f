---------------------------- MODULE MCStripPrefix ----------------------------
(* Model-checking instance of StripPrefix: a two-byte prefix "SV" and      *)
(* buffers of up to six bytes over S, V and newline.  Two prefix bytes let  *)
(* a line match the prefix partly ("S\n"); six bytes fit two cuts.        *)
EXTENDS StripPrefix

MCBytes == {"S", "V", "\n"}
MCPrefix == <<"S", "V">>
MCNL == "\n"
=============================================================================
