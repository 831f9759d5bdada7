-------------------------------- MODULE Lines --------------------------------
(* Texts, one after the other. *)
EXTENDS Naturals, Sequences

Joined(texts) ==
  LET all[n \in 0 .. Len(texts)] == IF n = 0 THEN <<>> ELSE all[n - 1] \o texts[n]
  IN all[Len(texts)]
==============================================================================
