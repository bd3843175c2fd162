----------------------------- MODULE MCCommands -----------------------------
(***************************************************************************)
(* Commands on two keys, one with a name that occurs in the word SET, with *)
(* a number, an id of a stream that is too big for an int, and a word that *)
(* is no number.  Two of the hashes fall into one register.              *)
(***************************************************************************)
EXTENDS Commands

MCKey == {"k", "S"}
MCInSET == {"S"}
One == [num |-> 1, text |-> "digits"]
MCId == [num |-> 5, text |-> "-1"]
MCMkstream == [num |-> NaN, text |-> "MKSTREAM"]
MCWord == {One, MCId, MCMkstream}
MCIdWord == {MCId}

\* With B = 3 and 8 bits: the index is in bits 7 to 5, what the zeros are
\* counted of in bits 1 and 0.
MCHash(w) == IF w = One THEN 129 ELSE IF w = MCId THEN 130 ELSE 73
=============================================================================
