------------------------------ MODULE MCShell -------------------------------
(***************************************************************************)
(* Small instances of Shell: every line of three characters of all kinds,  *)
(* every line of five of the ones that separate commands or quote, and     *)
(* every script of up to nine characters and newlines, which fill the      *)
(* buffer.                                                                 *)
(***************************************************************************)
EXTENDS Shell

Words(chars, n) == UNION {[1 .. k -> chars] : k \in 0 .. n}
Chars == {" ", "a", "1", "<", ">", "&", "|", ";", "(", "#", "'", "\"", "\\"}

MCScripts == {Append(w, "n") : w \in [1 .. 3 -> Chars]
                                      \cup Words({" ", "a", "&", "|", ";"}, 5)
                                      \cup Words({" ", "a", "'", "\\", ";"}, 5)}
             \cup Words({"a", "n"}, 9)
=============================================================================
