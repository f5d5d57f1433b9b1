------------------------------ MODULE MCScanner ------------------------------
(***************************************************************************)
(* Scanner on all the texts of up to four or five bytes of five alphabets. *)
(***************************************************************************)
EXTENDS Scanner

RECURSIVE Texts(_, _)
Texts(bytes, n) ==
    IF n = 0 THEN {""}
    ELSE LET shorter == Texts(bytes, n - 1)
         IN  shorter \cup {s \o c : s \in shorter, c \in bytes}

Of(rir, texts) == {[rir |-> rir, text |-> t] : t \in texts}
MCSources ==
    Of(FALSE, Texts({"i", "f", "1", ".", " ", "/", "\n"}, 5)
              \cup Texts({"=", ">", "-", "<", "|", "&", "+", "!", "1"}, 4)
              \cup Texts({"\"", "\\", "a", "\n", "/"}, 5)
              \cup Texts({"0", "x", "b", "8", ".", "e", "-"}, 4))
    \cup Of(TRUE, Texts({"$", "%", "a", "-", "0", "\"", ";", "!"}, 4)
              \cup {"add $a,-1", "fn %b", "call"})
=============================================================================
