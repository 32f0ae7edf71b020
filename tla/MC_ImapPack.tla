------------------------------ MODULE MC_ImapPack ------------------------------
(* Model-checking instance of ImapPack.                                    *)
EXTENDS ImapPack

\* An atom character, the quoted-specials, the literal-only CR, an
\* atom-special, and a two-byte rune.  NUL and LF take the same branch of
\* string0 as CR and are left out.
MCRunes == {"a", "\"", "\\", "CR", "{", "e-acute"}
MCEncode == [r \in MCRunes |-> IF r = "e-acute" THEN <<"xC3", "xA9">> ELSE <<r>>]
MCAtomChars == {"a"}
\* Single and multi-digit numbers, up to the largest TLC integer.
MCNumbers == {0, 10, 2147483647}
====
