------------------------------- MODULE MCAml -------------------------------
(* TLC instances of Aml: every page of at most PageLen characters, filled  *)
(* with every kind of token an include handler may return.                 *)
EXTENDS Aml

CONSTANTS Alphabet, PageLen, Bodies

\* An include of the claimed name, in the spellings a page may use.
Include == {<<"[", "n", "sp", "a", "=", "t", "/", "]">>,
            <<"[", "n", "sp", "a", "=", "q", "t", "q", "]", "[", "/", "n", "]">>}
Around == UNION {[1..k -> Alphabet] : k \in 0..PageLen}
MCPages == {before \o inc \o after : before \in Around, inc \in Include \cup {<< >>}, after \in Around}

MCBodies == UNION {[1..k -> Bodies] : k \in 0..2}
MCGenerated ==
    {<<Text(b), Text(c)>> : b \in MCBodies, c \in {<< >>, <<"[">>}}
    \cup {<<OpenTag(<<"a">>, <<Attribute(<<"t">>, k, b)>>, sc), Text(<<"$">>)>> :
             k \in {"string", "ident"}, b \in MCBodies, sc \in BOOLEAN}
    \cup {<<OpenTag(<<"A">>, << >>, FALSE)>>, <<CloseTag(INCLUDE_TAG)>>}
MCClaimed == {<<"t">>}
=============================================================================
