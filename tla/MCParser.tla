------------------------------ MODULE MCParser ------------------------------
EXTENDS Parser

\* All lines of up to seven characters, with and without a newline.
Texts == UNION {[1..n -> {"a", " ", "&", "|"}] : n \in 0..7}
MCInputs == Texts \cup {t \o <<"nl">> : t \in Texts}
=============================================================================
