---------------------------- MODULE MCLineInput ----------------------------
EXTENDS LineInput

Source(kind, reader, chars) == [kind |-> kind, reader |-> reader, chars |-> chars]

\* All texts of up to five characters, and longer ones behind a first line.
Texts(letters, n) == UNION {[1..k -> letters] : k \in 0..n}

Typable(chars) ==
  /\ chars = <<>> \/ Last(chars) \in {"nl", "eot"}
  /\ \A i \in DOMAIN chars : chars[i] = "eot" => i = 1 \/ chars[i - 1] \in {"nl", "eot"}

MCInputs ==
  {Source("terminal", "shell", t) :
     t \in {c \in Texts({"a", "exit", "nl", "eot", "xFF"}, 5) : Typable(c)}} \cup
  {Source("pipe", "shell", t) : t \in Texts({"a", "exit", "nl", "xFF", "|"}, 5)} \cup
  {Source("file", "script", h \o t) :
     h \in {<<"#!sbush", "nl">>, <<"#!other", "nl">>, <<"#!sbush">>, <<"a">>, <<>>},
     t \in Texts({"a", "nl", "xFF", "|"}, 6)}
=============================================================================
