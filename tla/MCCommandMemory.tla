-------------------------- MODULE MCCommandMemory --------------------------
EXTENDS CommandMemory

Plain(n) == [len |-> n, at |-> 0, key |-> NoKey, value |-> ""]
Var(key, at, value, n) == [len |-> at + 1 + n, at |-> at, key |-> key, value |-> value]
Command(kind, words) == [kind |-> kind, words |-> words]
Export == Plain(6)

A1 == Var("A", 1, "one", 3)
A2 == Var("A", 1, "two", 3)
B1 == Var("B", 4, "one", 3)
B2 == Var("B", 4, "two", 3)

MCLines == {
  <<Command("plain", <<Plain(2)>>)>>,
  <<Command("plain", <<Plain(4), Plain(11)>>)>>,
  <<Command("plain", <<Plain(4), Plain(12)>>)>>,
  <<Command("file", <<Plain(14), Plain(7)>>)>>,
  <<Command("assign", <<A1>>)>>,
  <<Command("assign", <<A2, Plain(2)>>)>>,
  <<Command("assign", <<A1, Plain(3)>>)>>,
  <<Command("assign", <<A1, B1>>)>>,
  <<Command("assign", <<A1, A2, Plain(5)>>)>>,
  <<Command("export", <<Export, A2>>)>>,
  <<Command("export", <<Export, B2>>)>>,
  <<Command("export", <<Export, B1, A1>>)>>,
  <<Command("plain", <<Plain(14), Plain(8)>>), Command("plain", <<Plain(2)>>)>>,
  <<Command("plain", <<Plain(14), Plain(8)>>), Command("plain", <<Plain(2), Plain(3)>>),
    Command("plain", <<Plain(2)>>)>>,
  <<Command("plain", <<Plain(2)>>), Command("plain", <<Plain(2), Plain(14)>>)>> }
=============================================================================
