---------------------------- MODULE MCIniConfig ----------------------------
(* IniConfig and IniFile for TLC: keys over a small alphabet. *)
EXTENDS IniFile

MCDefault == <<1, 2>>
Other == <<1, 3>>

(* No key begins with another one, as in config.ini. *)
MCNames == {MCDefault, Other}
MCKeys ==
    [name \in MCNames |-> IF name = MCDefault THEN {<<1, 2>>}
                          ELSE {<<1, 1>>, <<1, 2>>, <<2>>, <<3, 1>>, <<3, 2>>}]

(* "7=" before a GBK character whose second byte is "[", and a value with a
   blank before it, a newline and another line in it.  The empty value comes
   from files. *)
MCValues == {<<55, 61, 200, 91>>, <<32, 55, 10, 61>>}

(* A member of CAnalIni that is a number, and one that is not. *)
MCSetting ==
    [m_TimeOut |-> [section |-> Other, key |-> <<2>>, number |-> TRUE,
                    noFile |-> 0, noKey |-> 0],
     m_strNetName |-> [section |-> Other, key |-> <<3, 1>>, number |-> FALSE,
                       noFile |-> << >>, noKey |-> <<101>>]]

(* Lines of a file: with blanks and carriage returns, with bytes of the syntax
   in comments and in values, with GBK characters whole and halved, with text
   around a header; and some that cannot be parsed: a header not closed, an
   empty one, an empty key, and a key with a bracket in it. *)
MCLines ==
    {<<32, 13>>, <<4, 5>>,
     <<59, 91, 61, 200, 91>>, <<59, 228, 189, 160>>, <<239, 187, 191, 59, 4, 61>>,
     <<91, 32, 1, 2, 93, 13>>, <<91, 1, 3, 93>>, <<91, 1, 3, 93, 1, 2, 61>>,
     <<4, 91, 1, 3, 93, 2, 61, 55>>, <<91, 200, 93, 93>>,
     <<1, 2, 61>>, <<32, 1, 2, 32, 61, 55, 61, 200, 91, 13>>, <<200, 91, 61, 55>>,
     <<91, 1, 3>>, <<91, 32, 93>>, <<32, 61, 55>>, <<1, 91, 2, 93, 61, 55>>}

(* A newline between the lines. *)
Joined(lines) ==
    FlattenSeq([i \in DOMAIN lines |->
                   IF i < Len(lines) THEN Append(lines[i], 10) ELSE lines[i]])

(* Every sequence of a few of these bytes. *)
MCBytes == {4, 10, 32, 59, 61, 91, 93, 200}

MCFiles ==
    {Joined(lines) : lines \in UNION {[1 .. n -> MCLines] : n \in 1 .. 3}}
      \cup UNION {[1 .. n -> MCBytes] : n \in 0 .. 4}

(* The key <<1>> begins the key <<1, 2>>, as "log" does "logPath". *)
MCPrefixNames == {<<1, 2>>}
MCPrefixKeys == [name \in MCPrefixNames |-> {<<1>>, <<1, 2>>}]
=============================================================================
