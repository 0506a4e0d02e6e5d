------------------------------ MODULE IniFile ------------------------------
(***************************************************************************)
(* inipares/iniconfile.c: the parser that turns the bytes of a file into   *)
(* the trees of IniConfig, and ini_config_save, which writes them back.    *)
(* The parser is a table of functions, one per byte, over a PARSER.        *)
(***************************************************************************)
EXTENDS IniConfig

CONSTANTS
    Files,      \* what may be in a file, sequences of bytes
    Setting     \* the members of CAnalIni that config.ini sets (see CAnalIni)

VARIABLE file    \* the bytes that were just loaded and how, or NoFile

NoFile == [bytes |-> << >>, isGBK |-> FALSE]

fileVars == <<config, expected, file>>

-----------------------------------------------------------------------------
(* The bytes with a meaning *)

NewLine == 10
Blank == {10, 13, 32}
Comment == 59
Equals == 61
Open == 91
Close == 93

(* ini_config_create_from_file answers NULL if the file cannot be parsed.  A
   configuration that exists has a section "default" at least. *)
NULL == Empty

(* mem_trim, whose NULL is the empty string here. *)
mem_trim(s) ==
    LET Text == {i \in DOMAIN s : s[i] \notin Blank}
    IN  IF Text = {} THEN << >> ELSE SubSeq(s, Min(Text), Max(Text))

(* ini_config_create_from_string, up to its loop. *)
Parser(str) ==
    [status |-> "keyOrSection", str |-> str, pos |-> 1, start1 |-> 1, end1 |-> 1,
     start2 |-> 1, col |-> 1, section_name |-> Default,
     config |-> InsertSection(Empty, Default)]

Failed == [status |-> "failed", config |-> NULL]

(* The bytes from a position up to another one. *)
Between(p, start, end) == mem_trim(SubSeq(p.str, start, end - 1))

Advance(p, n) == [p EXCEPT !.pos = @ + n, !.col = @ + n]

(* Bug: a header may start in a comment. *)
SectionStartAnywhere(p) ==
    Advance(IF p.status \in {"keyOrSection", "comment"}
              THEN [p EXCEPT !.start1 = p.pos + 1, !.status = "section"] ELSE p, 1)

parser_on_section_start(p) ==
    Advance(IF p.status = "keyOrSection"
              THEN [p EXCEPT !.start1 = p.pos + 1, !.status = "section"] ELSE p, 1)

parser_on_section_end(p) ==
    LET name == Between(p, p.start1, p.pos)
    IN  CASE p.status # "section" -> Advance(p, 1)
          [] p.status = "section" /\ name = << >> -> Failed
          [] OTHER ->
               Advance([p EXCEPT !.section_name = name,
                                 !.config = InsertSection(@, name),
                                 !.status = "keyOrSection",
                                 !.start1 = p.pos + 1], 1)

parser_on_value_start(p) ==
    Advance(IF p.status = "keyOrSection"
              THEN [p EXCEPT !.status = "value", !.end1 = p.pos, !.start2 = p.pos + 1]
              ELSE p, 1)

(* A key may have an empty value; a header must have been closed. *)
parser_on_new_line(p) ==
    LET key == Between(p, p.start1, p.end1)
        section == Find(p.config.root, p.section_name)
        Stored == Within(p.config, p.section_name,
                         Put(section, key, Between(p, p.start2, p.pos)))
    IN  IF p.status = "section" \/ (p.status = "value" /\ key = << >>) THEN Failed
        ELSE [p EXCEPT !.config = IF p.status = "value" THEN Stored ELSE @,
                       !.start1 = p.pos + 1, !.status = "keyOrSection",
                       !.pos = @ + 1, !.col = 1]

(* Only a ";" in the first column starts a comment. *)
parser_on_comment(p) ==
    Advance(IF p.col = 1 THEN [p EXCEPT !.status = "comment"] ELSE p, 1)

(* parser_default_action and parse_default_gbk_action, which takes two bytes. *)
parser_default_action(p, isGBK) ==
    Advance(p, IF isGBK /\ p.str[p.pos] >= 128 THEN 2 ELSE 1)

(* The table of functions. *)
Jump(p, isGBK) ==
    CASE p.str[p.pos] = Open -> parser_on_section_start(p)
      [] p.str[p.pos] = Close -> parser_on_section_end(p)
      [] p.str[p.pos] = Equals -> parser_on_value_start(p)
      [] p.str[p.pos] = NewLine -> parser_on_new_line(p)
      [] p.str[p.pos] = Comment -> parser_on_comment(p)
      [] OTHER -> parser_default_action(p, isGBK)

RECURSIVE Parse(_, _)
Parse(p, isGBK) ==
    CASE p.status = "failed" -> NULL
      [] p.status # "failed" /\ p.pos <= Len(p.str) -> Parse(Jump(p, isGBK), isGBK)
      [] OTHER -> parser_on_new_line(p).config

ini_config_create_from_string(str, isGBK) == Parse(Parser(str), isGBK)

(* ini_config_save: the sections and their keys in ascending order. *)
SaveValue(section, key) ==
    key \o <<Equals>> \o Find(section.root, key) \o <<NewLine>>

(* The lines of the keys of a section. *)
SaveValues(section) ==
    LET keys == InOrder(section.root)
    IN  FlattenSeq([i \in DOMAIN keys |-> SaveValue(section, keys[i])])

(* Bug: the header comes behind its keys. *)
SaveSectionBelow(c, name) ==
    SaveValues(Find(c.root, name)) \o <<Open>> \o name \o <<Close, NewLine>>

SaveSection(c, name) ==
    <<Open>> \o name \o <<Close, NewLine>> \o SaveValues(Find(c.root, name))

ini_config_save(c) ==
    LET names == InOrder(c.root)
    IN  FlattenSeq([i \in DOMAIN names |-> SaveSection(c, names[i])])

(* atoi: the digits a string begins with. *)
atoi(s) ==
    LET Digits == {n \in 0 .. Len(s) : \A i \in 1 .. n : s[i] \in 48 .. 57}
    IN  FoldLeft(LAMBDA n, b : 10 * n + b - 48, 0, SubSeq(s, 1, Max(Digits)))

(* CAnalIni::CAnalIni: every member has one default for a key that is missing
   and another one for a file that is. *)
CAnalIni(c) ==
    [m \in DOMAIN Setting |->
        LET s == Setting[m]
            value == GetString(c, s.section, s.key)
        IN  CASE c = NULL -> s.noFile
              [] c # NULL /\ value = NoValue -> s.noKey
              [] OTHER -> IF s.number THEN atoi(value) ELSE value]

-----------------------------------------------------------------------------

(* What the bytes of a file stand for, by the format: the characters are of one
   byte, or of two if the first is above 127 and the file is GBK. *)

Starts(s, isGBK) ==
    {i \in DOMAIN s :
        isGBK => (i - Max({0} \cup {j \in 1 .. i - 1 : s[j] < 128})) % 2 = 1}
At(s, byte, isGBK) == {i \in Starts(s, isGBK) : s[i] = byte}

(* It does not end in half a character. *)
Complete(s, isGBK) == Len(s) + 1 \in Starts(Append(s, NewLine), isGBK)

Malformed == [kind |-> "malformed"]
HeaderOf(name) == IF name = << >> THEN Malformed ELSE [kind |-> "header", name |-> name]
KeyOf(key, value) == IF key = << >> THEN Malformed
                     ELSE [kind |-> "key", key |-> key, value |-> value]

(* A line has any number of headers, each with any text before it, and then any
   text or a key with its value. *)
RECURSIVE Entries(_, _)
Entries(line, isGBK) ==
    LET end == Len(line) + 1
        Next1(byte, i) == Min({j \in At(line, byte, isGBK) : j > i} \cup {end})
        Part(i, j) == mem_trim(SubSeq(line, i + 1, j - 1))
        open == Next1(Open, 0)
        close == Next1(Close, open)
        equals == Next1(Equals, 0)
    IN  CASE equals < open -> <<KeyOf(Part(0, equals), Part(equals, end))>>
          [] open < equals /\ close = end -> <<Malformed>>
          [] open < equals /\ close < end ->
               <<HeaderOf(Part(open, close))>>
                 \o Entries(SubSeq(line, close + 1, Len(line)), isGBK)
          [] OTHER -> << >>

(* The lines but for the comments. *)
Reading(s, isGBK) ==
    LET ends == SetToSortSeq(At(s, NewLine, isGBK) \cup {0, Len(s) + 1}, <)
        Line(i) == SubSeq(s, ends[i] + 1, ends[i + 1] - 1)
    IN  FlattenSeq([i \in 1 .. Len(ends) - 1 |->
            IF IsPrefix(<<Comment>>, Line(i)) THEN << >> ELSE Entries(Line(i), isGBK)])

WellFormed(s, isGBK) == Malformed \notin Range(Reading(s, isGBK))

(* A key belongs to the header above it, and a header that is repeated begins
   its section anew. *)
Meaning(s, isGBK) ==
    LET Begin(state, name) ==
            [name |-> name,
             keys |-> [n \in Names |-> IF n = name THEN NoKeys(n) ELSE state.keys[n]]]
        Apply(state, e) ==
            CASE e.kind = "header" -> Begin(state, e.name)
              [] e.kind = "key" /\ state.name \in Names /\ e.key \in Keys[state.name] ->
                   [state EXCEPT !.keys[state.name][e.key] = e.value]
              [] OTHER -> state
    IN  FoldLeft(Apply, [name |-> Default, keys |-> [n \in Names |-> NoKeys(n)]],
                 Reading(s, isGBK)).keys

(* All there is in a configuration: section, key and value. *)
Contents(c) ==
    UNION {LET section == c.root[p]
           IN  {<<section.key, section.data.root[q].key, section.data.root[q].data>> :
                   q \in DOMAIN section.data.root} : p \in DOMAIN c.root}

(* Bound: the calls of the library are followed up from configurations of the
   names, keys and values of the model only. *)
Known(c) ==
    /\ \A p \in DOMAIN c.root : c.root[p].key \in Names
    /\ \A e \in Contents(c) : e[2] \in Keys[e[1]] /\ e[3] \in Values

FileInit == Init /\ file = NoFile

(* A file is loaded when the program starts.  (Behind half a character at its
   end the parser would read on.) *)
Load ==
    /\ FileInit
    /\ \E f \in Files, isGBK \in BOOLEAN :
         /\ Complete(f, isGBK)
         /\ file' = [bytes |-> f, isGBK |-> isGBK]
         /\ config' = ini_config_create_from_string(f, isGBK)
         /\ expected' = IF WellFormed(f, isGBK) THEN Meaning(f, isGBK) ELSE expected

(* The functions of the library on a configuration that exists. *)
Edit ==
    /\ config # NULL
    /\ Known(config)
    /\ Next
    /\ file' = NoFile

FileNext == Load \/ Edit

FileSpec == FileInit /\ [][FileNext]_fileVars

-----------------------------------------------------------------------------

(* A file is refused (iniconfile.c line 443) exactly if, outside of comments, a
   header has no end on its line or no name, or a value has no key.  Nothing
   else is: a line that is neither a header nor a key, and text around a
   header, are skipped without a word.  Half of a two-byte character is never
   taken for a bracket, a "=" or the end of a line. *)
RefusedIfMalformed ==
    file # NoFile => (config = NULL <=> ~WellFormed(file.bytes, file.isGBK))

(* The lines of a configuration when it is saved, each of which stands for what
   it is saved for: no value with a newline or blanks at its ends, no key that
   looks like a comment, no half characters. *)
Readable(c, isGBK) ==
    LET StandsFor(line, entry) ==
            Complete(line, isGBK) /\ Reading(line, isGBK) = <<entry>>
    IN  /\ \A p \in DOMAIN c.root :
             StandsFor(<<Open>> \o c.root[p].key \o <<Close>>, HeaderOf(c.root[p].key))
        /\ \A e \in Contents(c) :
             StandsFor(e[2] \o <<Equals>> \o e[3], KeyOf(e[2], e[3]))

(* A configuration of such lines that is saved and read again is the same, for
   the getters and for CAnalIni, whatever the order it was set in: the lines
   do not disturb each other. *)
RoundTrip ==
    config # NULL =>
        \A isGBK \in BOOLEAN :
            Readable(config, isGBK) =>
                LET again == ini_config_create_from_string(ini_config_save(config), isGBK)
                IN  /\ again # NULL
                    /\ Contents(again) = Contents(config)
                    /\ CAnalIni(again) = CAnalIni(config)
=============================================================================
