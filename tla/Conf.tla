-------------------------------- MODULE Conf --------------------------------
(***************************************************************************)
(* The configuration file of dsrtx (src/conf.c): _conf_parse() turns the   *)
(* text into a list of strings in the very memory it reads the text from,  *)
(* with one pointer reading (s) and one writing (d); _conf_find() looks a  *)
(* key up in that list, and the functions of conf.h convert what it finds. *)
(*                                                                         *)
(* A character is one of "=", ";", "[", "]", "q" (a quotation mark), "b"   *)
(* (a backslash), "_" (a blank), "n" (the end of a line), NUL, "t" (the    *)
(* letter, which an escape makes "tab"), "1" (a digit), "yes" or "no" (the *)
(* words, or the other two of the same meaning) or any other.  Upper and   *)
(* lower case, which a lookup takes for the same, are one character.       *)
(***************************************************************************)
EXTENDS Integers, Sequences, SequencesExt, FiniteSetsExt

CONSTANTS
    Files,    \* the texts, sequences of characters without NUL
    Lookups   \* what is looked up: records of section (<<>> for the NULL section), index,
              \* key (<<>> when the question is whether the section exists) and as, the
              \* function that asks: "str", "int", "bool" or "exists"

NUL == "0"
ASSUME ConfAssumption ==
    \* After a backslash at the very end the code reads on behind the terminator.
    /\ \A text \in Files : text \in Seq(ToSet(text) \ {NUL}) /\ (text # <<>> => Last(text) # "b")
    /\ \A q \in Lookups : q.index >= IF q.key = <<>> THEN 0 ELSE -1

VARIABLES
    file,    \* the text as read from the disk
    mem,     \* the memory at the start of the text
    s, d,    \* the two pointers
    pc,      \* where conf_loadfile, _conf_parse or _conf_find is
    \* _conf_find
    query, index, m,
    result,  \* the value found, NotFound for a NULL pointer, or Exists
    value    \* what conf_int, conf_bool or conf_key_exists returns

parseVars == <<mem, s, d>>
findVars  == <<query, index, m, result, value>>
vars == <<file, parseVars, pc, findVars>>

NotFound == <<NUL>>
Exists   == <<NUL, NUL>>
Default  == 7   \* the value the caller gives for a key that is not there
Blank  == {"_"}
Ending == {"n"}

\* _conf_process(NULL, &s, NULL, stop): the first character in stop, or the end.
Until(p, stop) == Min({i \in DOMAIN mem : i >= p /\ mem[i] \in stop \cup {NUL}})
\* _conf_process(NULL, &s, accept, NULL)
Past(p, accept) == Min({i \in DOMAIN mem : i >= p /\ mem[i] \notin accept})

\* _conf_process(&d, &s, ...): the characters from a up to b - 1 go to d.
Copied(a, b) == [i \in DOMAIN mem |-> IF d <= i /\ i < d + b - a THEN mem[i - d + a] ELSE mem[i]]

\* Back over trailing blanks.
Trimmed(text, p) == Max({i \in 0..p : i = 0 \/ text[i - 1] \notin Blank})

Init ==
    /\ file \in Files
    /\ mem = [i \in 0 .. Len(file) + 1 |-> NUL]
    /\ s = 0 /\ d = 0 /\ pc = "load"
    /\ query \in Lookups /\ index = query.index /\ m = FALSE /\ result = NotFound
    /\ value = Default

-----------------------------------------------------------------------------
(* conf_loadfile() *)

LoadFile ==
    /\ pc = "load"
    /\ mem' = [i \in DOMAIN mem |-> IF i < Len(file) THEN file[i + 1] ELSE NUL]
    /\ pc' = "line"
    /\ UNCHANGED <<file, s, d, findVars>>

\* The file ends before the length it had: the second fread returns 0.
LoadShort ==
    /\ pc = "load" /\ file # <<>>
    /\ pc' = "failed"
    /\ UNCHANGED <<file, parseVars, findVars>>

-----------------------------------------------------------------------------
(* _conf_parse() *)

\* Skip any space at the start of the line.
StartLine ==
    /\ pc = "line" /\ mem[s] # NUL
    /\ s' = Past(s, Blank) /\ pc' = "switch"
    /\ UNCHANGED <<file, mem, d, findVars>>

\* Nothing, a comment or a value without a key.
SkipLine ==
    /\ pc = "switch" /\ mem[s] \in {NUL, "n", ";", "="}
    /\ pc' = "rest"
    /\ UNCHANGED <<file, parseVars, findVars>>

\* [section]: keeps its bracket.
Section ==
    /\ pc = "switch" /\ mem[s] = "["
    /\ LET e == Until(s, {"]"} \cup Ending)
           z == d + (e - s)
       IN  /\ mem' = [Copied(s, e) EXCEPT ![z] = NUL]
           /\ d' = z + 1
           /\ s' = IF mem[e] # NUL THEN Past(e + 1, Blank) ELSE e
    /\ pc' = "rest"
    /\ UNCHANGED <<file, findVars>>

IsKey == pc = "switch" /\ mem[s] \notin {NUL, "n", ";", "=", "["}

\* Mutant of EndLine: the end of the line is left to be read again.
EndLineStays ==
    /\ pc = "rest"
    /\ s' = Until(s, Ending)
    /\ pc' = "line"
    /\ UNCHANGED <<file, mem, d, findVars>>

\* Mutant of ValuelessKey: the write pointer is not rewound.
ValuelessKeyKept ==
    /\ IsKey
    /\ LET e == Until(s, {"="} \cup Ending)
       IN  mem[e] # "=" /\ mem' = [Copied(s, e) EXCEPT ![d + e - s] = NUL] /\ d' = d + e - s + 1
           /\ s' = e
    /\ pc' = "rest"
    /\ UNCHANGED <<file, findVars>>

\* A key without a value is dropped.
ValuelessKey ==
    /\ IsKey
    /\ LET e == Until(s, {"="} \cup Ending)
       IN  mem[e] # "=" /\ mem' = Copied(s, e) /\ s' = e
    /\ pc' = "rest"
    /\ UNCHANGED <<file, d, findVars>>

\* The key up to the equals sign, without trailing space; then to the value.
Key ==
    /\ IsKey
    /\ LET e == Until(s, {"="} \cup Ending)
           z == Trimmed(Copied(s, e), d + (e - s))
       IN  /\ mem[e] = "="
           /\ mem' = [Copied(s, e) EXCEPT ![z] = NUL]
           /\ d' = z + 1
           /\ s' = Past(e + 1, Blank)
    /\ pc' = "value"
    /\ UNCHANGED <<file, findVars>>

\* Up to a comment or the end of the line, without trailing space.  The terminator is
\* written at d even when that is where s points.
PlainValue ==
    /\ pc = "value" /\ mem[s] # "q"
    /\ LET e == Until(s, {";"} \cup Ending)
           z == Trimmed(Copied(s, e), d + (e - s))
       IN  mem' = [Copied(s, e) EXCEPT ![z] = NUL] /\ d' = z + 1 /\ s' = e
    /\ pc' = "rest"
    /\ UNCHANGED <<file, findVars>>

Special == {"b", "q"} \cup Ending

\* The opening quotation mark and the text up to the first escape.
OpenQuote ==
    /\ pc = "value" /\ mem[s] = "q"
    /\ LET e == Until(s + 1, Special)
       IN  mem' = Copied(s + 1, e) /\ d' = d + (e - s - 1) /\ s' = e
    /\ pc' = "quoted"
    /\ UNCHANGED <<file, findVars>>

\* Escapes known to the parser.
Escapes == [c \in {"q", "b", "t"} |-> IF c = "t" THEN "tab" ELSE c]

\* An escape, unknown ones dropped, and the text up to the next one.
Escape ==
    /\ pc = "quoted" /\ mem[s] = "b"
    /\ LET known == mem[s + 1] \in DOMAIN Escapes
           z == IF known THEN d + 1 ELSE d
           e == Until(s + 2, Special)
       IN  /\ mem' = [i \in DOMAIN mem |->
                         IF known /\ i = d THEN Escapes[mem[s + 1]]
                         ELSE IF z <= i /\ i < z + e - s - 2 THEN mem[i - z + s + 2] ELSE mem[i]]
           /\ d' = z + (e - s - 2) /\ s' = e
    /\ UNCHANGED <<file, pc, findVars>>

CloseQuote ==
    /\ pc = "quoted" /\ mem[s] # "b"
    /\ s' = IF mem[s] # NUL THEN Past(s + 1, Blank) ELSE s
    /\ mem' = [mem EXCEPT ![d] = NUL] /\ d' = d + 1
    /\ pc' = "rest"
    /\ UNCHANGED <<file, findVars>>

\* Skip remainder of this line.
EndLine ==
    /\ pc = "rest"
    /\ LET e == Until(s, Ending) IN s' = IF mem[e] # NUL THEN e + 1 ELSE e
    /\ pc' = "line"
    /\ UNCHANGED <<file, mem, d, findVars>>

\* The empty string that ends the list; then somebody looks a key up.
EndOfFile ==
    /\ pc = "line" /\ mem[s] = NUL
    /\ mem' = [mem EXCEPT ![d] = NUL] /\ d' = d + 1
    /\ s' = 0 /\ m' = (query.section = <<>>) /\ pc' = "find"
    /\ UNCHANGED <<file, query, index, result, value>>

-----------------------------------------------------------------------------
(* _conf_find(): s walks over the strings of the list *)

\* The string at p, and the position after it.
EndOf(p) == Min({i \in DOMAIN mem : i >= p /\ mem[i] = NUL})
Text(p)  == [j \in 1 .. EndOf(p) - p |-> mem[p + j - 1]]

IsFind == pc = "find" /\ query.key # <<>>

\* Mutant of NextSection: every section counts, not only those asked for.
NextSectionCountsAll ==
    /\ IsFind /\ mem[s] = "[" /\ ~(m /\ index = 0)
    /\ index' = IF index > 0 THEN index - 1 ELSE index
    /\ m' = (query.section # <<>> /\ Text(s + 1) = query.section)
    /\ s' = EndOf(s) + 1
    /\ UNCHANGED <<file, mem, d, pc, query, result, value>>

\* A section starts.  The one that ends may have been the one asked for.
NextSection ==
    /\ IsFind /\ mem[s] = "[" /\ ~(m /\ index = 0)
    /\ index' = IF m /\ index > 0 THEN index - 1 ELSE index
    /\ m' = (query.section # <<>> /\ Text(s + 1) = query.section)
    /\ s' = EndOf(s) + 1
    /\ UNCHANGED <<file, mem, d, pc, query, result, value>>

\* The section asked for ends without the key, or the list does.
NothingFound ==
    /\ IsFind /\ (mem[s] = NUL \/ (mem[s] = "[" /\ m /\ index = 0))
    /\ pc' = "found"
    /\ UNCHANGED <<file, parseVars, findVars>>

NextKey ==
    /\ IsFind /\ mem[s] \notin {NUL, "["}
    /\ LET v == EndOf(s) + 1
       IN  IF m /\ index <= 0 /\ Text(s) = query.key
           THEN result' = Text(v) /\ pc' = "found" /\ UNCHANGED s
           ELSE s' = EndOf(v) + 1 /\ UNCHANGED <<pc, result>>
    /\ UNCHANGED <<file, mem, d, query, index, m, value>>

\* strtol: the number a text begins with, 0 if none.
Number(text) == IF text # <<>> /\ Head(text) = "1" THEN 1 ELSE 0

\* Mutant of Convert: an empty value counts as none.
ConvertEmptyIsDefault ==
    /\ pc = "found" /\ pc' = "done"
    /\ value' = CASE query.as = "exists"           -> IF result = NotFound THEN 0 ELSE -1
                  [] query.as = "str"              -> value
                  [] result \in {NotFound, <<>>}   -> Default
                  [] query.as = "int"              -> Number(result)
                  [] query.as = "bool"             -> IF result = <<"yes">> THEN -1 ELSE -Number(result)
    /\ UNCHANGED <<file, parseVars, query, index, m, result>>

\* conf_key_exists, conf_str, conf_int and conf_bool.
Convert ==
    /\ pc = "found" /\ pc' = "done"
    /\ value' = CASE query.as = "exists" -> IF result = NotFound THEN 0 ELSE -1
                  [] query.as = "str"    -> value
                  [] result = NotFound   -> Default
                  [] query.as = "int"    -> Number(result)
                  [] result = <<"yes">>  -> -1
                  [] result = <<"no">>   -> 0
                  [] OTHER               -> IF Number(result) = 0 THEN 0 ELSE -1
    /\ UNCHANGED <<file, parseVars, query, index, m, result>>

(* conf_section_exists() *)

IsSearch == pc = "find" /\ query.key = <<>>

\* The index-th section of that name exists.
SectionExists ==
    /\ IsSearch /\ mem[s] = "[" /\ Text(s + 1) = query.section /\ index = 0
    /\ result' = Exists /\ pc' = "done"
    /\ UNCHANGED <<file, parseVars, query, index, m, value>>

PassSection ==
    /\ IsSearch /\ mem[s] = "[" /\ ~(Text(s + 1) = query.section /\ index = 0)
    /\ index' = IF Text(s + 1) = query.section THEN index - 1 ELSE index
    /\ s' = EndOf(s) + 1
    /\ UNCHANGED <<file, mem, d, pc, query, m, result, value>>

PassKey ==
    /\ IsSearch /\ mem[s] \notin {NUL, "["}
    /\ s' = EndOf(EndOf(s) + 1) + 1
    /\ UNCHANGED <<file, mem, d, pc, findVars>>

NoSuchSection ==
    /\ IsSearch /\ mem[s] = NUL
    /\ pc' = "done"
    /\ UNCHANGED <<file, parseVars, findVars>>

Finished == pc \in {"done", "failed"} /\ UNCHANGED vars

-----------------------------------------------------------------------------
Parse == StartLine \/ SkipLine \/ Section \/ ValuelessKey \/ Key \/ PlainValue
            \/ OpenQuote \/ Escape \/ CloseQuote \/ EndLine \/ EndOfFile
Load  == LoadFile \/ LoadShort
Find  == NextSection \/ NothingFound \/ NextKey \/ Convert
Search == SectionExists \/ PassSection \/ PassKey \/ NoSuchSection

Next == Load \/ Parse \/ Find \/ Search \/ Finished

Spec == Init /\ [][Next]_vars /\ WF_vars(Load \/ Parse \/ Find \/ Search)

-----------------------------------------------------------------------------
(* What conf.h says of a file, line by line and without any memory *)

Lines(text) ==
    LET ends == {i \in 1 .. Len(text) : text[i] = "n"} \cup {Len(text) + 1}
        from(e) == Max({0} \cup {i \in ends : i < e}) + 1
        order == SetToSortSeq(ends, LAMBDA a, b : a < b)
    IN  [k \in 1 .. Len(order) |-> SubSeq(text, from(order[k]), order[k] - 1)]

Before(text, stop) ==
    SubSeq(text, 1, Min({i \in 1 .. Len(text) : text[i] \in stop} \cup {Len(text) + 1}) - 1)
After(text, stop)  == SubSeq(text, Len(Before(text, stop)) + 2, Len(text))
TrimLeft(text) == SubSeq(text, Min({i \in 1 .. Len(text) : text[i] # "_"} \cup {Len(text) + 1}),
                         Len(text))
TrimRight(text) == Reverse(TrimLeft(Reverse(text)))

\* A quoted value with its escapes replaced: out is what has come so far, esc says that
\* a backslash has been read, open that the closing mark has not.
Unquoted(text) ==
    FoldLeft(LAMBDA a, c :
                IF ~a.open THEN a
                ELSE IF a.esc THEN [a EXCEPT !.esc = FALSE,
                                             !.out = IF c \in DOMAIN Escapes
                                                     THEN Append(@, Escapes[c]) ELSE @]
                ELSE IF c = "b" THEN [a EXCEPT !.esc = TRUE]
                ELSE IF c = "q" THEN [a EXCEPT !.open = FALSE]
                ELSE [a EXCEPT !.out = Append(@, c)],
            [out |-> <<>>, esc |-> FALSE, open |-> TRUE], text)

\* What a line says: a section, a key with its value, or nothing.
Meaning(line) ==
    LET body  == TrimLeft(line)
        word  == TrimLeft(After(body, {"="}))
    IN  IF body = <<>> \/ Head(body) \in {";", "="} THEN [kind |-> "nothing"]
        ELSE IF Head(body) = "[" THEN [kind |-> "section", name |-> Tail(Before(body, {"]"}))]
        ELSE IF Before(body, {"="}) = body THEN [kind |-> "nothing"]
        ELSE [kind |-> "key", key |-> TrimRight(Before(body, {"="})),
              value |-> IF word # <<>> /\ Head(word) = "q" THEN Unquoted(Tail(word)).out
                        ELSE TrimRight(Before(word, {";"}))]

\* "Missing ]", "Missing quotation mark at end of line"
Unclosed(line) ==
    LET body == TrimLeft(line)
        word == TrimLeft(After(body, {"="}))
    IN  \/ body # <<>> /\ Head(body) = "[" /\ "]" \notin ToSet(body)
        \/ Meaning(line).kind = "key" /\ word # <<>> /\ Head(word) = "q" /\ Unquoted(Tail(word)).open

\* The lines of a file that are read: one behind an unclosed one is taken for its rest.
LinesRead(line) ==
    LET read[i \in 0 .. Len(line)] == i <= 1 \/ ~read[i - 1] \/ ~Unclosed(line[i - 1])
        at == {i \in DOMAIN line : read[i]}
    IN  [i \in DOMAIN line |-> IF i \in at THEN line[i] ELSE <<>>]

\* The value a lookup shall find: of all keys that are in a section of that name (the
\* index-th one unless the index is -1), the first.  Or whether there is such a section.
Documented ==
    LET line == LinesRead(Lines(file))
        what == [i \in DOMAIN line |-> Meaning(line[i])]
        heads(i) == {j \in 1..i : what[j].kind = "section"}
        named == {i \in DOMAIN line : what[i].kind = "section" /\ what[i].name = query.section}
        occurrence(i) == Cardinality({j \in heads(i) : what[j].name = query.section}) - 1
        inSection(i) ==
            IF query.section = <<>> THEN heads(i) = {}
            ELSE /\ heads(i) # {} /\ what[Max(heads(i))].name = query.section
                 /\ query.index \in {-1, occurrence(i)}
        hits == {i \in DOMAIN line : what[i].kind = "key" /\ what[i].key = query.key /\ inSection(i)}
    IN  IF query.key = <<>>
        THEN IF Cardinality(named) > query.index THEN Exists ELSE NotFound
        ELSE IF hits = {} THEN NotFound ELSE what[Min(hits)].value

-----------------------------------------------------------------------------
(* Properties *)

\* The pointers stay inside the memory of the file and its two terminators, and the
\* list never grows past what has been read (conf.c:207-208).
TypeOK ==
    /\ s \in DOMAIN mem /\ d \in 0 .. Len(file) + 2
    /\ pc \in {"load", "failed", "line", "switch", "value", "quoted", "rest", "find", "found", "done"}
    /\ pc \in {"line", "switch", "value", "quoted"} => d <= s + 1
    /\ m \in BOOLEAN

\* Writing the list over the text loses none of the text: a lookup finds what conf.h
\* says the file says, whatever was written where, and a line without its closing bracket
\* or quotation mark costs the next line only (conf.c:55-60, 84, 146, conf.h).
FoundAsDocumented == pc = "done" => result = Documented

\* The number or the truth of a value as conf.h promises it, and the default for a key
\* that is not there.
ValueOf(said) ==
    CASE query.as = "exists" -> IF said = NotFound THEN 0 ELSE -1
      [] query.as # "exists" /\ said = NotFound -> Default
      [] query.as = "int" /\ said # NotFound -> Number(said)
      [] query.as = "bool" /\ said # NotFound -> IF said = <<"yes">> \/ Number(said) # 0 THEN -1 ELSE 0

\* What the caller gets: its default if and only if the key is not there, otherwise the
\* number or the truth of the value the file says, an empty one included
\* (conf.c:325-369).
ValueAsDocumented ==
    pc = "done" /\ query.key # <<>> /\ query.as # "str" => value = ValueOf(Documented)

\* The parser comes to the end of every file, and a lookup to the end of the list.
ParseEnds == <>(pc \in {"done", "failed"})
=============================================================================
