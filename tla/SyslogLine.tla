----------------------------- MODULE SyslogLine -----------------------------
(***************************************************************************)
(* One RFC 5424 line: as the forwarder writes it (internal/forward/        *)
(* format.go) and as the receiver reads it (internal/syslog/parse.go).     *)
(* Text is a sequence of bytes. A byte that no code looks at stands for    *)
(* any of its kind; "L" and "C" are the first and the second byte of a     *)
(* character outside of ASCII. The digits of <PRI> are the number itself,  *)
(* the version, a timestamp, the byte order mark and the fixed names in    *)
(* the structured data are one byte each.                                  *)
(***************************************************************************)
EXTENDS Naturals, Sequences, SequencesExt

CONSTANTS
    MaxText,      \* maxText, in bytes
    MaxHostname,  \* maxHostname
    MaxAppName,   \* maxAppName
    Stamps        \* the timestamps that RFC 3339 can express

Quote     == "\""
Backslash == "\\"
Break     == "\n"     \* a carriage return or a line feed
Bom       == "BOM"
Truncated == <<".", ".", ".">>

ASSUME SyslogLineAssumption ==
    /\ MaxText \in Nat /\ MaxText >= Len(Truncated)
    /\ MaxHostname \in Nat \ {0} /\ MaxAppName \in Nat \ {0}
    /\ "-" \notin Stamps /\ " " \notin Stamps

NoBreakAtEnd(s) ==
    SubSeq(s, 1, SelectLastInSeq(s, LAMBDA c : c # Break))
-----------------------------------------------------------------------------
(* Format.                                                                 *)

Level == {"UNSPECIFIED", "DEBUG", "INFO", "WARNING", "ERROR", "CRITICAL"}

Severity(level) ==
    CASE level = "CRITICAL" -> 2 [] level = "ERROR" -> 3
      [] level = "WARNING"  -> 4 [] level = "DEBUG" -> 7
      [] OTHER -> 6

\* Printable US-ASCII without space, one "_" for any other character, and for any
\* byte that is not part of one.
NameByte(c) == IF c \in {" ", "L", "C", Break, Bom} THEN "_" ELSE c

\* First bytes, or whatever range takes for one.
Characters(s) ==
    FlattenSeq([i \in DOMAIN s |->
        IF s[i] = "C" /\ i > 1 /\ s[i - 1] = "L" THEN <<>> ELSE <<s[i]>>])

NameField(s, limit) ==
    LET chars == Characters(s) IN
    IF s = <<>> THEN <<"-">>
    ELSE [i \in 1..Min({limit, Len(chars)}) |-> NameByte(chars[i])]

EscapeQuotes(s) ==
    FlattenSeq([i \in DOMAIN s |->
        IF s[i] = Quote THEN <<Backslash, s[i]>> ELSE <<s[i]>>])        \* mutant
EscapeParam(s) ==
    FlattenSeq([i \in DOMAIN s |->
        IF s[i] \in {Backslash, Quote, "]"} THEN <<Backslash, s[i]>> ELSE <<s[i]>>])

Param(key, value) ==
    IF value = <<>> THEN <<>>
    ELSE <<" ", key, "=", Quote>> \o EscapeParam(value) \o <<Quote>>

\* The category is a name, empty if unspecified.
StructuredData(e, name) ==
    IF e.category = <<>> /\ e.logger = <<>> /\ name = <<>> THEN <<"-">>
    ELSE <<"[", "id">> \o Param("category", e.category)
                       \o Param("logger", e.logger) \o Param("name", name) \o <<"]">>

\* The last start of a character at or before the limit (from 0).
CutAt(s, limit) == Max({k \in 0..limit : k = 0 \/ s[k + 1] # "C"})

\* The message without its line break, cut at a character boundary.
Text(message) ==
    LET m == NoBreakAtEnd(message) IN
    IF Len(m) <= MaxText THEN m
    ELSE SubSeq(m, 1, CutAt(m, MaxText - Len(Truncated))) \o Truncated

\* time.Format writes what RFC 3339 cannot express as well (a year of five
\* digits); it is a timestamp outside of Stamps.
Format(e, source, name) ==
    [pri  |-> (16 * 8) + Severity(e.level),
     line |-> <<"1", " ", e.time, " ">> \o NameField(source.instance, MaxHostname)
              \o <<" ">> \o NameField(source.component, MaxAppName)
              \o <<" ", "-", " ", "-", " ">> \o StructuredData(e, name)
              \o <<" ">> \o Text(e.message)]
-----------------------------------------------------------------------------
(* Parse. A datagram without a <PRI> of one to three digits has a pri out  *)
(* of range; line is what follows it.                                      *)

FirstBlank(s) ==
    LET blanks == {i \in DOMAIN s : s[i] = " "} IN IF blanks = {} THEN 0 ELSE Min(blanks)

Cut(s) ==
    LET k == FirstBlank(s) IN
    [ok |-> k > 0, field |-> SubSeq(s, 1, k - 1), rest |-> SubSeq(s, k + 1, Len(s))]

\* VERSION TIMESTAMP HOSTNAME APP-NAME PROCID MSGID
Header(s) ==
    LET version  == Cut(s)
        time     == Cut(version.rest)
        hostname == Cut(time.rest)
        appName  == Cut(hostname.rest)
        procID   == Cut(appName.rest)
        msgID    == Cut(procID.rest)
    IN [ok       |-> \A cut \in {version, time, hostname, appName, procID, msgID} : cut.ok,
        version  |-> version.field,  time    |-> time.field,
        hostname |-> hostname.field, appName |-> appName.field,
        rest     |-> msgID.rest]

\* What one byte does to [at, quoted, pos]: pos bytes are elements; at tells
\* whether the next byte may open an element, is in one, is escaped in one, or
\* is behind the last.
Element(st, c) ==
    LET next == [st EXCEPT !.pos = @ + 1] IN
    CASE st.at = "between" ->
            IF c = "[" THEN [at |-> "inside", quoted |-> FALSE, pos |-> next.pos]
            ELSE [st EXCEPT !.at = "behind"]
      [] st.at = "inside" ->
            IF c = Backslash THEN [next EXCEPT !.at = "escaped"]
            ELSE IF c = Quote THEN [next EXCEPT !.quoted = ~@]
            ELSE IF c = "]" /\ ~st.quoted THEN [next EXCEPT !.at = "between"]
            ELSE next
      [] st.at = "escaped" -> [next EXCEPT !.at = "inside"]
      [] OTHER -> st

Start == [at |-> "between", quoted |-> FALSE, pos |-> 0]

SkipStructuredData(s) ==
    LET after[k \in 0..Len(s)] == IF k = 0 THEN Start ELSE Element(after[k - 1], s[k])
        end == after[Len(s)]
    IN IF s # <<>> /\ Head(s) = "-" THEN [ok |-> TRUE, rest |-> Tail(s)]
       ELSE [ok   |-> end.pos > 0 /\ end.at \in {"between", "behind"},
             rest |-> SubSeq(s, end.pos + 1, Len(s))]

NilValue(s) == IF s = <<"-">> THEN <<>> ELSE s

WithoutBom(s) == IF s # <<>> /\ Head(s) = Bom THEN Tail(s) ELSE s

Parse(d) ==
    LET h  == Header(d.line)
        sd == SkipStructuredData(h.rest)
    IN [ok       |-> /\ d.pri \in 0..191
                     /\ h.ok /\ h.version = <<"1">>
                     /\ sd.ok /\ (sd.rest = <<>> \/ Head(sd.rest) = " "),
        severity |-> d.pri % 8,
        time     |-> {t \in Stamps : h.time = <<t>>},   \* empty: none
        hostname |-> NilValue(h.hostname),
        appName  |-> NilValue(h.appName),
        text     |-> IF sd.rest = <<>> THEN <<>>
                     ELSE NoBreakAtEnd(WithoutBom(Tail(sd.rest)))]
=============================================================================
