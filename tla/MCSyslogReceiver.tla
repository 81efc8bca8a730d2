-------------------------- MODULE MCSyslogReceiver --------------------------
\* SyslogReceiver with a few lines of every kind.
EXTENDS SyslogReceiver

Bytes == {"a", Quote, Backslash, "]"}

Loggers == {<<>>} \cup BoundedSeq(Bytes, 2)

Messages == {<<"a">>, <<"a", " ", "[">>, <<Bom, "a">>, <<"-", Break, Break>>,
             <<"a", "a", "a", "a", "a", "a">>, <<"a", "L", "C", "a", "a", "a">>,
             <<"L", "C", "L", "C", "a", "a">>, <<"a", Break, "L", "C", "L", "C", Break>>}

Entries == [category : {<<>>}, logger : Loggers, message : {<<"a">>},
            time : {"t1"}, level : {"INFO"}]
           \cup [category : {<<"c">>}, logger : {<<>>}, message : Messages,
                 time : {"t1"}, level : {"ERROR"}]
           \cup [category : {<<>>}, logger : {<<>>}, message : {<<"a">>},
                 time : {"t1", "year 10000"}, level : Level]

Collectors == {[component |-> <<"a">>, instance |-> <<"a">>],
               [component |-> <<"a">>, instance |-> <<"a", " ", "L", "C", "b">>],
               [component |-> <<"C", "b">>, instance |-> <<>>]}

\* Every entry from one source, every source and name with one entry.
MCForwarded ==
    (Entries \X {CHOOSE s \in Collectors : s.instance = <<"a">>} \X {<<>>})
    \cup ({CHOOSE e \in Entries : e.logger = <<"]">>} \X Collectors \X {<<>>, <<"a", "]">>, <<Backslash>>})

Line(pri, rest) == [pri |-> pri, line |-> rest]
Head6(time, host, app) == <<"1", " ", time, " ", host, " ", app, " ", "-", " ", "-", " ">>
MCOthers ==
    {Line(134, Head6("-", "a", "a") \o <<"-", " ", "a">>),
     Line(134, Head6("t1", "-", "-") \o <<"-">>),
     Line(191, Head6("-", "a", "a") \o <<"[", "id", "]", "[", "x", " ", "k", "=", Quote, "]", Quote, "]", " ", "a">>),
     Line(192, Head6("-", "a", "a") \o <<"-">>),
     Line(134, Head6("-", "a", "a")),
     Line(134, Head6("-", "a", "a") \o <<"[", "x">>),
     Line(134, Head6("-", "a", "a") \o <<"[", "x", "]", "a">>),
     Line(134, Head6("-", "a", "a") \o <<"a">>),
     Line(134, <<"1", " ", "-", " ", "a">>),
     Line(134, <<"2", " ", "-", " ", "a", " ", "a", " ", "-", " ", "-", " ", "-">>)}

MCAddress == <<"ip">>
MCShipping == {<<<<"a">>, <<"a">>>>}
=============================================================================
