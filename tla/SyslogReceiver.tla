--------------------------- MODULE SyslogReceiver ---------------------------
(***************************************************************************)
(* internal/syslog/receiver.go: what becomes of one datagram, from the     *)
(* read to the call of the writer's Add, with the cache of source ids over *)
(* the store's sources table. The datagrams are the lines of satellites,   *)
(* garbage, and the lines of another collector that forwards over UDP.     *)
(* Socket, context and the writer behind Add are in Collector.             *)
(***************************************************************************)
EXTENDS SyslogLine, FiniteSets, Functions

CONSTANTS
    MaxSources,      \* maxSources
    Forwarded,       \* external: what another collector forwards, <<entry, source, name>>
    Others,          \* external: other datagrams
    Address,         \* the sender's IP, as text
    Shipping,        \* external: components that also ship, <<component, instance>>
    StoreFails,      \* may UpsertSource return an error?
    None             \* no value

VARIABLES
    sources,    \* the sources table: component and instance to id and version
    ids,        \* r.ids
    packet,     \* the datagram in hand: what it was made from, and its bytes
    rpc,        \* where Run is: reading, parsing, in sourceID, adding
    id,         \* the source id handle got from sourceID
    added       \* history: the last entry Add was called with, and its datagram

vars == <<sources, ids, packet, rpc, id, added>>

\* An IP has a text, and Ship refuses a hello without component (server.go:58).
ASSUME ReceiverAssumption ==
    /\ MaxSources \in Nat \ {0}
    /\ StoreFails \in BOOLEAN
    /\ Address # <<>>
    /\ \A key \in Shipping : key[1] # <<>>

\* What a collector forwards is text, and a timestamp has no blank in it.
ASSUME ForwardedAssumption ==
    \A o \in Forwarded :
        /\ o[1].level \in Level /\ o[1].time \in STRING \ {" "}
        /\ {o[1].category, o[1].logger, o[1].message, o[2].component, o[2].instance, o[3]}
              \subseteq Seq(STRING)

Ids == Nat \ {0}   \* INTEGER PRIMARY KEY

Init ==
    /\ sources = <<>> /\ ids = <<>>
    /\ packet = None /\ rpc = "read" /\ id = 0 /\ added = None
-----------------------------------------------------------------------------
(* The store's sources table. Nothing ever deletes from it.                *)

Put(f, key, value) ==
    [k \in DOMAIN f \cup {key} |-> IF k = key THEN value ELSE f[k]]

\* UpsertSource: a new row, or the old one with another version.
Upserted(key, version) ==
    IF key \in DOMAIN sources THEN [sources EXCEPT ![key].version = version]
    ELSE Put(sources, key, [id |-> Cardinality(DOMAIN sources) + 1, version |-> version])

\* A component that ships announces itself and its version (Ship).
Announce(key) ==
    /\ sources' = Upserted(key, "announced")
    /\ UNCHANGED <<ids, packet, rpc, id, added>>
-----------------------------------------------------------------------------
(* Run and handle.                                                         *)

\* ReadFrom returns a datagram, any of those sent, in any order.
Read(from, d) ==
    /\ rpc = "read"
    /\ packet' = [from |-> from, datagram |-> d]
    /\ rpc' = "parse" /\ added' = None
    /\ UNCHANGED <<sources, ids, id>>

ReadForwarded == \E o \in Forwarded : Read(o, Format(o[1], o[2], o[3]))
ReadOther == \E d \in Others : Read(None, d)

Message == Parse(packet.datagram)

\* A malformed datagram is counted for the log and dropped.
HandleMalformed ==
    /\ rpc = "parse" /\ ~Message.ok
    /\ rpc' = "read" /\ packet' = None
    /\ UNCHANGED <<sources, ids, id, added>>

HandleParsed ==
    /\ rpc = "parse" /\ Message.ok
    /\ rpc' = "source"
    /\ UNCHANGED <<sources, ids, packet, id, added>>

FallbackComponent == <<"syslog">>
AsItIs(s, default) == s                                               \* mutant
OrElse(s, default) == IF s = <<>> THEN default ELSE s

\* Component and instance of the message in hand.
KeyOf(m) == <<OrElse(m.appName, FallbackComponent), OrElse(m.hostname, Address)>>

Missed(key) == FALSE                                                   \* mutant
Cached(key) == key \in DOMAIN ids

\* sourceID finds the key in the cache ...
Known ==
    /\ rpc = "source" /\ Cached(KeyOf(Message))
    /\ id' = ids[KeyOf(Message)]
    /\ rpc' = "add"
    /\ UNCHANGED <<sources, ids, packet, added>>

OneMoreFits == Cardinality(DOMAIN ids) > MaxSources                    \* mutant
CacheFull == Cardinality(DOMAIN ids) >= MaxSources

\* ... or registers the source, without a version, and empties a full cache.
Register ==
    /\ rpc = "source" /\ ~Cached(KeyOf(Message))
    /\ LET key  == KeyOf(Message)
           kept == IF CacheFull THEN <<>> ELSE ids
       IN /\ sources' = Upserted(key, "empty")
          /\ id' = sources'[key].id
          /\ ids' = Put(kept, key, id')
    /\ rpc' = "add"
    /\ UNCHANGED <<packet, added>>

\* UpsertSource fails: the message is dropped.
RegisterFails ==
    /\ StoreFails /\ rpc = "source" /\ ~Cached(KeyOf(Message))
    /\ rpc' = "read" /\ packet' = None
    /\ UNCHANGED <<sources, ids, id, added>>

LevelFor(severity) ==
    CASE severity <= 2 -> "CRITICAL" [] severity = 3 -> "ERROR"
      [] severity = 4 -> "WARNING"   [] severity \in {5, 6} -> "INFO"
      [] OTHER -> "DEBUG"

\* Add, with the time of arrival if the message has none.
AddEntry ==
    /\ rpc = "add"
    /\ added' = [from   |-> packet.from,
                 source |-> id,
                 time   |-> IF Message.time = {} THEN "arrival"
                            ELSE CHOOSE t \in Message.time : TRUE,
                 level  |-> LevelFor(Message.severity),
                 text   |-> Message.text]
    /\ rpc' = "read" /\ packet' = None /\ id' = 0
    /\ UNCHANGED <<sources, ids>>

Receiver == ReadForwarded \/ ReadOther \/ HandleMalformed \/ HandleParsed
            \/ Known \/ Register \/ RegisterFails \/ AddEntry

Next == Receiver \/ \E key \in Shipping : Announce(key)

Spec == Init /\ [][Next]_vars
-----------------------------------------------------------------------------
(* Properties.                                                             *)

\* Shapes; a source always has a component, whatever a header left out.
TypeOK ==
    /\ rpc \in {"read", "parse", "source", "add"}
    /\ rpc # "read" => packet.from \in Forwarded \cup {None}
    /\ id \in Nat
    /\ \A key \in DOMAIN sources : key[1] # <<>>
    /\ sources \in [DOMAIN sources -> [id : Ids, version : {"empty", "announced"}]]
    /\ \A key \in DOMAIN ids : ids[key] \in Ids

\* receiver.go:18: the cache stays within its bound, and what it holds is true:
\* each cached id is the one the table has for that component and instance,
\* whatever was registered, emptied and registered again in between.
CacheTrue ==
    /\ Cardinality(DOMAIN ids) <= MaxSources
    /\ \A key \in DOMAIN ids : key \in DOMAIN sources /\ sources[key].id = ids[key]

\* While the receiver has a source in its cache, its datagrams leave the version
\* alone that the source announced when it shipped. (Without, it is emptied:
\* receiver.go:129.)
KnownKeepsVersion ==
    [][\A key \in DOMAIN ids \cap DOMAIN sources :
          sources[key].version = "announced" => sources'[key].version = "announced"]_vars

\* No character is cut in half.
WholeCharacters(s) ==
    \A i \in DOMAIN s : /\ s[i] = "L" => i < Len(s) /\ s[i + 1] = "C"
                        /\ s[i] = "C" => i > 1 /\ s[i - 1] = "L"

\* The names of a forwarded entry's source, made printable, with a fallback for
\* one that is missing or "-".
SourceNames(s) ==
    <<OrElse(NilValue(NameField(s.component, MaxAppName)), FallbackComponent),
      OrElse(NilValue(NameField(s.instance, MaxHostname)), Address)>>

\* format.go and parse.go are two halves of one format
\* (TestFormatIsReadBackByTheReceiver, for all inputs): what the forwarder writes
\* is never malformed to the receiver, whatever bytes the logger, the display
\* name, the instance and the message hold, and it is stored under the names of
\* the source it came from and no other, through the cache or not. Time, level
\* and text come back, except for what the format cannot carry: a level that was
\* not said, a time RFC 3339 does not know, a byte order mark before the text; a
\* text over the limit is a prefix in whole characters and "..." .
ReadBack ==
    /\ rpc = "parse" /\ packet.from # None => Message.ok
    /\ added # None /\ added.from # None =>
        LET e       == added.from[1]
            message == WithoutBom(NoBreakAtEnd(e.message))
        IN /\ {key \in DOMAIN sources : sources[key].id = added.source}
                  = {SourceNames(added.from[2])}
           /\ added.level = IF e.level = "UNSPECIFIED" THEN "INFO" ELSE e.level
           /\ added.time = IF e.time \in Stamps THEN e.time ELSE "arrival"
           /\ \/ added.text = NoBreakAtEnd(message)
              \/ /\ Len(e.message) > MaxText
                 /\ Len(added.text) <= MaxText
                 /\ WholeCharacters(e.message) => WholeCharacters(added.text)
                 /\ IsSuffix(Truncated, added.text)
                 /\ IsPrefix(SubSeq(added.text, 1, Len(added.text) - 3), message)
=============================================================================
