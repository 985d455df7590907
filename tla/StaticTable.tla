------------------------------ MODULE StaticTable -----------------------------
(***************************************************************************)
(* hpack/table.rs, StaticTable: the 61 header fields that have an index    *)
(* from the start, <<name, value>>.                                        *)
(***************************************************************************)
EXTENDS Naturals, Sequences

Entries1 == <<
    <<":authority", "">>, <<":method", "GET">>, <<":method", "POST">>, <<":path", "/">>,
    <<":path", "/index.html">>, <<":scheme", "http">>, <<":scheme", "https">>,
    <<":status", "200">>, <<":status", "204">>, <<":status", "206">>, <<":status", "304">>,
    <<":status", "400">>, <<":status", "404">>, <<":status", "500">>,
    <<"accept-charset", "">>, <<"accept-encoding", "gzip, deflate">>,
    <<"accept-language", "">>, <<"accept-ranges", "">>, <<"accept", "">>,
    <<"access-control-allow-origin", "">>, <<"age", "">>, <<"allow", "">>,
    <<"authorization", "">>, <<"cache-control", "">>, <<"content-disposition", "">>,
    <<"content-encoding", "">>, <<"content-language", "">>, <<"content-length", "">>,
    <<"content-location", "">>, <<"content-range", "">>, <<"content-type", "">>>>
Entries32 == <<
    <<"cookie", "">>, <<"date", "">>, <<"etag", "">>, <<"expect", "">>, <<"expires", "">>,
    <<"from", "">>, <<"host", "">>, <<"if-match", "">>, <<"if-modified-since", "">>,
    <<"if-none-match", "">>, <<"if-range", "">>, <<"if-unmodified-since", "">>,
    <<"last-modified", "">>, <<"link", "">>, <<"location", "">>, <<"max-forwards", "">>,
    <<"proxy-authenticate", "">>, <<"proxy-authorization", "">>, <<"range", "">>,
    <<"referer", "">>, <<"refresh", "">>, <<"retry-after", "">>, <<"server", "">>,
    <<"set-cookie", "">>, <<"strict-transport-security", "">>, <<"transfer-encoding", "">>,
    <<"user-agent", "">>, <<"vary", "">>, <<"via", "">>, <<"www-authenticate", "">>>>
ENTRIES == Entries1 \o Entries32
StaticLen == Len(ENTRIES)

Least(at) == CHOOSE k \in at : \A j \in at : k <= j

\* find: the index of the field, or else of the first field with its name, or 0.
StaticFind(field) ==
    LET both == {k \in DOMAIN ENTRIES : ENTRIES[k] = field}
        name == {k \in DOMAIN ENTRIES : ENTRIES[k][1] = field[1]}
    IN [at    |-> IF both # {} THEN Least(both) ELSE IF name # {} THEN Least(name) ELSE 0,
        exact |-> both # {}]
===============================================================================
