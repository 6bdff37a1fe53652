-------------------------------- MODULE URLs --------------------------------
(***************************************************************************)
(* URL and URLSearchParams (web_url_record.go, web_url.go).                *)
(*                                                                         *)
(* A URL keeps its components apart, and joins them into text and parses   *)
(* them again whenever it is printed, resolved or set; and it has a second *)
(* copy of its query, the list of its search parameters, which each        *)
(* operation on either one brings up to date.  An append holds the list's  *)
(* array while its arguments are evaluated, and they may run the program.  *)
(*                                                                         *)
(* A text is a sequence of tokens: delimiters, words, and characters that  *)
(* have an escape.  The letters of words and other schemes are left out.   *)
(***************************************************************************)
EXTENDS Naturals, Sequences, FiniteSets, SequencesExt, FiniteSetsExt, Functions

CONSTANTS
    Inputs,         \* texts given to the constructor and to href
    Relatives,      \* texts resolved against a URL
    Protocols, Hosts, Ports, Pathnames, Searches, Hashes,   \* given to setters
    Words,          \* names and values of parameters
    MaxEntries      \* bound: parameters in a list

VARIABLES
    url,        \* the record: $scheme, $hostname, $port, ..., $fragment
    entries,    \* $entries of its $searchParams, as pairs
    owned,      \* whether the parameters have a $url
    appending   \* the array an append holds: "none", the "current" or a "stale" one

vars == <<url, entries, owned, appending>>

Canonical == [s \in {"http", "https", "HTTP"} |-> IF s = "https" THEN "https" ELSE "http"]
Lower(t) == [i \in DOMAIN t |-> IF t[i] = "H" THEN "h" ELSE t[i]]
Escape == [c \in {"&", "=", "#", " "} |->
             CASE c = "&" -> "%26" [] c = "=" -> "%3D" [] c = "#" -> "%23" [] c = " " -> "+"]
Unescape == AntiFunction(Escape)
Mapped(t, f) == [i \in DOMAIN t |-> IF t[i] \in DOMAIN f THEN f[t[i]] ELSE t[i]]

-----------------------------------------------------------------------------
(* The place of the first of some tokens from a place on, or after the end. *)
First(t, S, from) == Min({i \in from .. Len(t) : t[i] \in S} \cup {Len(t) + 1})
From(t, i) == SubSeq(t, i, Len(t))
Prefixed(mark, t) == IF t = <<>> THEN t ELSE mark \o t

Split(t, mark) ==
    LET ends == SetToSortSeq({i \in DOMAIN t : t[i] = mark} \cup {0, Len(t) + 1}, <)
    IN [k \in 1 .. Len(ends) - 1 |-> SubSeq(t, ends[k] + 1, ends[k + 1] - 1)]
Joined(ts, mark) ==
    FlattenSeq([i \in DOMAIN ts |-> IF i = 1 THEN ts[i] ELSE mark \o ts[i]])

NormalizePort(scheme, port) ==
    IF <<scheme, port>> \in {<<"http", <<"80">>>>, <<"https", <<"443">>>>} THEN <<>> ELSE port

(* A dot is dropped and two dots drop the segment before them; one of them *)
(* at the end leaves an empty segment.                                     *)
NormalizePath(path) ==
    LET segments == Tail(Split(path, "/"))
        Step(kept, i) ==
            LET s == segments[i]
                rest == IF s = <<"..">> /\ kept # <<>> THEN Front(kept) ELSE kept
            IN CASE s \notin {<<".">>, <<"..">>} -> Append(kept, s)
                 [] i = Len(segments) -> Append(rest, <<>>)
                 [] OTHER -> rest
    IN <<"/">> \o Joined(FoldLeft(Step, <<>>, [i \in DOMAIN segments |-> i]), <<"/">>)

(* The colon before the port: the first one, or the one after a bracket.   *)
PortColon(host) ==
    LET close == First(host, {"]"}, 1) IN
    IF host[1] # "[" THEN First(host, {":"}, 1) ELSE close + 1

ParseRecord(t) ==
    LET colon == First(t, {":"}, 1)
        scheme == SubSeq(t, 1, colon - 1)
        start == colon + 3
        end == First(t, {"/", "?", "#"}, start)
        authority == SubSeq(t, start, end - 1)
        at == PortColon(authority)
        question == First(t, {"?"}, end)
        hash == First(t, {"#"}, end)
        path == SubSeq(t, end, Min({question, hash}) - 1)
    IN IF /\ Len(scheme) = 1 /\ scheme[1] \in DOMAIN Canonical
          /\ IsPrefix(<<"/", "/">>, From(t, colon + 1))
          /\ authority # <<>>
          /\ authority[1] = "[" => /\ "]" \in Range(authority)
                                   /\ at <= Len(authority) => authority[at] = ":"
          /\ at > 1
       THEN {[scheme |-> Canonical[scheme[1]],
              hostname |-> Lower(SubSeq(authority, 1, at - 1)),
              port |-> NormalizePort(Canonical[scheme[1]], From(authority, at + 1)),
              pathname |-> NormalizePath(IF path # <<>> THEN path ELSE <<"/">>),
              query |-> IF question < hash THEN SubSeq(t, question + 1, hash - 1) ELSE <<>>,
              fragment |-> From(t, hash + 1)]}
       ELSE {}

Origin(u) == <<u.scheme, ":", "/", "/">> \o u.hostname \o Prefixed(<<":">>, u.port)
Search(u) == Prefixed(<<"?">>, u.query)
Href(u) == Origin(u) \o u.pathname \o Search(u) \o Prefixed(<<"#">>, u.fragment)

(* The text of an input that may be relative to a URL. *)
ResolveInput(t, base) ==
    LET colon == First(t, {":"}, 1)
        delimiter == First(t, {"/", "?", "#"}, 1)
        directory == SubSeq(base.pathname, 1, Max({i \in DOMAIN base.pathname : base.pathname[i] = "/"}))
    IN CASE colon > 1 /\ colon < delimiter -> t
         [] IsPrefix(<<"/", "/">>, t) -> <<base.scheme, ":">> \o t
         [] ~IsPrefix(<<"/", "/">>, t) /\ IsPrefix(<<"/">>, t) -> Origin(base) \o t
         [] IsPrefix(<<"?">>, t) -> Origin(base) \o base.pathname \o t
         [] t = <<>> \/ IsPrefix(<<"#">>, t) -> Origin(base) \o base.pathname \o Search(base) \o t
         [] OTHER -> Origin(base) \o directory \o t

ParseParams(t) ==
    LET pieces == SelectSeq(Split(t, "&"), LAMBDA p : p # <<>>) IN
    [i \in DOMAIN pieces |->
        LET eq == First(pieces[i], {"="}, 1) IN
        <<Mapped(SubSeq(pieces[i], 1, eq - 1), Unescape), Mapped(From(pieces[i], eq + 1), Unescape)>>]

Serialize(ps) ==
    Joined([i \in DOMAIN ps |-> Mapped(ps[i][1], Escape) \o <<"=">> \o Mapped(ps[i][2], Escape)], <<"&">>)

-----------------------------------------------------------------------------
NoURL == [scheme |-> "none", hostname |-> <<>>, port |-> <<>>, pathname |-> <<"/">>,
          query |-> <<>>, fragment |-> <<>>]

(* new URL, or new URLSearchParams; an invalid input throws. *)
Init ==
    /\ owned \in BOOLEAN
    /\ IF owned
       THEN \E t \in Inputs : url \in ParseRecord(t) /\ entries = ParseParams(url.query)
       ELSE url = NoURL /\ \E t \in Searches : entries = ParseParams(t)
    /\ appending = "none"

(* What the parameters answer: the value of the first pair with a name, and *)
(* of each.                                                                *)
ParamsHas(ps, name) == \E i \in DOMAIN ps : ps[i][1] = name
ParamsGet(ps, name) ==
    IF ParamsHas(ps, name) THEN ps[Min({i \in DOMAIN ps : ps[i][1] = name})][2] ELSE "null"
ParamsGetAll(ps, name) ==
    LET found == SelectSeq(ps, LAMBDA p : p[1] = name) IN [i \in DOMAIN found |-> found[i][2]]

Fits(ps) == Len(ps) <= MaxEntries
SetField(u) == url' = u
Replaced == appending' = IF appending = "none" THEN "none" ELSE "stale"

(* Mutant of SyncOwner: the query of the URL stays. *)
SyncOwnerKeepsQuery(ps) ==
    /\ Fits(ps)
    /\ entries' = ps
    /\ UNCHANGED url

(* The parameters have changed: the query of their URL follows. *)
SyncOwner(ps) ==
    /\ Fits(ps)
    /\ entries' = ps
    /\ url' = IF owned THEN [url EXCEPT !.query = Serialize(ps)] ELSE url

(* The query has changed: its parameters are a new array. *)
Replace(u) ==
    /\ owned /\ Fits(ParseParams(u.query))
    /\ SetField(u)
    /\ entries' = ParseParams(u.query)
    /\ Replaced

SetHref(t) == \E u \in ParseRecord(t) : Replace(u)

(* new URL(t, this), put in this's place. *)
Resolve(t) == \E u \in ParseRecord(ResolveInput(t, url)) : Replace(u)

StripLeading(t, mark) == IF IsPrefix(mark, t) THEN Tail(t) ELSE t

SetSearch(t) == Replace([url EXCEPT !.query = StripLeading(t, <<"?">>)])

SetHash(t) == SetField([url EXCEPT !.fragment = StripLeading(t, <<"#">>)])

SetPathname(t) ==
    SetField([url EXCEPT !.pathname =
                NormalizePath(IF IsPrefix(<<"/">>, t) THEN t ELSE <<"/">> \o t)])

SetProtocol(t) ==
    LET s == IF t # <<>> /\ Last(t) = ":" THEN Front(t) ELSE t IN
    IF Len(s) = 1 /\ s[1] \in DOMAIN Canonical
    THEN SetField([url EXCEPT !.scheme = Canonical[s[1]],
                              !.port = NormalizePort(Canonical[s[1]], @)])
    ELSE UNCHANGED url

ValidPort(t) == Len(t) = 1 /\ t[1] \in {"80", "443", "8080"}
WithPort(u, t) ==
    CASE t = <<>> -> [u EXCEPT !.port = <<>>]
      [] ValidPort(t) -> [u EXCEPT !.port = NormalizePort(u.scheme, t)]
      [] OTHER -> u

WithHostname(u, t) ==
    IF t # <<>> /\ Range(t) \cap {"/", ":", "?", "#", "@", " "} = {}
    THEN [u EXCEPT !.hostname = Lower(t)] ELSE u

SetPort(t) == SetField(WithPort(url, t))
SetHostname(t) == SetField(WithHostname(url, t))

SetHost(t) ==
    LET colon == First(t, {":"}, 1) IN
    IF colon <= Len(t)
    THEN SetField(WithPort(WithHostname(url, SubSeq(t, 1, colon - 1)), From(t, colon + 1)))
    ELSE SetField([WithHostname(url, t) EXCEPT !.port = <<>>])

-----------------------------------------------------------------------------
(* append takes the array, evaluates its arguments, and pushes them. *)
AppendBegins ==
    /\ appending = "none"
    /\ appending' = "current"
    /\ UNCHANGED <<url, entries>>

AppendEnds(name, value) ==
    /\ appending # "none"
    /\ SyncOwner(IF appending = "current" THEN Append(entries, <<name, value>>) ELSE entries)
    /\ appending' = "none"

(* delete and set build a new array: set puts its pair in the place of the *)
(* first with its name, or last.                                           *)
Rebuild(name, replacement) ==
    LET found == {i \in DOMAIN entries : entries[i][1] = name}
        kept == [i \in DOMAIN entries |->
                    CASE i \notin found -> <<entries[i]>>
                      [] found # {} /\ i = Min(found) -> replacement
                      [] OTHER -> <<>>]
    IN /\ SyncOwner(FlattenSeq(kept) \o (IF found = {} THEN replacement ELSE <<>>))
       /\ Replaced

Delete(name) == Rebuild(name, <<>>)
Set(name, value) == Rebuild(name, << <<name, value>> >>)

(* An insertion sort by name, in place and stable. *)
Before(a, b) == \/ a[1] = <<>> /\ b[1] # <<>>
                \/ a[1] = <<"a">> /\ b[1] \notin {<<>>, <<"a">>}
Sort ==
    LET order == SetToSortSeq(DOMAIN entries,
                    LAMBDA i, j : \/ Before(entries[i], entries[j])
                                  \/ ~Before(entries[j], entries[i]) /\ i < j)
    IN SyncOwner([i \in DOMAIN entries |-> entries[order[i]]])

Next ==
    /\ \/ \E t \in Inputs : SetHref(t)
       \/ \E t \in Relatives : owned /\ Resolve(t)
       \/ \E t \in Searches : SetSearch(t)
       \/ /\ owned
          /\ \/ \E t \in Hashes : SetHash(t)
             \/ \E t \in Pathnames : SetPathname(t)
             \/ \E t \in Protocols : SetProtocol(t)
             \/ \E t \in Ports : SetPort(t)
             \/ \E t \in Hosts : SetHostname(t) \/ SetHost(t)
          /\ UNCHANGED <<entries, appending>>
       \/ AppendBegins
       \/ \E n, v \in Words : AppendEnds(n, v) \/ Set(n, v)
       \/ \E n \in Words : Delete(n)
       \/ Sort /\ UNCHANGED appending
    /\ UNCHANGED owned

Spec == Init /\ [][Next]_vars

-----------------------------------------------------------------------------
TypeOK ==
    /\ url.scheme \in {"http", "https", "none"}
    /\ \A i \in DOMAIN entries : Len(entries[i]) = 2
    /\ Fits(entries)
    /\ owned \in BOOLEAN
    /\ appending \in {"none", "current", "stale"}

(* The components a setter can put in a URL that its text cannot hold: a   *)
(* delimiter in a path or a query, and a bracket that is not closed.       *)
Expressible(u) ==
    /\ Range(u.pathname) \cap {"?", "#"} = {}
    /\ "#" \notin Range(u.query)
    /\ u.hostname[1] = "[" => Last(u.hostname) = "]"

(* The meaning of a relative text from its own components. *)
Meaning(t, base) ==
    LET question == First(t, {"?"}, 1)
        hash == First(t, {"#"}, 1)
        path == SubSeq(t, 1, Min({question, hash}) - 1)
        query == IF question < hash THEN SubSeq(t, question + 1, hash - 1) ELSE <<>>
        directory == Joined(Front(Split(base.pathname, "/")), <<"/">>) \o <<"/">>
        merged == CASE path = <<>> -> base.pathname
                    [] path # <<>> /\ path[1] = "/" -> path
                    [] OTHER -> directory \o path
    IN [base EXCEPT !.pathname = NormalizePath(merged),
                    !.query = IF path = <<>> /\ question >= hash THEN @ ELSE query,
                    !.fragment = From(t, hash + 1)]

(* Whichever of the two copies of the query the program changes, and also  *)
(* when it changes one while it evaluates the arguments of an append to    *)
(* the other, the parameters are those of the query and answer as it says. *)
(* The text of a URL whose components it can hold parses to the same URL,  *)
(* never with the default port of its scheme; and text relative to it      *)
(* gives the URL that follows from its components.                         *)
URLAgrees ==
    owned =>
        /\ entries = ParseParams(url.query)
        /\ \A n \in Words :
              LET given == ParamsGetAll(ParseParams(url.query), n)
              IN /\ ParamsHas(entries, n) <=> given # <<>>
                 /\ ParamsGet(entries, n) = IF given = <<>> THEN "null" ELSE Head(given)
        /\ NormalizePort(url.scheme, url.port) = url.port
        /\ Expressible(url) =>
              /\ ParseRecord(Href(url)) = {url}
              /\ \A t \in Relatives :
                    ":" \notin Range(t) /\ ~IsPrefix(<<"/", "/">>, t) =>
                        ParseRecord(ResolveInput(t, url)) = {Meaning(t, url)}

=============================================================================
