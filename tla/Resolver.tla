------------------------------ MODULE Resolver ------------------------------
(***************************************************************************)
(* From a host to an address (net_amd64.go, net_ipv6_amd64.go,             *)
(* net_dns_amd64.go): the parsers of IPv4 and IPv6 addresses, and the      *)
(* lookup that tries a dotted address, localhost, /etc/hosts and the first *)
(* nameserver of /etc/resolv.conf, which it asks once.                     *)
(*                                                                         *)
(* A text is a sequence of characters.  A file is a sequence of texts,     *)
(* some of them marks; white space and the bound on a file's size are left *)
(* out.  A DNS reply is the bytes after its header.                        *)
(***************************************************************************)
EXTENDS Integers, Sequences, FiniteSets, SequencesExt, FiniteSetsExt, Functions

CONSTANTS
    Hosts,          \* texts programs ask for
    Texts,          \* texts the parsers are checked on
    HostsFiles,     \* contents of /etc/hosts, by lines [before, after]
    ConfFiles,      \* contents of resolv.conf, by lines [comment, server]
    Replies,        \* replies of servers: [id, rcode, question, answers, length]
    Octets,         \* octets of an IPv4 address (4 in the code)
    Groups,         \* groups of an IPv6 address (8)
    GroupDigits,    \* digits of a group (4)
    LabelLimit,     \* characters of a label of a name (63)
    MaxTries        \* receives before the lookup gives up (2000)

ResolverAssumption ==
    {Octets, Groups, GroupDigits, LabelLimit, MaxTries} \subseteq Nat \ {0}

VARIABLES
    text,       \* the text of the parsers
    host,       \* the text of the lookup
    hosts,      \* this machine's /etc/hosts
    conf,       \* this machine's /etc/resolv.conf
    pc,         \* the place in the lookup
    udp,        \* "none", "open" or "closed", and the closes of it
    server,     \* the nameserver asked
    tries,      \* receives so far, R13
    aborted,    \* whether the abort signal has aborted
    reply,      \* the reply being read
    pos,        \* the place in it
    answers,    \* answers left in it
    result,     \* the address, or nothing
    why         \* history: how the lookup ended

vars == <<text, host, hosts, conf, pc, udp, server, tries, aborted, reply, pos, answers, result, why>>

Nothing == <<>>
Value == [d \in {"1", "2", "9", "a"} |-> CASE d = "1" -> 1 [] d = "2" -> 2 [] d = "9" -> 9 [] d = "a" -> 10]
Decimal == {"1", "2", "9"}
Hex == DOMAIN Value
Loopback == [i \in 1 .. Octets |-> IF i = 1 THEN 127 ELSE IF i = Octets THEN 1 ELSE 0]

-----------------------------------------------------------------------------
(* Dotted addresses.  A dot needs a digit before it and room after it. *)
Dotted(s, ch) ==
    CASE ~s.ok -> s
      [] ch = "." /\ s.digits > 0 /\ Len(s.octets) < Octets - 1 ->
            [s EXCEPT !.octets = Append(@, s.value), !.value = 0, !.digits = 0]
      [] ch \in Decimal /\ 10 * s.value + Value[ch] <= 255 ->
            [s EXCEPT !.value = 10 * @ + Value[ch], !.digits = @ + 1]
      [] OTHER -> [s EXCEPT !.ok = FALSE]

ParseIPv4(t) ==
    LET s == FoldLeft(Dotted, [octets |-> <<>>, value |-> 0, digits |-> 0, ok |-> TRUE], t)
    IN IF s.ok /\ s.digits > 0 /\ Len(s.octets) = Octets - 1
       THEN Append(s.octets, s.value) ELSE Nothing

(* Text between brackets.  A colon ends a group if there is one; a second  *)
(* colon after it marks the place of the zeros, and is skipped with it.    *)
Committed(s) ==
    IF s.digits = 0 THEN s
    ELSE IF Len(s.groups) = Groups THEN [s EXCEPT !.ok = FALSE]
    ELSE [s EXCEPT !.groups = Append(@, s.value), !.value = 0, !.digits = 0]

ColonAt(s, t, i) ==
    LET c == Committed(s) IN
    CASE ~c.ok -> c
      [] i < Len(t) /\ t[i + 1] = ":" ->
            IF c.gap = -1 THEN [c EXCEPT !.gap = Len(c.groups), !.skip = TRUE]
                          ELSE [c EXCEPT !.ok = FALSE]
      [] OTHER -> [c EXCEPT !.ok = s.digits > 0]

Coloned(t, s, i) ==
    CASE ~s.ok -> s
      [] s.skip -> [s EXCEPT !.skip = FALSE]
      [] t[i] = ":" -> ColonAt(s, t, i)
      [] t[i] \in Hex /\ s.digits < GroupDigits ->
            [s EXCEPT !.value = 16 * @ + Value[t[i]], !.digits = @ + 1]
      [] OTHER -> [s EXCEPT !.ok = FALSE]

Expanded(s) ==
    LET zeros == Groups - Len(s.groups) IN
    [i \in 1 .. Groups |->
        CASE i <= s.gap -> s.groups[i]
          [] i > s.gap /\ i <= s.gap + zeros -> 0
          [] OTHER -> s.groups[i - zeros]]

ParseIPv6(t) ==
    LET start == [groups |-> <<>>, value |-> 0, digits |-> 0, gap |-> -1, skip |-> FALSE, ok |-> TRUE]
        s == Committed(FoldLeft(LAMBDA a, i : Coloned(t, a, i), start, [i \in 1 .. Len(t) |-> i]))
    IN CASE Len(t) < 2 \/ ~s.ok -> Nothing
         [] s.gap = -1 -> IF Len(s.groups) = Groups THEN s.groups ELSE Nothing
         [] OTHER -> IF Len(s.groups) < Groups THEN Expanded(s) ELSE Nothing

-----------------------------------------------------------------------------
Hash == <<"#">>
Newline == <<"newline">>
Keyword == <<"nameserver">>

(* Files.  The lookup in /etc/hosts tries every token that is the host,    *)
(* walks back to the start of its line, which may meet no "#", and takes   *)
(* the first token of the line if that is an address.                      *)
HostsTokens(f) ==
    FlattenSeq([i \in 1 .. Len(f) |->
        f[i].before \o (IF f[i].after = <<>> THEN <<>> ELSE <<Hash>> \o f[i].after) \o <<Newline>>])

LineStart(ts, i) == Max({0} \cup {j \in 1 .. i - 1 : ts[j] = Newline}) + 1

LineAddress(ts, i) ==
    LET first == LineStart(ts, i) IN
    IF first < i /\ \A j \in first .. i - 1 : ts[j] # Hash THEN ParseIPv4(ts[first]) ELSE Nothing

HostsLookup(ts, h) ==
    LET found == {i \in 1 .. Len(ts) : ts[i] = h /\ LineAddress(ts, i) # Nothing}
    IN IF found = {} THEN Nothing ELSE LineAddress(ts, Min(found))

(* The word nameserver anywhere, with an IPv4 address after it. *)
ConfTokens(f) ==
    FlattenSeq([i \in 1 .. Len(f) |->
        (IF f[i].comment THEN <<Hash>> ELSE <<>>) \o <<Keyword, f[i].server, Newline>>])

FirstServer(ts) ==
    LET found == {i \in 1 .. Len(ts) - 1 : ts[i] = Keyword /\ ParseIPv4(ts[i + 1]) # Nothing}
    IN IF found = {} THEN Nothing ELSE ParseIPv4(ts[Min(found) + 1])

(* The query holds the labels of the host if none is too long. *)
QueryFits(h) ==
    \A i \in 1 .. Len(h) : \E j \in i .. i + LabelLimit : j = Len(h) + 1 \/ (j <= Len(h) /\ h[j] = ".")

-----------------------------------------------------------------------------
(* What a server makes, and the bytes of it that come. *)
RecordBytes(r) ==
    r.name \o <<0, r.type, 0, r.class, 0, 0, 0, 0, 0, Len(r.data)>> \o r.data
ReplyBytes(r) ==
    LET all == r.question \o <<0, 1, 0, 1>>
               \o FlattenSeq([i \in 1 .. Len(r.answers) |-> RecordBytes(r.answers[i])])
    IN SubSeq(all, 1, Min({r.length, Len(all)}))

NoReply == [id |-> FALSE, rcode |-> 0, question |-> <<>>, answers |-> <<>>, length |-> 0]

Init ==
    /\ text \in Texts
    /\ IF text = Nothing
       THEN host \in Hosts /\ hosts \in HostsFiles /\ conf \in ConfFiles /\ pc = "resolve"
       ELSE host = Nothing /\ hosts = <<>> /\ conf = <<>> /\ pc = "parsed"
    /\ udp = [state |-> "none", closes |-> 0]
    /\ server = Nothing
    /\ tries = 0
    /\ aborted = FALSE
    /\ reply = NoReply /\ pos = 0 /\ answers = 0
    /\ result = Nothing /\ why = "none"

inputs == <<text, host, hosts, conf>>
Finish(address, how) == pc' = "done" /\ result' = address /\ why' = how
CloseUDP == udp' = [state |-> "closed", closes |-> udp.closes + 1]

Resolve ==
    /\ pc = "resolve"
    /\ LET file == HostsLookup(HostsTokens(hosts), host) IN
       CASE ParseIPv4(host) # Nothing -> Finish(ParseIPv4(host), "numeric")
         [] host = <<"localhost">> -> Finish(Loopback, "localhost")
         [] host # <<"localhost">> /\ file # Nothing -> Finish(file, "hosts")
         [] OTHER -> pc' = "conf" /\ UNCHANGED <<result, why>>
    /\ UNCHANGED <<inputs, udp, server, tries, aborted, reply, pos, answers>>

ReadConf ==
    /\ pc = "conf"
    /\ server' = FirstServer(ConfTokens(conf))
    /\ IF server' = Nothing \/ ~QueryFits(host)
       THEN Finish(Nothing, "no query")
       ELSE pc' = "socket" /\ UNCHANGED <<result, why>>
    /\ UNCHANGED <<inputs, udp, tries, aborted, reply, pos, answers>>

(* socket and sendto; a failed sendto closes. *)
SendQuery ==
    /\ pc = "socket"
    /\ \/ Finish(Nothing, "error") /\ UNCHANGED udp
       \/ Finish(Nothing, "error") /\ CloseUDP
       \/ pc' = "receive" /\ udp' = [udp EXCEPT !.state = "open"] /\ UNCHANGED <<result, why>>
    /\ UNCHANGED <<inputs, server, tries, aborted, reply, pos, answers>>

(* Nothing has come: sleep for a millisecond, while the signal may abort,  *)
(* and look at the signal and the number of tries again.                   *)
TryAgain(signal) ==
    /\ pc = "receive"
    /\ aborted' = (aborted \/ signal)
    /\ tries' = tries + 1
    /\ IF aborted' \/ tries' >= MaxTries
       THEN /\ CloseUDP
            /\ Finish(Nothing, IF aborted' THEN "aborted" ELSE "timeout")
       ELSE UNCHANGED <<udp, pc, result, why>>
    /\ UNCHANGED <<inputs, server, reply, pos, answers>>

ReceiveFails ==
    /\ pc = "receive"
    /\ CloseUDP
    /\ Finish(Nothing, "error")
    /\ UNCHANGED <<inputs, server, tries, aborted, reply, pos, answers>>

(* The first reply decides: its number must be the constant one, and its   *)
(* code no error.                                                          *)
Receive ==
    /\ pc = "receive" /\ ~aborted
    /\ reply' \in Replies
    /\ CloseUDP
    /\ IF reply'.id /\ reply'.rcode = 0
       THEN pc' = "question" /\ UNCHANGED <<result, why>>
       ELSE Finish(Nothing, "reply")
    /\ answers' = Len(reply'.answers)
    /\ pos' = 0
    /\ UNCHANGED <<inputs, server, tries, aborted>>

-----------------------------------------------------------------------------
(* The reply is walked from pos, which counts the bytes after the header. *)
Bytes == ReplyBytes(reply)
At(i) == Bytes[i + 1]
Short == Finish(Nothing, "reply") /\ UNCHANGED <<pos, answers>>
Step(place, to) == pc' = place /\ pos' = to /\ UNCHANGED <<answers, result, why>>
walking == <<inputs, udp, server, tries, aborted, reply>>

(* The labels of the one question, and its five last bytes. *)
SkipQuestion ==
    /\ pc = "question"
    /\ IF pos >= Len(Bytes) THEN Short
       ELSE IF At(pos) = 0 THEN Step("answer", pos + 5)
       ELSE Step("question", pos + 1 + At(pos))
    /\ UNCHANGED walking

NextAnswer ==
    /\ pc = "answer"
    /\ IF answers = 0 \/ pos >= Len(Bytes) THEN Short ELSE Step("name", pos)
    /\ UNCHANGED walking


(* The name of an answer: labels up to a zero or a pointer. *)
SkipName ==
    /\ pc = "name"
    /\ IF pos >= Len(Bytes) THEN Short
       ELSE IF At(pos) >= 192 THEN Step("record", pos + 2)
       ELSE IF At(pos) = 0 THEN Step("record", pos + 1)
       ELSE Step("name", pos + 1 + At(pos))
    /\ UNCHANGED walking

ReadRecord ==
    /\ pc = "record"
    /\ LET Word(i) == 256 * At(pos + i) + At(pos + i + 1)
           data == pos + 10 IN
       IF data > Len(Bytes) \/ data + Word(8) > Len(Bytes) THEN Short
       ELSE IF Word(0) = 1 /\ Word(2) = 1 /\ Word(8) = Octets
       THEN /\ Finish([i \in 1 .. Octets |-> At(data + i - 1)], "reply")
            /\ UNCHANGED <<pos, answers>>
       ELSE /\ pc' = "answer"
            /\ pos' = data + Word(8)
            /\ answers' = answers - 1
            /\ UNCHANGED <<result, why>>
    /\ UNCHANGED walking

Next ==
    \/ Resolve
    \/ ReadConf
    \/ SendQuery
    \/ \E signal \in BOOLEAN : TryAgain(signal)
    \/ ReceiveFails
    \/ Receive
    \/ SkipQuestion
    \/ NextAnswer
    \/ SkipName
    \/ ReadRecord

Spec == Init /\ [][Next]_vars

-----------------------------------------------------------------------------
TypeOK ==
    /\ pc \in {"parsed", "resolve", "conf", "socket", "receive", "question", "answer", "name", "record", "done"}
    /\ udp.state \in {"none", "open", "closed"}
    /\ {tries, pos, answers} \subseteq Nat
    /\ aborted \in BOOLEAN
    /\ Len(result) \in {0, Octets}

(* The numbers written with the characters of a text, each with its value. *)
Numerals(digits, most, base) ==
    {<<t, FoldLeft(LAMBDA v, d : base * v + Value[d], 0, t)>> :
        t \in UNION {[1 .. n -> digits] : n \in 1 .. most}}
Join(ns, mark) ==
    FlattenSeq([i \in 1 .. Len(ns) |-> IF i = 1 THEN ns[i][1] ELSE mark \o ns[i][1]])
Values(ns) == [i \in 1 .. Len(ns) |-> ns[i][2]]

(* What a text means as a dotted address: octets up to 255 between dots.   *)
Meanings4(t) ==
    LET octets == {n \in Numerals(Decimal \cap Range(t), 3, 10) : n[2] <= 255}
    IN {Values(ns) : ns \in {ns \in [1 .. Octets -> octets] : Join(ns, <<".">>) = t}}

(* And as an IPv6 address: all groups, or fewer beside two colons. *)
Meanings6(t) ==
    LET some(n) == [1 .. n -> Numerals(Hex \cap Range(t), GroupDigits, 16)]
        all == {ns \in some(Groups) : t = Join(ns, <<":">>)}
        short(m, n) == {<<left, right>> \in some(m) \X some(n) :
                           t = Join(left, <<":">>) \o <<":", ":">> \o Join(right, <<":">>)}
    IN {Values(ns) : ns \in all} \cup
       UNION {{Values(p[1]) \o [i \in 1 .. Groups - m - n |-> 0] \o Values(p[2]) : p \in short(m, n)} :
                 <<m, n>> \in {<<m, n>> \in (0 .. Groups) \X (0 .. Groups) : m + n < Groups}}

(* A text whose last group is followed by one colon, and so no address. *)
ColonAfterGroup(t) == Len(t) > 1 /\ t[Len(t)] = ":" /\ t[Len(t) - 1] \in Hex

(* Each parser takes the texts of addresses, gives each the one meaning it *)
(* has, and takes no others but one kind: an IPv6 address with a colon     *)
(* after its last group, which means what it would without the colon.      *)
AddressesRight ==
    pc = "parsed" =>
        /\ Meanings4(text) = {ParseIPv4(text)} \ {Nothing}
        /\ IF ColonAfterGroup(text)
           THEN Meanings6(text) = {} /\ ParseIPv6(text) = ParseIPv6(Front(text))
           ELSE Meanings6(text) = {ParseIPv6(text)} \ {Nothing}

(* The first line of /etc/hosts that names the host before any comment.    *)
HostsMeaning ==
    LET naming == {i \in 1 .. Len(hosts) :
            \E j \in 2 .. Len(hosts[i].before) :
                hosts[i].before[j] = host /\ Meanings4(hosts[i].before[1]) # {}}
    IN IF naming = {} THEN {} ELSE Meanings4(hosts[Min(naming)].before[1])

(* The first nameserver with an IPv4 address, also if commented out. *)
ServerMeaning ==
    LET usable == {i \in 1 .. Len(conf) : Meanings4(conf[i].server) # {}}
    IN IF usable = {} THEN {} ELSE Meanings4(conf[Min(usable)].server)

(* The first address among the answers of which every byte has come.       *)
ReplyMeaning ==
    LET size(i) == Len(reply.question) + 4
                   + Len(FlattenSeq([j \in 1 .. i |-> RecordBytes(reply.answers[j])]))
        addresses == {i \in 1 .. Len(reply.answers) :
            /\ size(i) <= reply.length
            /\ reply.answers[i].type = 1 /\ reply.answers[i].class = 1
            /\ Len(reply.answers[i].data) = Octets}
    IN IF ~reply.id \/ reply.rcode # 0 \/ addresses = {} THEN Nothing
       ELSE reply.answers[Min(addresses)].data

(* A dotted address, localhost and /etc/hosts come before a server, and    *)
(* the server asked is the first; what it answers is found in its bytes    *)
(* wherever they are cut off; and an abort, an error or the last try gives *)
(* nothing.  The socket is closed once on every way out.                   *)
ResolvedRight ==
    /\ pc = "done" =>
        /\ Meanings4(host) = IF why = "numeric" THEN {result} ELSE {}
        /\ why = "localhost" <=> host = <<"localhost">>
        /\ why \notin {"numeric", "localhost"} =>
              HostsMeaning = IF why = "hosts" THEN {result} ELSE {}
        /\ why = "reply" => result = ReplyMeaning
        /\ why \in {"no query", "error", "aborted", "timeout"} => result = Nothing
        /\ why = "aborted" => aborted
    /\ tries <= MaxTries
    /\ pc \in {"socket", "receive"} => ServerMeaning = {server}
    /\ udp.closes <= 1
    /\ udp.state = "open" <=> pc = "receive"
    /\ udp.state = "closed" <=> udp.closes = 1

=============================================================================
