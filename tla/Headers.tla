------------------------------ MODULE Headers ------------------------------
(***************************************************************************)
(* Headers (web_headers.go).  An object keeps one list of names in lower   *)
(* case and trimmed values, in the order they came; a name may have        *)
(* several.  get joins them; iteration sorts a copy by name, joins the     *)
(* values of each name, and keeps those of set-cookie apart.               *)
(***************************************************************************)
EXTENDS Integers, Sequences, FiniteSets, SequencesExt, FiniteSetsExt, Functions

CONSTANTS
    Object,     \* Headers objects of the program
    Order,      \* the names in lower case, by their code units
    LowerOf,    \* valid names, as spelled, to their lower case
    Invalid,    \* other names the program gives
    Char,       \* characters
    Texts,      \* values the program gives, as sequences of characters
    Arrays,     \* arrays of names with values that the program has, not literals
    MaxPairs    \* bound: entries of an object

VARIABLES
    entries,    \* $entries of each object made, in pairs
    given,      \* what the calls so far say an object holds: values by name
    lost        \* history: names an array gave values that never came in

vars == <<entries, given, lost>>

Names == Range(Order)
Made == DOMAIN entries
Whitespace == {"sp", "lf"}
Forbidden == {"lf", "nul"}

HeadersAssumption ==
    /\ Order \in Seq(Names) /\ IsInjective(Order) /\ "set-cookie" \in Names
    /\ \A name \in DOMAIN LowerOf : LowerOf[name] \in Names
    /\ Texts \subseteq Seq(Char)
    /\ Arrays \subseteq Seq((DOMAIN LowerOf \cup Invalid) \X Texts)

-----------------------------------------------------------------------------
Trim(text) ==
    LET kept == {i \in DOMAIN text : text[i] \notin Whitespace}
    IN IF kept = {} THEN <<>> ELSE SubSeq(text, Min(kept), Max(kept))

ValidValue(value) == Range(value) \cap Forbidden = {}

ValuesOf(list, name) ==
    FlattenSeq([i \in DOMAIN list |-> IF list[i][1] = name THEN <<list[i][2]>> ELSE <<>>])

(* The join starts from the first value, also when it is empty. *)
JoinedValues(values) ==
    FlattenSeq([i \in DOMAIN values |-> IF i = 1 THEN values[i] ELSE <<",", "sp">> \o values[i]])

Get(list, name) ==
    IF ValuesOf(list, name) = <<>> THEN "null" ELSE JoinedValues(ValuesOf(list, name))
Has(list, name) == \E i \in DOMAIN list : list[i][1] = name
GetSetCookie(list) == ValuesOf(list, "set-cookie")

(* The pairs that entries, keys, values and forEach go through are a copy, *)
(* made when they are called: the names in use, as they first appear; the  *)
(* names sorted by insertion; and the pairs of each.                       *)
UniqueNames(list) ==
    FlattenSeq([i \in DOMAIN list |->
                  IF \E j \in 1 .. i - 1 : list[j][1] = list[i][1] THEN <<>> ELSE <<list[i][1]>>])

Greater(m, n) == \E a, b \in DOMAIN Order : b < a /\ Order[a] = m /\ Order[b] = n
Inserted(names, n) ==
    InsertAt(names, 1 + Max({0} \cup {i \in DOMAIN names : ~Greater(names[i], n)}), n)
Sorted(names) ==
    LET sorted[i \in 0 .. Len(names)] == IF i = 0 THEN <<>> ELSE Inserted(sorted[i - 1], names[i])
    IN  sorted[Len(names)]

CookiePairs(list) ==
    [i \in DOMAIN GetSetCookie(list) |-> <<"set-cookie", GetSetCookie(list)[i]>>]
RegularPair(list, n) == << <<n, JoinedValues(ValuesOf(list, n))>> >>

PairsOf(list, n) == IF n = "set-cookie" THEN CookiePairs(list) ELSE RegularPair(list, n)

NormalizedPairs(list) ==
    LET names == Sorted(UniqueNames(list))
    IN FlattenSeq([i \in DOMAIN names |-> PairsOf(list, names[i])])
Keys(list) == [i \in DOMAIN NormalizedPairs(list) |-> NormalizedPairs(list)[i][1]]

-----------------------------------------------------------------------------
Init == entries = <<>> /\ given = <<>> /\ lost = <<>>

Fits(list) == Len(list) <= MaxPairs
Accepted(name, text) == name \in DOMAIN LowerOf /\ ValidValue(Trim(text))
Pair(name, text) == <<LowerOf[name], Trim(text)>>

PairsGiven(pairs) == [i \in DOMAIN pairs |-> Pair(pairs[i][1], pairs[i][2])]
Acceptable(pairs) ==
    FlattenSeq([i \in DOMAIN pairs |-> IF Accepted(pairs[i][1], pairs[i][2])
                                       THEN <<Pair(pairs[i][1], pairs[i][2])>> ELSE <<>>])
ValuesByName(list) == [n \in Names |-> ValuesOf(list, n)]

Become(o, list, values, names) ==
    /\ Fits(list)
    /\ entries' = [x \in Made \cup {o} |-> IF x = o THEN list ELSE entries[x]]
    /\ given' = [x \in Made \cup {o} |-> IF x = o THEN values ELSE given[x]]
    /\ lost' = [x \in Made \cup {o} |-> IF x = o THEN names ELSE lost[x]]

(* new Headers of a literal: it throws at the first pair it cannot take,   *)
(* and the object is never seen.                                           *)
NewFromLiteral(o, pairs) ==
    /\ o \notin Made
    /\ \A i \in DOMAIN pairs : Accepted(pairs[i][1], pairs[i][2])
    /\ Become(o, PairsGiven(pairs), ValuesByName(PairsGiven(pairs)), {})

(* new Headers of another one copies its list. *)
NewFromHeaders(o, other) ==
    /\ o \notin Made /\ other \in Made
    /\ Become(o, entries[other], given[other], lost[other])

(* new Headers of an array that is not a literal: the jump to the next pair *)
(* replaces the branch to the checks of this one, so that it throws for no *)
(* pair and adds none.  What the call gave is lost.                        *)
NewFromArray(o, pairs) ==
    /\ o \notin Made
    /\ LET list == Acceptable(pairs)
       IN Become(o, <<>>, ValuesByName(list), {list[i][1] : i \in DOMAIN list})

AppendDirect(o, name, text) ==
    /\ Accepted(name, text)
    /\ Become(o, Append(entries[o], Pair(name, text)),
              [given[o] EXCEPT ![LowerOf[name]] = Append(@, Trim(text))], lost[o])

Without(list, name) ==
    FlattenSeq([i \in DOMAIN list |-> IF list[i][1] = name THEN <<>> ELSE <<list[i]>>])

Delete(o, name) ==
    /\ name \in DOMAIN LowerOf
    /\ Become(o, Without(entries[o], LowerOf[name]),
              [given[o] EXCEPT ![LowerOf[name]] = <<>>], lost[o] \ {LowerOf[name]})

(* Mutant of Replaced: later pairs with the name stay. *)
ReplacedFirst(list, pair) ==
    LET found == {i \in DOMAIN list : list[i][1] = pair[1]}
    IN IF found = {} THEN Append(list, pair) ELSE [list EXCEPT ![Min(found)] = pair]

(* The first pair with the name takes the value and the others go. *)
Replaced(list, pair) ==
    LET found == {i \in DOMAIN list : list[i][1] = pair[1]}
        kept == [i \in DOMAIN list |-> CASE i \notin found -> <<list[i]>>
                                         [] found # {} /\ i = Min(found) -> <<pair>>
                                         [] OTHER -> <<>>]
    IN IF found = {} THEN Append(list, pair) ELSE FlattenSeq(kept)

Set(o, name, text) ==
    /\ Accepted(name, text)
    /\ Become(o, Replaced(entries[o], Pair(name, text)),
              [given[o] EXCEPT ![LowerOf[name]] = <<Trim(text)>>], lost[o] \ {LowerOf[name]})

Next ==
    \/ \E o \in Object :
          \/ \E pairs \in SeqOf((DOMAIN LowerOf \cup Invalid) \X Texts, 2) : NewFromLiteral(o, pairs)
          \/ \E other \in Object : NewFromHeaders(o, other)
          \/ \E pairs \in Arrays : NewFromArray(o, pairs)
    \/ \E o \in Made, name \in DOMAIN LowerOf \cup Invalid :
          \/ Delete(o, name)
          \/ \E text \in Texts : AppendDirect(o, name, text) \/ Set(o, name, text)

Spec == Init /\ [][Next]_vars

-----------------------------------------------------------------------------
TypeOK ==
    /\ DOMAIN entries \subseteq Object
    /\ DOMAIN given = DOMAIN entries /\ DOMAIN lost = DOMAIN entries
    /\ \A o \in Made : Fits(entries[o]) /\ DOMAIN given[o] = Names /\ lost[o] \subseteq Names

(* However an object came to its list, and whatever was done to the object *)
(* it was copied from, has, get and iteration give the values that the     *)
(* calls gave each name, in their order: joined, or every cookie by        *)
(* itself; iteration goes by name; and no value has a line end, or space   *)
(* around it, for it to be sent with.  Excepted are the names to which an  *)
(* array gave values, here or in an object this one is a copy of, until    *)
(* they are set or deleted: those values are lost.                         *)
HeadersAgree ==
    \A o \in Made :
        LET list == entries[o]
            pairs == NormalizedPairs(list)
            Joint(n) == IF given[o][n] = <<>> THEN <<>> ELSE << JoinedValues(given[o][n]) >>
        IN /\ \A n \in Names \ lost[o] :
                 /\ Has(list, n) <=> given[o][n] # <<>>
                 /\ Get(list, n) = IF given[o][n] = <<>> THEN "null" ELSE Joint(n)[1]
                 /\ ValuesOf(pairs, n) = IF n = "set-cookie" THEN given[o][n] ELSE Joint(n)
           /\ "set-cookie" \notin lost[o] => GetSetCookie(list) = given[o]["set-cookie"]
           /\ \A i, j \in DOMAIN pairs :
                 i < j => ~\E a, b \in DOMAIN Order :
                             a < b /\ Order[a] = Keys(list)[j] /\ Order[b] = Keys(list)[i]
           /\ \A i \in DOMAIN list :
                 /\ Range(list[i][2]) \cap Forbidden = {}
                 /\ Trim(list[i][2]) = list[i][2]

=============================================================================
