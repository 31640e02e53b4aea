---------------------------- MODULE Quantities ----------------------------
\* Values with units (units/units.go), the search over them
\* (repository/part_parametric.go), how enrichment splits them (handlers/enrich.go) and
\* how a schematic writes them (kicad/httplib/mapping.go). Operators only.
\*
\* A text is a sequence of tokens: digits, ".", ",", signs, SI prefixes, units and
\* words; "4.7 uF" is <<"4", ".", "7", "u", "F">>. Spaces are left out. An operator
\* whose answer may be refused returns a set with it or none.
EXTENDS Integers, Sequences, FiniteSets, SequencesExt, TLC

NumberTokens == {"0", "1", "2", "3", "4", "5", "6", "7", "8", "9"}
Signs        == {"+", "-"}

\* Spellings of base units. greek and ohmsign are the two omegas.
BaseOf == [u \in {"greek", "ohmsign", "ohm", "ohms", "Ohm", "Ohms", "OHM", "r", "R"} |-> "ohm"]
          @@ [u \in {"F", "f", "farad", "farads"} |-> "F"] @@ [u \in {"H", "h", "henry"} |-> "H"]
          @@ [u \in {"V", "v", "volt", "volts"} |-> "V"] @@ [u \in {"A", "a", "amp"} |-> "A"]
          @@ [u \in {"W", "w", "watt"} |-> "W"] @@ [u \in {"Hz", "hz", "hertz"} |-> "Hz"]

\* PowerOf as powers of ten; micro and mu are the two of them.
PowerOf == [p |-> -12, n |-> -9, u |-> -6, micro |-> -6, mu |-> -6, m |-> -3, c |-> -2, d |-> -1,
             k |-> 3, K |-> 3, M |-> 6, G |-> 9, T |-> 12]

\* A decimal in its one form: no zeros at either end of its digits.
Zero == [neg |-> FALSE, digits |-> <<>>, exp |-> 0]
DecimalOf(neg, digits, exp) ==
    LET said == {i \in DOMAIN digits : digits[i] # "0"}
        last == CHOOSE i \in said : \A j \in said : j <= i
        one  == CHOOSE i \in said : \A j \in said : j >= i
    IN  IF said = {} THEN Zero
        ELSE [neg |-> neg, digits |-> SubSeq(digits, one, last), exp |-> exp + Len(digits) - last]
Scaled(x, power) == IF x = Zero THEN x ELSE [x EXCEPT !.exp = @ + power]

\* The number a text begins with and what follows it.
splitNumber(s) ==
    LET InNumber(i) == s[i] \in NumberTokens \cup {"."} \/ (i = 1 /\ s[i] \in Signs)
        n     == CHOOSE k \in 0 .. Len(s) : (\A i \in 1 .. k : InNumber(i)) /\ (k < Len(s) => ~InNumber(k + 1))
        head  == SubSeq(s, 1, n)
        dots  == {i \in 1 .. n : head[i] = "."}
        ds    == SelectSeq(head, LAMBDA t : t \in NumberTokens)
        after == IF dots = {} THEN 0 ELSE n - CHOOSE i \in dots : TRUE
    IN  IF ds = <<>> \/ Cardinality(dots) > 1 THEN {}
        ELSE {[value |-> DecimalOf(head[1] = "-", ds, -after), rest |-> SubSeq(s, n + 1, Len(s))]}

\* A splitUnit that tries the prefix before the whole unit.
BadSplitUnit(u) ==
    CASE u = <<>> -> {[power |-> 0, base |-> ""]}
      [] u # <<>> /\ u[1] \in DOMAIN PowerOf -> {[power |-> PowerOf[u[1]], base |-> ""]}
      [] OTHER -> {}

\* The power of ten of a unit and its base.
splitUnit(u) ==
    LET Base(t) == IF Len(t) = 1 /\ t[1] \in DOMAIN BaseOf THEN {BaseOf[t[1]]} ELSE {}
        prefixed == u # <<>> /\ Base(u) = {} /\ u[1] \in DOMAIN PowerOf
    IN  {[power |-> 0, base |-> b] : b \in IF u = <<>> THEN {""} ELSE Base(u)}
        \cup {[power |-> PowerOf[u[1]], base |-> b] :
                 b \in IF ~prefixed THEN {} ELSE IF Tail(u) = <<>> THEN {""} ELSE Base(Tail(u))}

Quantity(n, unit, bare) == [value |-> Scaled(n, unit.power), base |-> unit.base, shown |-> n, bare |-> bare]

\* A stored value and its unit column. What follows the number in the value wins over
\* the column, which is then asked for the base only.
Parse(value, unit) ==
    LET Based(u) == IF u.base # "" THEN u
                    ELSE [u EXCEPT !.base = IF splitUnit(unit) = {} THEN ""
                                            ELSE (CHOOSE x \in splitUnit(unit) : TRUE).base]
    IN  UNION {{Quantity(x.value, IF x.rest = <<>> THEN u ELSE Based(u), FALSE) :
                   u \in splitUnit(IF x.rest = <<>> THEN unit ELSE x.rest)} : x \in splitNumber(value)}

ParseQuery(s) ==
    UNION {IF x.rest = <<>> THEN {Quantity(x.value, [power |-> 0, base |-> ""], TRUE)}
           ELSE {Quantity(x.value, u, FALSE) : u \in splitUnit(x.rest)} : x \in splitNumber(s)}

\* Divided by the one asked for, which may be below zero.
near(a, b) == IF b = Zero THEN a = Zero ELSE b.neg \/ a = b

Matches(stored, query) ==
    IF query.bare THEN near(stored.shown, query.shown)
    ELSE (query.base = "" \/ stored.base = query.base) /\ near(stored.value, query.value)

\* One text is written in another.
Within(a, b) == \E i \in 0 .. Len(b) - Len(a) : SubSeq(b, i + 1, i + Len(a)) = a

\* A matchParameters that compares what is written and forgets the unit.
BadMatchParameters(params, name, want) ==
    SelectSeq(params, LAMBDA p : \E q \in ParseQuery(want), s \in Parse(p.value, p.units) : near(s.shown, q.shown))

\* The parameters of that name, or of any, that match as a quantity or have the query
\* written in their value.
matchParameters(params, name, want) ==
    LET Found(p) == /\ name # <<>> => Within(name, p.name)
                    /\ \/ \E q \in ParseQuery(want), s \in Parse(p.value, p.units) : Matches(s, q)
                       \/ Within(want, p.value)
    IN  IF want = <<>> THEN <<>> ELSE SelectSeq(params, Found)

-----------------------------------------------------------------------------
\* Enrichment.

\* Units it peels off a value, prefixes first.
ParamUnits ==
    {<<"degC">>, <<"degF">>, <<"%">>, <<"mil">>, <<"m", "Ah">>, <<"Ah">>, <<"V", "A">>, <<"d", "B">>, <<"p", "pm">>}
    \cup {<<u>> : u \in {"greek", "Hz", "F", "H", "V", "A", "W"}}
    \cup {<<p, "greek">> : p \in {"m", "k", "M", "G"}} \cup {<<p, "Hz">> : p \in {"k", "M", "G"}}
    \cup {<<p, b>> : p \in {"p", "n", "micro", "u", "m"}, b \in {"F", "H"}}
    \cup {<<p, "V">> : p \in {"m", "k", "micro", "u", "n"}} \cup {<<p, "A">> : p \in {"m", "micro", "u", "n", "k"}}
    \cup {<<p, "W">> : p \in {"m", "k", "micro", "u"}} \cup {<<p, "m">> : p \in {"m", "c", "n", "micro", "u"}}

\* Spelled-out ohms become the sign.
ohmsRepl(s) == [i \in DOMAIN s |-> IF s[i] \in {"Ohm", "Ohms"} THEN "greek" ELSE s[i]]

\* splitUnit of enrich.go: a number, which may be a range or have commas, and a unit
\* after it.
peelUnit(s) ==
    LET Signed(h) == h # <<>> /\ h[1] \in Signs \cup {"+-"}
        Magnitude(h) == LET d == IF Signed(h) THEN 2 ELSE 1
                        IN  /\ d <= Len(h) /\ h[d] \in NumberTokens
                            /\ Range(h) \subseteq NumberTokens \cup Signs \cup {"+-", ".", ","}
        cuts == {n \in 1 .. Len(s) - 1 : Magnitude(SubSeq(s, 1, n)) /\ SubSeq(s, n + 1, Len(s)) \in ParamUnits}
        n    == CHOOSE c \in cuts : TRUE
    IN  IF cuts = {} THEN [value |-> s, units |-> <<>>]
        ELSE [value |-> SubSeq(s, 1, n), units |-> SubSeq(s, n + 1, Len(s))]

-----------------------------------------------------------------------------
\* A schematic.

FusedUnits == {"greek", "ohmsign", "ohms", "ohm", "Ohms", "Ohm", "F", "H"}

\* The number with the prefix of its unit and no base.
fuseSIPrefix(value, units) ==
    LET prefix == IF units # <<>> /\ units[Len(units)] \in FusedUnits THEN SubSeq(units, 1, Len(units) - 1) ELSE units
    IN  IF units = <<>> \/ value[Len(value)] \notin NumberTokens \/ Len(prefix) # 1 THEN value
        ELSE CASE prefix[1] \in {"micro", "mu", "u", "U"} -> Append(value, "u")
               [] prefix[1] \in {"k", "K"} -> Append(value, "k")
               [] prefix[1] \in {"m", "M", "n", "p", "f", "G", "T", "c", "d"} -> Append(value, prefix[1])
               [] OTHER -> value
=============================================================================
