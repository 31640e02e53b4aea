------------------------------ MODULE Barcodes ------------------------------
\* The codes on distributors' bags (barcode/eigp114, barcode/lcsc, handlers/scan.go).
\* Operators only.
\*
\* A code is a sequence of tokens: characters, the separators "GS", "RS", "EOT", the
\* header "[)>" and the function keys "F7", "F8", "F9" that a scanner may type for
\* separators. A number is a text of Quantities.
EXTENDS Quantities

dataIdentifiers == {<<"3", "0", "P">>, <<"1", "0", "K">>, <<"1", "1", "K">>, <<"1", "2", "Z">>, <<"1", "3", "Z">>,
                    <<"2", "0", "Z">>, <<"1", "P">>, <<"1", "K">>, <<"1", "T">>,
                    <<"4", "L">>, <<"9", "D">>, <<"P">>, <<"Q">>, <<"K">>, <<"V">>, <<"S">>, <<"T">>, <<"D">>, <<"L">>, <<"E">>}

escSeparators(code) == [i \in DOMAIN code |-> IF code[i] \in {"F7", "F8"} THEN "GS"
                                              ELSE IF code[i] = "F9" THEN "RS" ELSE code[i]]

IsEIGP(code) == (code # <<>> /\ code[1] = "[)>") \/ \E i \in DOMAIN code : code[i] \in {"GS", "F7", "F8"}

\* What is left of a sequence without the tokens of cut at its front, its end.
TrimFront(s, cut) == LET on == {i \in DOMAIN s : s[i] \notin cut}
                     IN  IF on = {} THEN <<>> ELSE SubSeq(s, CHOOSE i \in on : \A j \in on : i <= j, Len(s))
TrimBoth(s, cut)  == Reverse(TrimFront(Reverse(TrimFront(s, cut)), cut))
TrimPrefix(s, p)  == IF IsPrefix(p, s) THEN SubSeq(s, Len(p) + 1, Len(s)) ELSE s

SplitAt(s, sep) ==
    LET cuts == SelectSeq([i \in DOMAIN s |-> i], LAMBDA i : s[i] = sep)
        ends == <<0>> \o cuts \o <<Len(s) + 1>>
    IN  [i \in 1 .. Len(cuts) + 1 |-> SubSeq(s, ends[i] + 1, ends[i + 1] - 1)]

\* The longest identifier a field begins with.
splitDI(token) ==
    LET fit == {d \in dataIdentifiers : IsPrefix(d, token)}
    IN  IF fit = {} THEN {} ELSE {CHOOSE d \in fit : \A e \in fit : Len(e) <= Len(d)}

\* A label by what its fields are called.
NoFields == [x \in {} |-> <<>>]
PutField(f, k, v) == [x \in DOMAIN f \cup {k} |-> IF x = k THEN v ELSE f[x]]

\* A field that begins with no identifier is passed over.
PutToken(f, token) ==
    LET di == splitDI(token)
    IN  IF di = {} THEN f ELSE LET d == CHOOSE x \in di : TRUE IN PutField(f, d, SubSeq(token, Len(d) + 1, Len(token)))

\* A ParseEIGP that does not know the keys a scanner types for separators.
BadParseEIGP(code) ==
    LET body   == TrimPrefix(TrimFront(TrimPrefix(code, <<"[)>">>), {"RS"}), <<"0", "6">>)
    IN  FoldLeft(PutToken, NoFields, SplitAt(body, "GS"))

\* Every field a label has, the last of a kind, without its envelope.
ParseEIGP(code) ==
    LET plain  == escSeparators(code)
        open   == TrimPrefix(TrimFront(TrimPrefix(plain, <<"[)>">>), {"RS"}), <<"0", "6">>)
        body   == TrimBoth(SplitAt(open, "EOT")[1], {"RS", "GS"})
        Field1(f, t) == PutToken(f, TrimBoth(t, {"RS", " "}))
    IN  FoldLeft(Field1, NoFields, SplitAt(body, "GS"))

\* A count that is not one is none.
parseQty(s) == LET n == {x \in splitNumber(s) : x.rest = <<>> /\ \A i \in DOMAIN s : s[i] # "."}
               IN  IF n = {} THEN Zero ELSE (CHOOSE x \in n : TRUE).value

FieldOf(f, k) == IF k \in DOMAIN f THEN f[k] ELSE <<>>

IsLCSC(code) == /\ Len(code) > 1 /\ code[1] = "{" /\ code[Len(code)] = "}"
                /\ \E i \in 1 .. Len(code) - 1 : code[i] \in {"pm", "pc"} /\ code[i + 1] = ":"

\* Keys and values in braces; a key is one token.
ParseLCSC(code) ==
    LET body == SubSeq(code, 2, Len(code) - 1)
        Pair(f, kv) == LET at == {i \in DOMAIN kv : kv[i] = ":"}
                           c  == CHOOSE i \in at : \A j \in at : i <= j
                       IN  IF at = {} \/ c = Len(kv) THEN f ELSE PutField(f, SubSeq(kv, 1, c - 1), SubSeq(kv, c + 1, Len(kv)))
    IN  FoldLeft(Pair, NoFields, SplitAt(body, ","))

\* What is read off the fields of a label, and the parts of that number.
ReadOff(mpn, quantity, order, parts) ==
    [mpn |-> mpn, quantity |-> parseQty(quantity), order |-> order, match |-> IF mpn \in DOMAIN parts THEN {parts[mpn]} ELSE {}]

\* A scan: what the bag says, whichever kind it is; a code that is neither is a part
\* number. parts has the part of each number.
Scan(code, parts) ==
    IF IsLCSC(code)
    THEN LET f == ParseLCSC(code) IN ReadOff(FieldOf(f, <<"pm">>), FieldOf(f, <<"qty">>), FieldOf(f, <<"pc">>), parts)
    ELSE LET f    == ParseEIGP(code)
             said == FieldOf(f, <<"1", "P">>)
             mpn  == IF said = <<>> /\ ~IsEIGP(code) THEN code ELSE said
         IN  ReadOff(mpn, FieldOf(f, <<"Q">>), FieldOf(f, <<"P">>), parts)
=============================================================================
