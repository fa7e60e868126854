------------------------------- MODULE Texts -------------------------------
(***************************************************************************)
(* The values a row is built from, and the transformations of              *)
(* src/lib/transformations.ts.                                             *)
(*                                                                         *)
(* A text is a sequence of words, the pieces the operators below can tell  *)
(* apart, so that joining texts is \o and the empty text is <<>>.  Upper   *)
(* and lower case forms of a word are words of their own.  Numbers are     *)
(* tenths, dates are hours; locale, separators and padding are left out.   *)
(***************************************************************************)
EXTENDS Integers, Sequences, SequencesExt
LOCAL INSTANCE TLC

Empty == <<>>
Space == <<" ">>

\* Words in another case, and other single-word conversions.
LowerForm == [ABC |-> "abc", Abc |-> "abc", PAID |-> "paid", Yes |-> "yes",
              Id |-> "id", Sku |-> "sku", Sum |-> "sum"]
UpperForm == [abc |-> "ABC", Abc |-> "ABC", paid |-> "PAID", Yes |-> "YES"]
TitleForm == [abc |-> "Abc", ABC |-> "Abc", paid |-> "Paid", PAID |-> "Paid"]
Entity    == ("&nbsp;" :> " ") @@ ("&amp;" :> "&") @@ ("&lt;br&gt;" :> "<br>")
Tags      == {"<br>"}
Symbols   == {"emoji"}
Blanks    == {" ", "newline"}
Numbers   == -20 .. 200
MomentOf  == [mon1h |-> 1, mon9h |-> 9, tue1h |-> 25]   \* ISO timestamps
LocalZone == 2

Convert(t, form) == [i \in DOMAIN t |-> IF t[i] \in DOMAIN form THEN form[t[i]] ELSE t[i]]
Lower(t) == Convert(t, LowerForm)
Upper(t) == Convert(t, UpperForm)
Trim(t)  ==
    LET solid == {i \in DOMAIN t : t[i] \notin Blanks}
    IN  IF solid = {} THEN Empty
        ELSE SubSeq(t, CHOOSE i \in solid : \A j \in solid : i <= j,
                       CHOOSE i \in solid : \A j \in solid : j <= i)
Has(t, part) == part \in SubSeqs(t)
Without(t, words) == SelectSeq(t, LAMBDA w : w \notin words)
NonEmpty(texts) == SelectSeq(texts, LAMBDA t : t # Empty)
Join(texts, separator) ==
    FoldLeft(LAMBDA acc, t : IF acc.first THEN [first |-> FALSE, text |-> t]
                             ELSE [acc EXCEPT !.text = @ \o separator \o t],
             [first |-> TRUE, text |-> Empty], texts).text

\* What a path of the payload may resolve to.
Null       == [kind |-> "null"]
Text(t)    == [kind |-> "text", text |-> t]
Number(n)  == [kind |-> "number", num |-> n]
List(s)    == [kind |-> "list", items |-> s]      \* of texts

Numeral(n) == <<ToString(n)>>

asText(v) == CASE v.kind = "null"   -> Empty
               [] v.kind = "text"   -> v.text
               [] v.kind = "number" -> Numeral(v.num)
               [] v.kind = "list"   -> Join(NonEmpty(v.items), <<", ">>)

\* Number(""), and of white space, is 0.
IsNumber(v) == \/ v.kind = "number"
               \/ Trim(asText(v)) = Empty
               \/ \E n \in Numbers : Trim(asText(v)) = Numeral(n)
asNumber(v) == CASE v.kind = "number" -> v.num
                 [] Trim(asText(v)) = Empty -> 0
                 [] OTHER -> CHOOSE n \in Numbers : Trim(asText(v)) = Numeral(n)

\* One comparison, of rules and of "conditional": on trimmed lower case
\* texts, or on numbers.
CompareTexts(left, operator, right) ==
    CASE operator = "equals"       -> left = right
      [] operator = "not_equals"   -> left # right
      [] operator = "contains"     -> right # Empty /\ Has(left, right)
      [] operator = "not_contains" -> right = Empty \/ ~Has(left, right)
      [] operator = "starts_with"  -> right # Empty /\ IsPrefix(right, left)
      [] operator = "ends_with"    -> right # Empty /\ IsSuffix(right, left)
      [] operator = "is_empty"     -> left = Empty
      [] operator = "is_not_empty" -> left # Empty
      [] OTHER -> FALSE
CompareNumbers(a, operator, b) ==
    /\ IsNumber(a) /\ IsNumber(b)
    /\ IF operator = "greater_than" THEN asNumber(a) > asNumber(b) ELSE asNumber(a) < asNumber(b)
compareValues(v, operator, compareTo) ==
    IF operator \in {"greater_than", "less_than"}
    THEN CompareNumbers(v, operator, Text(Trim(compareTo)))
    ELSE CompareTexts(Lower(Trim(asText(v))), operator, Lower(Trim(compareTo)))

-----------------------------------------------------------------------------
(* The registry.  args is the saved argument bag, which may lack any of    *)
(* its arguments.                                                          *)

Arg(args, name, default) == IF name \in DOMAIN args THEN args[name] ELSE default
isYes(args, name, fallback) ==
    IF Arg(args, name, "") = "" THEN fallback ELSE args[name] = "yes"

Prefixed(v, args) ==
    IF asText(v) = Empty /\ isYes(args, "skipEmpty", TRUE) THEN Empty
    ELSE Arg(args, "text", Empty) \o asText(v)
Suffixed(v, args) ==
    IF asText(v) = Empty /\ isYes(args, "skipEmpty", TRUE) THEN Empty
    ELSE asText(v) \o Arg(args, "text", Empty)

\* Tags go before entities are decoded, so an encoded tag stays as text.
WithoutHtml(t, yes)    == IF yes THEN Convert(Convert(t, [w \in Tags |-> " "]), Entity) ELSE t
OnOneLine(t, yes)      == IF yes THEN Convert(t, [newline |-> " "]) ELSE t
WithoutSymbols(t, yes) == IF yes THEN Without(t, Symbols \cup {"newline"}) ELSE t
WithoutRuns(t, yes) ==
    IF yes THEN FoldLeft(LAMBDA s, w : IF w \in Blanks /\ s # Empty /\ Last(s) \in Blanks
                                       THEN Front(s) \o Space ELSE s \o <<w>>, Empty, t)
           ELSE t
CleanedUp(v, args) ==
    Trim(WithoutRuns(WithoutSymbols(OnOneLine(WithoutHtml(asText(v),
            isYes(args, "stripHtml", TRUE)), isYes(args, "removeLineBreaks", TRUE)),
            isYes(args, "removeSymbols", FALSE)), isYes(args, "collapseSpaces", TRUE)))

\* Find and replace, of one word: all of its occurrences or the first one.
Replaced(v, args) ==
    LET t    == asText(v)
        find == Arg(args, "find", "")
        same(w) == IF isYes(args, "caseSensitive", FALSE) THEN w = find
                   ELSE Lower(<<w>>) = Lower(<<find>>)
        hits == {i \in DOMAIN t : same(t[i])}
        here == IF isYes(args, "all", TRUE) THEN hits
                ELSE {i \in hits : \A j \in hits : i <= j}
    IN  IF find = "" THEN t
        ELSE FlattenSeq([i \in DOMAIN t |->
                IF i \in here THEN Arg(args, "replaceWith", Empty) ELSE <<t[i]>>])

\* A length of words stands for the length in characters.
Truncated(v, args) ==
    LET max == Arg(args, "length", 80)
    IN  IF max <= 0 \/ Len(asText(v)) <= max THEN asText(v)
        ELSE SubSeq(asText(v), 1, max - 1) \o <<"...">>

\* A timestamp down to the unit of the pattern.
DateFormatted(v, args) ==
    LET t  == asText(v)
        at == MomentOf[t[1]] + (IF Arg(args, "timezone", "utc") = "local" THEN LocalZone ELSE 0)
    IN  IF Len(t) # 1 \/ t[1] \notin DOMAIN MomentOf THEN Empty
        ELSE IF Arg(args, "pattern", "yyyy-MM-dd") = "yyyy-MM-dd" THEN Numeral(at \div 24)
        ELSE Numeral(at \div 24) \o <<" ">> \o Numeral(at % 24)

\* Away from zero at a half.
Rounded(n, decimals) ==
    IF decimals > 0 THEN n
    ELSE IF n < 0 THEN -(10 * ((5 - n) \div 10)) ELSE 10 * ((n + 5) \div 10)
NumberText(v, args) ==
    IF IsNumber(v) THEN Numeral(Rounded(asNumber(v), Arg(args, "decimals", 2))) ELSE Empty

\* An empty code is the order's own; a code nobody knows leaves the number.
WithCode(n, code) == (CASE code = <<"UNKNOWN">> -> Empty [] code = Empty -> <<"USD">>
                        [] OTHER -> code) \o Numeral(n)
CurrencyText(v, args, own) ==
    IF ~IsNumber(v) THEN Empty
    ELSE IF ~isYes(args, "symbol", TRUE) THEN Numeral(asNumber(v))
    ELSE WithCode(asNumber(v), Upper(IF Trim(Arg(args, "currency", Empty)) # Empty
                                     THEN Trim(args.currency) ELSE asText(own)))

Conditional(v, args) ==
    IF compareValues(v, Arg(args, "operator", "is_not_empty"), Arg(args, "compareTo", Empty))
    THEN Arg(args, "thenValue", Empty)
    ELSE IF Arg(args, "elseValue", Empty) = Empty THEN asText(v) ELSE args.elseValue

BooleanLabel(v, args) ==
    IF Lower(asText(v)) \in {<<"true">>, <<"yes">>, <<"y">>, <<"1">>, <<"paid">>, <<"fulfilled">>}
    THEN Arg(args, "trueLabel", <<"Yes">>) ELSE Arg(args, "falseLabel", <<"No">>)

\* others are the values of args.fields, resolved against the row.
Combined(v, args, others) ==
    LET parts == <<asText(v)>> \o [i \in DOMAIN others |-> asText(others[i])]
    IN  Join(IF isYes(args, "skipEmpty", TRUE) THEN NonEmpty(parts) ELSE parts,
             Arg(args, "separator", <<" - ">>))

Distinct(texts) == FoldLeft(LAMBDA s, t : IF Contains(s, t) THEN s ELSE Append(s, t), <<>>, texts)
JoinedUpTo(texts, separator, limit) ==
    IF limit > 0 /\ Len(texts) > limit
    THEN Join(SubSeq(texts, 1, limit) \o <<<<"+">> \o Numeral(Len(texts) - limit)>>, separator)
    ELSE Join(texts, separator)
\* A text is split at the separator, which is one word.
SplitAt(t, separator) ==
    FoldLeft(LAMBDA parts, w : IF <<w>> = separator THEN Append(parts, Empty)
                               ELSE Append(Front(parts), Last(parts) \o <<w>>), <<Empty>>, t)
Trimmed(texts) == [i \in DOMAIN texts |-> Trim(texts[i])]
PartsOf(v, separator) ==
    NonEmpty(IF v.kind = "list" THEN v.items ELSE Trimmed(SplitAt(asText(v), separator)))
JoinedList(v, args) ==
    LET separator == Arg(args, "separator", <<", ">>)
    IN  JoinedUpTo(IF isYes(args, "unique", FALSE) THEN Distinct(PartsOf(v, separator))
                   ELSE PartsOf(v, separator), separator, Arg(args, "limit", 0))

\* The transformations of one line.
Simple(id, v, args) ==
    CASE id = "default_if_empty" -> IF Trim(asText(v)) # Empty THEN Trim(asText(v))
                                    ELSE Arg(args, "value", Empty)
      [] id = "trim"       -> Trim(asText(v))
      [] id = "uppercase"  -> Upper(asText(v))
      [] id = "lowercase"  -> Lower(asText(v))
      [] id = "title_case" -> Convert(asText(v), TitleForm)
      [] OTHER             -> asText(v)

\* toFixed takes up to 100 decimals, and only number_format clamps them.
Throws(id, v, args) == id = "number_round" /\ IsNumber(v) /\ Arg(args, "decimals", 2) > 100

\* By id.  An unknown one, and one that throws, renders the value as text.
\* resolve is the row, as a function of the paths.
applyTransformation(id, v, args, resolve) ==
    CASE Throws(id, v, args)  -> asText(v)
      [] id = "prefix"        -> Prefixed(v, args)
      [] id = "suffix"        -> Suffixed(v, args)
      [] id = "prefix_suffix" -> Arg(args, "prefix", Empty) \o asText(v) \o Arg(args, "suffix", Empty)
      [] id = "text_cleanup"  -> CleanedUp(v, args)
      [] id = "replace"       -> Replaced(v, args)
      [] id = "truncate"      -> Truncated(v, args)
      [] id = "date_format"   -> DateFormatted(v, args)
      [] id \in {"number_format", "number_round"} -> NumberText(v, args)
      [] id = "currency"      -> CurrencyText(v, args, resolve["order.currency"])
      [] id = "conditional"   -> Conditional(v, args)
      [] id = "boolean_label" -> BooleanLabel(v, args)
      [] id = "combine_fields" ->
            Combined(v, args, LET fields == Arg(args, "fields", <<>>)
                              IN  [i \in DOMAIN fields |-> resolve[fields[i]]])
      [] id = "join_list"     -> JoinedList(v, args)
      [] OTHER                -> Simple(id, v, args)
=============================================================================
