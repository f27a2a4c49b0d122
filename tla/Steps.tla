-------------------------------- MODULE Steps --------------------------------
(***************************************************************************)
(* What an agent's steps compute with: values, references to them, the     *)
(* operations of compute steps and the conditions of branches.             *)
(*                                                                         *)
(* A value is a record of one field that names its kind: [none], [figure], *)
(* [text], [list] or [record].  A text is a sequence of words, figures and *)
(* dates, so that a figure keeps its meaning when it is written down.      *)
(* Figures are in hundredths and dates in hundredths of a day: decimal     *)
(* arithmetic without the dust of binary fractions.                        *)
(***************************************************************************)
EXTENDS Integers, Sequences, SequencesExt

CONSTANTS
    Lower,      \* a word in lower case
    Locales     \* the words that name a locale

Nothing == [none |-> 0]
Figure(n) == [figure |-> n]
Word(w) == [text |-> <<[word |-> w]>>]
Empty == [text |-> <<>>]
Is(kind, v) == kind \in DOMAIN v
Wrong == [wrong |-> 0]      \* { ok: false }

\* resolvePath: a path may miss, and does not go into a list.
Walk(v, segment) ==
    IF Is("record", v) /\ segment \in DOMAIN v.record THEN v.record[segment] ELSE Nothing

\* What is reached after so many segments of the path.
Walked(store, path) ==
    LET after[n \in 0 .. Len(path)] ==
            IF n = 0 THEN [record |-> store] ELSE Walk(after[n - 1], path[n])
    IN after

ResolvePath(store, path) == Walked(store, path)[Len(path)]

Stringify(v) ==
    IF Is("none", v) THEN <<>>
    ELSE IF Is("text", v) THEN v.text
    ELSE IF Is("figure", v) THEN <<v>> ELSE <<[json |-> v]>>

\* interpolate: a template is a sequence of references and literal parts.
Interpolate(template, store) ==
    FlattenSeq([k \in DOMAIN template |->
        IF "path" \in DOMAIN template[k]
        THEN Stringify(ResolvePath(store, template[k].path)) ELSE <<template[k]>>])

\* resolveOperand: a whole reference keeps the type of its value.
Resolve(operand, store) ==
    IF "path" \in DOMAIN operand THEN ResolvePath(store, operand.path)
    ELSE [text |-> Interpolate(operand.template, store)]

\* What an operand may be: a reference, or a template of references and literal
\* parts.  What a search found is no literal.
IsSequence(s) == s \in Seq(Range(s))
IsPath(path) == IsSequence(path) /\ path # <<>>
IsLiteral(part) ==
    /\ ~Is("passage", part)
    /\ Is("figure", part) => part.figure \in Int
    /\ Is("date", part) => part.date \in Int
IsOperand(operand) ==
    IF "path" \in DOMAIN operand THEN IsPath(operand.path)
    ELSE /\ IsSequence(operand.template)
         /\ \A k \in DOMAIN operand.template :
               LET part == operand.template[k]
               IN IF "path" \in DOMAIN part THEN IsPath(part.path) ELSE IsLiteral(part)

\* computeOperationSchema
Operations ==
    {"add", "subtract", "multiply", "divide", "round", "template", "date_add_days",
     "date_diff_days", "date_format", "sum", "count", "avg"}

IsNumber(v) ==
    \/ Is("figure", v)
    \/ Is("text", v) /\ Len(v.text) = 1 /\ Is("figure", v.text[1])
AsNumber(v) == IF Is("figure", v) THEN v.figure ELSE v.text[1].figure

\* asDate: a date as text; a figure is so many milliseconds after the epoch.
IsDate(v) ==
    Is("figure", v) \/ (Is("text", v) /\ Len(v.text) = 1 /\ Is("date", v.text[1]))
AsDate(v) == IF Is("figure", v) THEN 0 ELSE v.text[1].date

AsList(v) == IF Is("list", v) THEN v.list ELSE IF Is("none", v) THEN <<>> ELSE <<v>>

\* Math.round of n / d: halves go up.
RoundDiv(n, d) ==
    LET m == IF d < 0 THEN -n ELSE n
        e == IF d < 0 THEN -d ELSE d
    IN (2 * m + e) \div (2 * e)

RoundTo(n, decimals) ==
    CASE decimals = 0 -> 100 * RoundDiv(n, 100)
      [] decimals = 1 -> 10 * RoundDiv(n, 10)
      [] OTHER -> n

Arithmetic(operation, a, b) ==
    CASE operation = "add" -> Figure(a + b)
      [] operation = "subtract" -> Figure(a - b)
      [] operation = "multiply" -> Figure(RoundDiv(a * b, 100))
      [] operation = "divide" ->
           IF b = 0 THEN Wrong ELSE Figure(RoundDiv(100 * a, b))

\* requireNumbers: enough operands, and the first so many are figures.
HasNumbers(values, count) ==
    Len(values) >= count /\ \A k \in 1 .. count : IsNumber(values[k])

ComputeArithmetic(operation, values) ==
    IF ~HasNumbers(values, 2) THEN Wrong
    ELSE Arithmetic(operation, AsNumber(values[1]), AsNumber(values[2]))

ComputeRound(values) ==
    IF ~HasNumbers(values, 1) THEN Wrong
    ELSE IF Len(values) = 1 THEN Figure(RoundTo(AsNumber(values[1]), 0))
    ELSE IF ~IsNumber(values[2]) \/ AsNumber(values[2]) \notin 0 .. 1000 THEN Wrong
    ELSE Figure(RoundTo(AsNumber(values[1]), AsNumber(values[2]) \div 100))

ComputeDate(operation, values) ==
    CASE operation = "date_add_days" ->
           IF Len(values) < 2 \/ ~IsDate(values[1]) \/ ~IsNumber(values[2]) THEN Wrong
           ELSE [text |-> <<[date |-> AsDate(values[1]) + AsNumber(values[2])]>>]
      [] operation = "date_diff_days" ->
           IF Len(values) < 2 \/ ~IsDate(values[1]) \/ ~IsDate(values[2]) THEN Wrong
           ELSE Figure(100 * RoundDiv(AsDate(values[1]) - AsDate(values[2]), 100))
      [] operation = "date_format" ->
           IF ~IsDate(values[1])
              \/ (Len(values) > 1 /\ Stringify(values[2]) \notin {<<[word |-> w]>> : w \in Locales})
           THEN Wrong
           ELSE [text |-> <<[day |-> AsDate(values[1]) \div 100]>>]

\* numbersFromList: the items, or the field of each that the second operand
\* names, its words being the segments of the path.
FieldOf(item, values) ==
    IF Len(values) < 2 \/ Stringify(values[2]) = <<>> THEN item
    ELSE ResolvePath([i \in {"item"} |-> item],
                     <<"item">> \o [k \in DOMAIN Stringify(values[2]) |->
                                       Stringify(values[2])[k].word])

\* The items of the list in the first operand, and whether all are figures.
ItemsOf(values) ==
    [k \in DOMAIN AsList(values[1]) |-> FieldOf(AsList(values[1])[k], values)]
AllNumbers(items) == \A k \in DOMAIN items : IsNumber(items[k])

\* The sums of the first so many.
Sums(figures) ==
    LET sum[n \in 0 .. Len(figures)] ==
            IF n = 0 THEN 0 ELSE sum[n - 1] + AsNumber(figures[n])
    IN sum
Total(figures) == Sums(figures)[Len(figures)]

OfNothing_zero(operation) == Figure(0)
OfNothing(operation) == IF operation = "sum" THEN Figure(0) ELSE Wrong

ComputeAggregate(operation, values) ==
    LET items == ItemsOf(values)
    IN IF ~AllNumbers(items) THEN Wrong
       ELSE IF items = <<>> THEN OfNothing(operation)
       ELSE IF operation = "sum" THEN Figure(Total(items))
       ELSE Figure(RoundDiv(Total(items), Len(items)))

\* runCompute.  The template operation takes its operand as a template.
Compute(operation, operands, store) ==
    LET values == [k \in DOMAIN operands |-> Resolve(operands[k], store)]
    IN CASE operation \in {"add", "subtract", "multiply", "divide"} ->
              ComputeArithmetic(operation, values)
         [] operation = "round" -> ComputeRound(values)
         [] operation = "template" -> [text |-> Stringify(values[1])]
         [] operation = "count" -> Figure(100 * Len(AsList(values[1])))
         [] operation \in {"sum", "avg"} -> ComputeAggregate(operation, values)
         [] OTHER -> ComputeDate(operation, values)

\* isPresent: an empty text and an empty list are not.
IsPresent_notNull(v) == ~Is("none", v)
IsPresent(v) ==
    /\ ~Is("none", v)
    /\ Is("text", v) => v.text # <<>>
    /\ Is("list", v) => v.list # <<>>

InLowerCase(text) ==
    [k \in DOMAIN text |->
        IF Is("word", text[k]) THEN [word |-> Lower[text[k].word]] ELSE text[k]]

Includes(text, part) ==
    \E i \in 0 .. Len(text) - Len(part) : SubSeq(text, i + 1, i + Len(part)) = part

Ordered(operator, m, n) ==
    CASE operator = "eq" -> m = n
      [] operator = "neq" -> m # n
      [] operator = "gt" -> m > n
      [] operator = "gte" -> m >= n
      [] operator = "lt" -> m < n
      [] operator = "lte" -> m <= n

\* evaluateCondition: figures compare by size when both sides are figures.
Holds(condition, store) ==
    LET left == Resolve(condition.left, store)
        right == Resolve(condition.right, store)
    IN CASE condition.operator = "exists" -> IsPresent(left)
         [] condition.operator = "not_exists" -> ~IsPresent(left)
         [] condition.operator = "contains" ->
              Includes(InLowerCase(Stringify(left)), InLowerCase(Stringify(right)))
         [] OTHER ->
              IF IsNumber(left) /\ IsNumber(right)
              THEN Ordered(condition.operator, AsNumber(left), AsNumber(right))
              ELSE CASE condition.operator = "eq" -> Stringify(left) = Stringify(right)
                     [] condition.operator = "neq" -> Stringify(left) # Stringify(right)
                     [] OTHER -> FALSE
=============================================================================
