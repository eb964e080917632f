---------------------------- MODULE Predicates ----------------------------
(***************************************************************************)
(* WHERE predicates: how src/src/execution/physical.rs evaluates them on a *)
(* batch (evaluate_filter) and on a decoded view, and how LIKE is matched. *)
(*                                                                         *)
(* A row maps columns to values; a string is a tuple of character codes,   *)
(* since LIKE and its range of prefixes look inside.  Masks are computed   *)
(* row by row: TRUE, FALSE, Null (unknown) or Error, an error of the whole *)
(* batch, which never depends on the row.  Dates, timestamps and decimals  *)
(* are integers here: their literals are taken as already converted.       *)
(***************************************************************************)
EXTENDS Integers, FiniteSets, SequencesExt

CONSTANTS
    Null, Error,   \* SQL's unknown; a filter that does not fit the column
    Unsupported,   \* an evaluator that gives up, so that its caller takes another one
    NaN,           \* above every number in Arrow's order of floats
    ColumnType,    \* file columns with "int32", "int64", "float" or "string"
    Int32Max       \* the largest 32-bit integer

Columns == DOMAIN ColumnType
Percent == 37
Underscore == 95
MaxAscii == 127

-----------------------------------------------------------------------------
(* Literals and comparisons.                                               *)

NullLiteral == [t |-> "null"]
IntLit(n) == [t |-> "int", v |-> n]
FloatLit(n) == [t |-> "float", v |-> n]
StrLit(s) == [t |-> "string", text |-> s]

\* The text of an integer: its digits, behind a minus sign.
RECURSIVE Digits(_)
Digits(n) == IF n < 0 THEN <<45>> \o Digits(-n)
             ELSE IF n < 10 THEN <<48 + n>> ELSE Digits(n \div 10) \o <<48 + (n % 10)>>

\* The literal as a value of a column of that type: as_i32, as_i64, as_f64 and as_str.
\* Only a float literal has no text here.
AsType(type, lit) ==
    CASE type = "string" -> IF lit.t = "int" THEN Digits(lit.v) ELSE lit.text
      [] type = "float" -> IF lit.t \in {"int", "float"} THEN lit.v ELSE Error
      [] type = "int32" /\ lit.t = "int" -> IF lit.v \in -Int32Max - 1 .. Int32Max THEN lit.v ELSE Error
      [] type = "int64" /\ lit.t = "int" -> lit.v
      [] OTHER -> Error

\* Byte-wise order of strings.
LexLess(s, t) ==
    \E k \in 0 .. Len(s) :
        /\ k <= Len(t)
        /\ SubSeq(s, 1, k) = SubSeq(t, 1, k)
        /\ \/ k = Len(s) /\ k < Len(t)
           \/ k < Len(s) /\ k < Len(t) /\ s[k + 1] < t[k + 1]

\* Arrow's order: for floats NaN is one value, above all others.
Less(type, a, b) ==
    CASE type = "string" -> LexLess(a, b)
      [] a = NaN -> FALSE
      [] b = NaN -> TRUE
      [] OTHER -> a < b

Compare(type, op, a, b) ==
    CASE op = "=" -> a = b
      [] op = "<>" -> a # b
      [] op = "<" -> Less(type, a, b)
      [] op = "<=" -> ~Less(type, b, a)
      [] op = ">" -> Less(type, b, a)
      [] op = ">=" -> ~Less(type, a, b)

\* and_kleene, or_kleene and not; an error in either operand is an error.
NotMask(a) == IF a \in {Null, Error} THEN a ELSE ~a
OrMasks(a, b) ==
    CASE Error \in {a, b} -> Error
      [] TRUE \in {a, b} -> TRUE
      [] Null \in {a, b} -> Null
      [] OTHER -> FALSE
AndMasks(a, b) == NotMask(OrMasks(NotMask(a), NotMask(b)))

EvaluateComparison(row, col, op, lit) ==
    IF lit = NullLiteral THEN Null
    ELSE IF col \notin DOMAIN row THEN Error
    ELSE LET type == IF col \in Columns THEN ColumnType[col] ELSE "string"
             v == AsType(type, lit)
         IN IF v = Error THEN Error
            ELSE IF row[col] = Null THEN Null ELSE Compare(type, op, row[col], v)

EvaluateColumnComparison(row, left, op, right) ==
    IF {left, right} \ DOMAIN row # {} THEN Error
    ELSE LET type == [c \in {left, right} |-> IF c \in Columns THEN ColumnType[c] ELSE "string"]
         IN IF type[left] # type[right] THEN Error
            ELSE IF Null \in {row[left], row[right]} THEN Null
            ELSE Compare(type[left], op, row[left], row[right])

NullifyFalse(mask) == IF mask = FALSE THEN Null ELSE mask

EvaluateInList(row, col, vals, negated, hasNull) ==
    LET found == FoldLeft(LAMBDA mask, lit : OrMasks(mask, EvaluateComparison(row, col, "=", lit)),
                          FALSE, vals)
        mask == IF hasNull THEN NullifyFalse(found) ELSE found
    IN IF negated THEN NotMask(mask) ELSE mask

EvaluateIsNull(row, col, negated) ==
    IF col \notin DOMAIN row THEN Error ELSE (row[col] = Null) # negated

-----------------------------------------------------------------------------
(* LIKE: matched segment by segment when the pattern has neither '_' nor an *)
(* escape character (escape is Null), else by following its tokens.         *)

Lower(c) == IF c \in 65 .. 90 THEN c + 32 ELSE c
LowerCase(s) == [i \in DOMAIN s |-> Lower(s[i])]
Has(s, c) == \E i \in DOMAIN s : s[i] = c
Starts(s, part) == Len(part) <= Len(s) /\ SubSeq(s, 1, Len(part)) = part
Ends(s, part) == Len(part) <= Len(s) /\ SubSeq(s, Len(s) - Len(part) + 1, Len(s)) = part

\* The non-empty pieces between the percent signs.
Segments(pattern) ==
    LET marks == {0, Len(pattern) + 1} \cup {i \in DOMAIN pattern : pattern[i] = Percent}
        starts == SetToSortSeq({i \in marks : i + 1 \in DOMAIN pattern \ marks}, <)
        End(i) == CHOOSE j \in marks : j > i /\ \A k \in marks : k > i => k >= j
    IN [n \in DOMAIN starts |-> SubSeq(pattern, starts[n] + 1, End(starts[n]) - 1)]

\* Finder::find from an offset: the offset behind the first occurrence, -1 without one.
FindAfter(s, part, offset) ==
    LET at == {i \in offset .. Len(s) - Len(part) : SubSeq(s, i + 1, i + Len(part)) = part}
    IN IF at = {} THEN -1 ELSE Len(part) + CHOOSE i \in at : \A j \in at : i <= j

\* Mutant: the last segment may overlap the ones before it.
OrderedMatchesOverlapping(s, segs, startsAny, endsAny) ==
    LET last == Len(segs)
        Advance(offset, n) ==
            CASE offset = -1 -> -1
              [] n = 1 /\ ~startsAny -> Len(segs[1])
              [] n = last /\ ~endsAny -> offset
              [] OTHER -> FindAfter(s, segs[n], offset)
    IN /\ startsAny \/ Starts(s, segs[1])
       /\ endsAny \/ Ends(s, segs[last])
       /\ FoldLeft(Advance, 0, [n \in DOMAIN segs |-> n]) # -1

\* FastLikePattern::matches for two or more segments.
OrderedMatches(s, segs, startsAny, endsAny) ==
    LET last == Len(segs)
        Advance(offset, n) ==
            CASE offset = -1 -> -1
              [] n = 1 /\ ~startsAny -> Len(segs[1])
              [] n = last /\ ~endsAny ->
                     IF Len(s) - Len(segs[n]) < offset THEN -1 ELSE offset
              [] OTHER -> FindAfter(s, segs[n], offset)
    IN /\ startsAny \/ Starts(s, segs[1])
       /\ endsAny \/ Ends(s, segs[last])
       /\ FoldLeft(Advance, 0, [n \in DOMAIN segs |-> n]) # -1

\* fast_like_pattern with FastLikePattern::matches.
FastLikeApplies(pattern, escape) == escape = Null /\ ~Has(pattern, Underscore)
FastLikeMatches(s, pattern) ==
    LET segs == Segments(pattern)
        startsAny == pattern # <<>> /\ pattern[1] = Percent
        endsAny == pattern # <<>> /\ pattern[Len(pattern)] = Percent
    IN CASE Len(segs) = 0 -> TRUE
         [] Len(segs) = 1 /\ ~startsAny /\ ~endsAny -> s = segs[1]
         [] Len(segs) = 1 /\ ~startsAny /\ endsAny -> Starts(s, segs[1])
         [] Len(segs) = 1 /\ startsAny /\ ~endsAny -> Ends(s, segs[1])
         [] Len(segs) = 1 /\ startsAny /\ endsAny -> FindAfter(s, segs[1], 0) # -1
         [] OTHER -> OrderedMatches(s, segs, startsAny, endsAny)

AnyMany == -1
AnyOne == -2

\* like_pattern_tokens: a literal token is its character.
LikePatternTokens(pattern, escape) ==
    LET Push(seen, c) ==
            CASE seen.escaped -> [tokens |-> Append(seen.tokens, c), escaped |-> FALSE]
              [] ~seen.escaped /\ c = escape -> [seen EXCEPT !.escaped = TRUE]
              [] ~seen.escaped /\ c # escape ->
                     [seen EXCEPT !.tokens =
                         IF c = Percent
                         THEN IF @ # <<>> /\ @[Len(@)] = AnyMany THEN @ ELSE Append(@, AnyMany)
                         ELSE Append(@, IF c = Underscore THEN AnyOne ELSE c)]
        read == FoldLeft(Push, [tokens |-> <<>>, escaped |-> FALSE], pattern)
    IN IF read.escaped THEN Error ELSE read.tokens

\* like_matches: the prefixes of s, by length, that the tokens read so far can match.
LikeMatches(s, tokens) ==
    LET Follow(matched, token) ==
            IF token = AnyMany THEN {j \in 0 .. Len(s) : \E i \in matched : i <= j}
            ELSE {i + 1 : i \in {k \in matched : k < Len(s) /\ token \in {AnyOne, s[k + 1]}}}
    IN Len(s) \in FoldLeft(Follow, {0}, tokens)

\* evaluate_like and evaluate_like_values.
EvaluateLike(row, e) ==
    LET pattern == IF e.insensitive THEN LowerCase(e.pattern) ELSE e.pattern
        tokens == LikePatternTokens(pattern, e.escape)
        s == IF e.insensitive THEN LowerCase(row[e.col]) ELSE row[e.col]
    IN CASE e.col \notin DOMAIN row -> Error
         [] e.col \in Columns /\ ColumnType[e.col] # "string" -> Error
         [] ~FastLikeApplies(pattern, e.escape) /\ tokens = Error -> Error
         [] row[e.col] = Null -> Null
         [] FastLikeApplies(pattern, e.escape) -> FastLikeMatches(s, pattern) # e.negated
         [] OTHER -> LikeMatches(s, tokens) # e.negated

-----------------------------------------------------------------------------
(* The evaluator on batches and the one on decoded views.                  *)

RECURSIVE EvaluateFilter(_, _)
EvaluateFilter(row, e) ==
    CASE e.e = "bool" -> e.v
      [] e.e = "cmp" -> EvaluateComparison(row, e.col, e.op, e.lit)
      [] e.e = "colcmp" -> EvaluateColumnComparison(row, e.left, e.op, e.right)
      [] e.e = "in" -> EvaluateInList(row, e.col, e.vals, e.negated, e.hasNull)
      [] e.e = "like" -> EvaluateLike(row, e)
      [] e.e = "isnull" -> EvaluateIsNull(row, e.col, e.negated)
      [] e.e = "not" -> NotMask(EvaluateFilter(row, e.x))
      [] e.e = "and" -> AndMasks(EvaluateFilter(row, e.l), EvaluateFilter(row, e.r))
      [] e.e = "or" -> OrMasks(EvaluateFilter(row, e.l), EvaluateFilter(row, e.r))

\* The view evaluators give up with Unsupported, and the caller decodes a batch instead.
ViewColumn(col) == col \in Columns /\ ColumnType[col] \in {"int32", "int64"}

ViewComparison(row, col, op, lit) ==
    IF lit = NullLiteral THEN Null
    ELSE IF ~ViewColumn(col) THEN Unsupported
    ELSE LET v == AsType(ColumnType[col], lit)
         IN IF v = Error THEN Error
            ELSE IF row[col] = Null THEN Null ELSE Compare(ColumnType[col], op, row[col], v)

\* Mutant: a NULL in the list is forgotten.
ViewInListWithoutNull(row, e) ==
    IF ~ViewColumn(e.col) THEN Unsupported
    ELSE LET vals == {AsType(ColumnType[e.col], e.vals[i]) : i \in DOMAIN e.vals}
         IN CASE Error \in vals -> Error
              [] row[e.col] = Null -> Null
              [] OTHER -> (row[e.col] \in vals) # e.negated

\* evaluate_projected_view_in_list_mask with append_in_list_result: a NULL value is
\* unknown, even in an empty list.
ViewInList(row, e) ==
    IF ~ViewColumn(e.col) THEN Unsupported
    ELSE LET vals == {AsType(ColumnType[e.col], e.vals[i]) : i \in DOMAIN e.vals}
         IN CASE Error \in vals -> Error
              [] row[e.col] = Null -> Null
              [] row[e.col] \in vals -> ~e.negated
              [] OTHER -> IF e.hasNull THEN Null ELSE e.negated

ViewPair(a, b, both) ==
    CASE a \in {Unsupported, Error} -> a
      [] b \in {Unsupported, Error} -> b
      [] OTHER -> both

RECURSIVE EvaluateView(_, _)
EvaluateView(row, e) ==
    CASE e.e = "bool" -> e.v
      [] e.e = "cmp" -> ViewComparison(row, e.col, e.op, e.lit)
      [] e.e = "in" -> ViewInList(row, e)
      [] e.e = "not" -> LET mask == EvaluateView(row, e.x)
                        IN IF mask = Unsupported THEN mask ELSE NotMask(mask)
      [] e.e \in {"and", "or"} ->
            LET l == EvaluateView(row, e.l)
                r == EvaluateView(row, e.r)
            IN  ViewPair(l, r, IF e.e = "and" THEN AndMasks(l, r) ELSE OrMasks(l, r))
      [] e.e \in {"colcmp", "like", "isnull"} -> Unsupported

-----------------------------------------------------------------------------
(* What SQL says of a predicate, written without the code's cases.         *)

RECURSIVE LikeSays(_, _, _)
LikeSays(s, pattern, escape) ==
    IF pattern = <<>> THEN s = <<>>
    ELSE CASE pattern[1] = escape ->
                  s # <<>> /\ s[1] = pattern[2] /\ LikeSays(Tail(s), SubSeq(pattern, 3, Len(pattern)), escape)
           [] pattern[1] # escape /\ pattern[1] = Percent ->
                  \E i \in 1 .. Len(s) + 1 : LikeSays(SubSeq(s, i, Len(s)), Tail(pattern), escape)
           [] OTHER -> /\ s # <<>>
                       /\ pattern[1] \in {Underscore, s[1]}
                       /\ LikeSays(Tail(s), Tail(pattern), escape)

\* An escape character escapes something.
RECURSIVE WellEscaped(_, _)
WellEscaped(pattern, escape) ==
    \/ pattern = <<>>
    \/ pattern[1] # escape /\ WellEscaped(Tail(pattern), escape)
    \/ pattern[1] = escape /\ Len(pattern) > 1 /\ WellEscaped(SubSeq(pattern, 3, Len(pattern)), escape)

TypeOf(col) == IF col \in Columns THEN ColumnType[col] ELSE "string"

\* A predicate over existing columns whose literals have their columns' types.
RECURSIVE WellTyped(_, _)
WellTyped(cols, e) ==
    CASE e.e = "bool" -> TRUE
      [] e.e = "cmp" -> e.lit = NullLiteral \/ (e.col \in cols /\ AsType(TypeOf(e.col), e.lit) # Error)
      [] e.e = "colcmp" -> {e.left, e.right} \subseteq cols /\ TypeOf(e.left) = TypeOf(e.right)
      [] e.e = "in" -> /\ e.col \in cols
                       /\ \A i \in DOMAIN e.vals : AsType(TypeOf(e.col), e.vals[i]) # Error
      [] e.e = "like" -> /\ e.col \in cols /\ TypeOf(e.col) = "string"
                         /\ WellEscaped(e.pattern, e.escape)
      [] e.e = "isnull" -> e.col \in cols
      [] e.e = "not" -> WellTyped(cols, e.x)
      [] e.e \in {"and", "or"} -> WellTyped(cols, e.l) /\ WellTyped(cols, e.r)

\* The truth value of a well-typed predicate.
RECURSIVE SqlSays(_, _)
SqlSays(row, e) ==
    CASE e.e = "bool" -> e.v
      [] e.e = "cmp" ->
             IF e.lit = NullLiteral \/ row[e.col] = Null THEN Null
             ELSE Compare(TypeOf(e.col), e.op, row[e.col], AsType(TypeOf(e.col), e.lit))
      [] e.e = "colcmp" ->
             IF Null \in {row[e.left], row[e.right]} THEN Null
             ELSE Compare(TypeOf(e.left), e.op, row[e.left], row[e.right])
      [] e.e = "in" ->
             LET vals == {AsType(TypeOf(e.col), e.vals[i]) : i \in DOMAIN e.vals}
                 found == CASE vals = {} /\ ~e.hasNull -> FALSE
                            [] row[e.col] = Null -> Null
                            [] row[e.col] \in vals -> TRUE
                            [] OTHER -> IF e.hasNull THEN Null ELSE FALSE
             IN IF found = Null THEN Null ELSE found # e.negated
      [] e.e = "like" ->
             IF row[e.col] = Null THEN Null
             ELSE (IF e.insensitive
                   THEN LikeSays(LowerCase(row[e.col]), LowerCase(e.pattern), e.escape)
                   ELSE LikeSays(row[e.col], e.pattern, e.escape)) # e.negated
      [] e.e = "isnull" -> (row[e.col] = Null) # e.negated
      [] e.e = "not" -> LET x == SqlSays(row, e.x) IN IF x = Null THEN Null ELSE ~x
      [] e.e = "and" ->
             LET both == {SqlSays(row, e.l), SqlSays(row, e.r)}
             IN IF FALSE \in both THEN FALSE ELSE IF Null \in both THEN Null ELSE TRUE
      [] e.e = "or" ->
             LET both == {SqlSays(row, e.l), SqlSays(row, e.r)}
             IN IF TRUE \in both THEN TRUE ELSE IF Null \in both THEN Null ELSE FALSE
=============================================================================
