------------------------------- MODULE JsonText -------------------------------
(***************************************************************************)
(* The JSON the SDK writes (json_writer) and the scanners it reads the     *)
(* answers of the server with (json_scan).                                 *)
(*                                                                         *)
(* A text is a sequence of symbols.  A word that holds no character of     *)
(* JSON's own, a key or a value, is one symbol; quotes, backslashes,       *)
(* brackets, digits, white space and the letters of escapes are symbols of *)
(* their own.  An optional value is a sequence of one or none.             *)
(***************************************************************************)
EXTENDS Integers, Sequences, FiniteSets, SequencesExt

CONSTANTS
    MaxDigits,       \* max_digits of find_int_field
    MaxRequests,     \* max_requests of find_pending_requests
    MaxFields,       \* the form fields find_log_upload accepts
    MaxFieldName,    \* and the lengths of their names and values
    MaxFieldValue,
    MaxBody          \* the response size find_log_upload reads

Quote   == "\""
Slash   == "\\"
Newline == "\n"
Control == "^A"      \* the character with code 1
Smile   == ":-)"     \* a character outside the first plane, U+1F600

White  == {" ", "\t", Newline, "\r"}
BareControl == (White \ {" "}) \cup {Control, "backspace", "\f"}
Digits == <<"0", "1", "2", "3", "4", "5", "6", "7", "8", "9">>
HexDigits == Digits \o <<"a", "b", "c", "d", "e", "f">>

\* The characters that have an escape, the surrogates of one that has two, and the codes
\* of some characters, either half of a pair among them.
Escapes  == (Quote :> Quote) @@ (Slash :> Slash) @@ (Newline :> "n") @@ ("\r" :> "r")
            @@ ("\t" :> "t") @@ ("backspace" :> "b") @@ ("\f" :> "f")
Halves   == Smile :> <<"<D83D>", "<DE00>">>
CodeOf   == (Control :> 1) @@ (Newline :> 10) @@ (Quote :> 34) @@ ("/" :> 47) @@ (Slash :> 92)
            @@ ("<D83D>" :> 55357) @@ ("<DE00>" :> 56832)

-----------------------------------------------------------------------------
(* json_writer *)

Hex4(code) == <<HexDigits[(code \div 4096) + 1], HexDigits[((code \div 256) % 16) + 1],
                HexDigits[((code \div 16) % 16) + 1], HexDigits[(code % 16) + 1]>>

\* json_escape.
Escape(value) ==
    FlattenSeq([i \in DOMAIN value |->
        CASE value[i] \in DOMAIN Escapes -> <<Slash, Escapes[value[i]]>>
          [] value[i] = Control -> <<Slash, "u">> \o Hex4(CodeOf[Control])
          [] OTHER -> <<value[i]>>])

StringText(value) == <<Quote>> \o Escape(value) \o <<Quote>>

\* element_prefix puts a comma before every element of a scope but the first.
Elements(elements) ==
    FlattenSeq([i \in DOMAIN elements |-> (IF i = 1 THEN <<>> ELSE <<",">>) \o elements[i]])

ObjectText(members) == <<"{">> \o Elements(members) \o <<"}">>

\* int_field.
IntText(value) ==
    LET size == IF value < 0 THEN -value ELSE value
        text[n \in 0 .. size] ==
            IF n < 10 THEN <<Digits[n + 1]>> ELSE Append(text[n \div 10], Digits[(n % 10) + 1])
    IN  (IF value < 0 THEN <<"-">> ELSE <<>>) \o text[size]

-----------------------------------------------------------------------------
(* json_scan: scalars *)

At(text, i) == IF i \in DOMAIN text THEN text[i] ELSE ""

\* The first place from i on that holds no white space.
SkipSpace(text, i) ==
    CHOOSE j \in i .. Len(text) + 1 :
        At(text, j) \notin White /\ \A k \in i .. j - 1 : text[k] \in White

First(places) == CHOOSE i \in places : \A j \in places : i <= j

\* find_value_start: past the first "key" that a colon follows; 0 when there is none.
FindValueStart(text, key) ==
    LET colon(i) == SkipSpace(text, i + 3)
        valueAt(keys) == IF keys = {} THEN 0 ELSE SkipSpace(text, colon(First(keys)) + 1)
    IN  valueAt({i \in DOMAIN text :
                   /\ text[i] = Quote /\ At(text, i + 1) = key /\ At(text, i + 2) = Quote
                   /\ At(text, colon(i)) = ":"})

EscapedMutant(text, i) == At(text, i - 1) = Slash

\* The character at i is escaped: the backslashes before it are odd in number.
Escaped(text, i) ==
    At(text, i - 1) = Slash /\ \E n \in 1 .. i - 1 :
        /\ n % 2 = 1
        /\ \A k \in 1 .. n : text[i - k] = Slash
        /\ At(text, i - n - 1) # Slash

Failed == [ok |-> FALSE, value |-> <<>>, after |-> 0]

\* What an escape sequence stands for, as a sequence of one or none.  append_utf8 takes
\* each \u by itself: the halves of a surrogate pair stay two characters.
Unescaped(escape) ==
    SetToSeq(CASE At(escape, 2) = "u" -> {c \in DOMAIN CodeOf : Tail(Tail(escape)) = Hex4(CodeOf[c])}
               [] At(escape, 2) = "/" -> {"/"}
               [] OTHER -> {c \in DOMAIN Escapes : Escapes[c] = At(escape, 2)})

\* The string between two quotes, with the places where its escapes start.
Unquoted(text, at, end, escapes) ==
    LET width(i)  == IF At(text, i + 1) = "u" THEN 6 ELSE 2
        escape(i) == Unescaped(SubSeq(text, i, Min({i + width(i), end}) - 1))
        piece(i)  == IF i \in escapes THEN escape(i)
                     ELSE IF \E e \in escapes : i \in e + 1 .. e + width(e) - 1 THEN <<>>
                     ELSE <<text[i]>>
    IN  IF \/ \E i \in at + 1 .. end - 1 : text[i] \in BareControl
           \/ \E i \in escapes : escape(i) = <<>>
        THEN Failed
        ELSE [ ok |-> TRUE, after |-> end + 1,
               value |-> FlattenSeq([k \in 1 .. end - at - 1 |-> piece(at + k)]) ]

StringTo(text, at, end) ==
    Unquoted(text, at, end, {i \in at + 1 .. end - 1 : text[i] = Slash /\ ~ Escaped(text, i)})

StringEndingIn(text, at, ends) ==
    IF At(text, at) # Quote \/ ends = {} THEN Failed ELSE StringTo(text, at, First(ends))

\* read_string: a string that starts at a quote, unescaped; it fails on a bare
\* control character, an unknown escape and the end of the text.
ReadString(text, at) ==
    StringEndingIn(text, at, {j \in at + 1 .. Len(text) : text[j] = Quote /\ ~ Escaped(text, j)})

Value(read) == IF read.ok THEN <<read.value>> ELSE <<>>

\* find_string_field.
FindString(text, key) == Value(ReadString(text, FindValueStart(text, key)))

\* An optional sign and at most MaxDigits digits, not followed by more of a number.
IntAt(text, first) ==
    LET isDigit(i) == At(text, i) \in Range(Digits)
        last     == CHOOSE j \in first - 1 .. Len(text) :
                      /\ \A i \in first .. j : isDigit(i)
                      /\ ~ isDigit(j + 1) \/ j = first + MaxDigits - 1
        sum[j \in first - 1 .. last] ==
            IF j < first THEN 0
            ELSE 10 * sum[j - 1] + (CHOOSE n \in 0 .. 9 : Digits[n + 1] = text[j])
    IN  IF first > Len(text) \/ last < first \/ At(text, last + 1) \in {".", "e", "E"} \cup Range(Digits)
        THEN <<>> ELSE <<sum[last]>>

SignedAt(text, at) ==
    IF at = 0 THEN <<>>
    ELSE IF At(text, at) # "-" THEN IntAt(text, at)
    ELSE [k \in DOMAIN IntAt(text, at + 1) |-> -IntAt(text, at + 1)[k]]

\* find_int_field.
FindInt(text, key) == SignedAt(text, FindValueStart(text, key))

-----------------------------------------------------------------------------
(* json_scan: objects *)

\* What stands between an opening brace and the closing one at each of the ends.
Cut(text, open, ends) ==
    LET before(c) == {e \in ends : e < c}
        start(c)  == First({o \in open : o < c /\ \A e \in before(c) : e < o})
    IN  [k \in 1 .. Cardinality(ends) |->
           LET c == CHOOSE c \in ends : Cardinality(before(c)) = k - 1
           IN  SubSeq(text, start(c), c)]

Capped(ends, limit) == {c \in ends : Cardinality({e \in ends : e < c}) < limit}

\* The closing braces that leave no brace open, up to the bracket that closes the array.
Outermost(open, close, brackets) ==
    LET depth(i) == Cardinality({o \in open : o <= i}) - Cardinality({c \in close : c <= i})
    IN  {c \in close : depth(c) = 0 /\ \A b \in brackets : b < c => depth(b) # 0}

OutsideStrings(places, quotes) == {i \in places : Cardinality({q \in quotes : q < i}) % 2 = 0}

ObjectsOf(text, open, close, brackets, limit) ==
    Cut(text, open, Capped(Outermost(open, close, brackets), limit))

\* The first `limit` objects of a text from a place on: strings, and what is
\* in them, apart.
Objects(text, at, limit) ==
    LET places(c) == {i \in at .. Len(text) : text[i] = c}
        bare(c)   == OutsideStrings(places(c), {i \in places(Quote) : ~ Escaped(text, i)})
    IN  ObjectsOf(text, bare("{"), bare("}"), bare("]"), limit)

ObjectAt(text, at) == IF at # 0 /\ At(text, at) = "{" THEN Objects(text, at, 1) ELSE <<>>

\* find_object_field: an object whose end the text holds.
FindObject(text, key) == ObjectAt(text, FindValueStart(text, key))

OrElse(option, default) == IF option = <<>> THEN default ELSE option[1]

ArrayAt(text, at) == IF at # 0 /\ At(text, at) = "[" THEN Objects(text, at, MaxRequests) ELSE <<>>

PendingRequest(object) ==
    [ requestId    |-> OrElse(FindString(object, "requestId"), <<>>),
      targetType   |-> OrElse(FindString(object, "targetType"), <<>>),
      targetValue  |-> OrElse(FindString(object, "targetValue"), <<>>),
      fulfillNonce |-> OrElse(FindString(object, "fulfillNonce"), <<>>),
      nonceExpiry  |-> OrElse(FindInt(object, "nonceExpiry"), 0) ]

\* find_pending_requests: the objects of the array, each scanned on its own.
FindPending(text) ==
    LET pending(objects) == [k \in DOMAIN objects |-> PendingRequest(objects[k])]
    IN  pending(ArrayAt(text, FindValueStart(text, "pendingRequests")))

\* A name without the characters a form field may not have, a colon and a value, neither
\* too long.
Field(name, colon, value) ==
    [ ok   |-> /\ name.ok /\ value.ok /\ colon
               /\ name.value \notin {<<>>, <<"file">>}
               /\ Range(name.value) \cap (White \cup DOMAIN CodeOf \cup DOMAIN Halves) = {}
               /\ Len(name.value) <= MaxFieldName /\ Len(value.value) <= MaxFieldValue,
      pair |-> <<name.value, value.value>>, after |-> value.after ]

FieldAfter(text, name, colon) ==
    Field(name, At(text, colon) = ":", ReadString(text, SkipSpace(text, colon + 1)))

FieldNamed(text, name) == FieldAfter(text, name, SkipSpace(text, name.after))
FieldAt(text, i) == FieldNamed(text, ReadString(text, SkipSpace(text, i)))

\* The fields of a form, <<name, value>> in their order, or none when one is refused.
FindFields(text) ==
    LET field  == [i \in 2 .. Len(text) |-> FieldAt(text, i)]
        read[i \in 1 .. Len(text) + 1, n \in 0 .. MaxFields] ==
            LET next == SkipSpace(text, field[i].after)
                rest == read[next + 1, n + 1]
            IN  IF i > Len(text) \/ ~ field[i].ok \/ n >= MaxFields THEN <<>>
                ELSE IF At(text, next) = "}" THEN <<field[i].pair>>
                ELSE IF \/ At(text, next) # "," \/ rest = <<>>
                        \/ \E k \in DOMAIN rest : rest[k][1] = field[i].pair[1]
                     THEN <<>> ELSE <<field[i].pair>> \o rest
    IN  read[2, 0]

GrantOfMutant(url, method, form) ==
    IF url \in {<<>>, << <<>> >>} THEN <<>>
    ELSE <<[url |-> url[1], fields |-> IF form = <<>> THEN <<>> ELSE FindFields(form[1])]>>

\* A PUT, or a POST that comes with all its form fields.
GrantOf(url, method, form) ==
    LET post(fields) == IF fields = <<>> THEN <<>> ELSE <<[url |-> url[1], fields |-> fields]>>
    IN  IF url \in {<<>>, << <<>> >>} THEN <<>>
        ELSE CASE method = << <<"PUT">> >> -> <<[url |-> url[1], fields |-> <<>>]>>
               [] method = << <<"POST">> >> /\ form # <<>> -> post(FindFields(form[1]))
               [] OTHER -> <<>>

UploadOf(object) ==
    IF object = <<>> THEN <<>>
    ELSE GrantOf(FindString(object[1], "url"), FindString(object[1], "method"), FindObject(object[1], "fields"))

\* find_log_upload.
FindLogUpload(text) ==
    IF Len(text) > MaxBody THEN <<>> ELSE UploadOf(FindObject(text, "logUpload"))
=============================================================================
