-------------------------------- MODULE Retry --------------------------------
(***************************************************************************)
(* How long the worker waits before it sends a job again (retry_after).    *)
(* A header value is a sequence of characters.                             *)
(***************************************************************************)
EXTENDS Integers, Sequences, SequencesExt

MaxRetryAfterSeconds == 300

LOCAL Digit == <<"0", "1", "2", "3", "4", "5", "6", "7", "8", "9">>

\* parse_retry_after_seconds: one to nine digits within white space, or -1.
ParseRetryAfterSeconds(text) ==
    LET ink    == {i \in DOMAIN text : text[i] \notin {" ", "\t", "\r", "\n"}}
        begin  == CHOOSE i \in ink : \A j \in ink : i <= j
        end    == CHOOSE i \in ink : \A j \in ink : j <= i
        digits == SubSeq(text, begin, end)
    IN  IF ink = {} THEN -1
        ELSE IF Len(digits) > 9 \/ ~ Range(digits) \subseteq Range(Digit) THEN -1
        ELSE FoldLeft(LAMBDA sum, d : 10 * sum + (CHOOSE n \in 1 .. 10 : Digit[n] = d) - 1, 0, digits)

\* retry_after_hint: a header counts with 429 and 503 only.
RetryAfterHint(status, text) ==
    IF status \in {429, 503} THEN ParseRetryAfterSeconds(text) ELSE -1

RetryDelayMutant(attempt, asked) ==
    LET n      == IF attempt < 1 THEN 1 ELSE IF attempt > 5 THEN 5 ELSE attempt
        ladder == 2 ^ n
        raised == IF asked > ladder THEN asked ELSE ladder
    IN  raised

\* retry_delay: the ladder of the attempt, raised to what the server asked for
\* and capped.
RetryDelay(attempt, asked) ==
    LET n      == IF attempt < 1 THEN 1 ELSE IF attempt > 5 THEN 5 ELSE attempt
        ladder == 2 ^ n
        raised == IF asked > ladder THEN asked ELSE ladder
    IN  IF raised > MaxRetryAfterSeconds THEN MaxRetryAfterSeconds ELSE raised
=============================================================================
