--------------------------- MODULE CommandCensus ---------------------------
(***************************************************************************)
(* internal/nntpshaper/census.go: one connection's upstream bytes, as they *)
(* arrive in arbitrary fragments, split back into command lines.           *)
(*                                                                         *)
(* A byte is one of a few classes: the article verb's letter "A", another  *)
(* letter "B", a digit "1", the brackets of a message-id, a blank (space   *)
(* or CR, both white space to strings.Fields), a byte no verb may contain  *)
(* "?", and the newline.  The limits are scaled down with the alphabet.    *)
(***************************************************************************)
EXTENDS Integers, Sequences, SequencesExt, FiniteSets

CONSTANTS
    maxCommandLine,  \* bytes kept while waiting for the newline
    maxVerbLength    \* longest token tallied under its own name

ASSUME CensusAssumption == {maxCommandLine, maxVerbLength} \subseteq Nat

(***************************************************************************)
(* Tokens of a line.                                                       *)
(***************************************************************************)
Blank == {" "}
Digits == {"1"}

\* strings.Fields: the maximal runs of non-blank bytes, in order.
IsField(line, i, j) ==
    /\ \A k \in i..j : line[k] \notin Blank
    /\ i = 1 \/ line[i - 1] \in Blank
    /\ j = Len(line) \/ line[j + 1] \in Blank
FieldStarts(line) ==
    {i \in 1..Len(line) : line[i] \notin Blank /\ (i = 1 \/ line[i - 1] \in Blank)}
FieldAt(line, i) ==
    SubSeq(line, i, CHOOSE j \in i..Len(line) : IsField(line, i, j))
Fields(line) ==
    LET starts == SetToSortSeq(FieldStarts(line), <)
    IN  [n \in DOMAIN starts |-> FieldAt(line, starts[n])]

isCommandVerb(verb) ==
    /\ verb # <<>> /\ Len(verb) <= maxVerbLength
    /\ \A i \in DOMAIN verb : verb[i] \in {"A", "B", "1"}

TrimPrefix(s, b) == IF s # <<>> /\ Head(s) = b THEN Tail(s) ELSE s
TrimSuffix(s, b) == IF s # <<>> /\ Last(s) = b THEN Front(s) ELSE s

\* One key for the bare and the bracketed form; none for an article number.
normalizeMessageID(argument) ==
    LET bare == TrimSuffix(TrimPrefix(argument, "<"), ">")
    IN  IF bare = <<>> \/ \A i \in DOMAIN argument : argument[i] \in Digits
        THEN <<>> ELSE <<"<">> \o bare \o <<">">>

articleVerbs == {<<"A">>}

\* flush's classification of one finished line.
Command(line) ==
    LET fields == Fields(line)
        argument == IF Len(fields) > 1 THEN fields[2] ELSE <<>>
    IN  IF fields = <<>> THEN [verb |-> <<"EMPTY">>, id |-> <<>>]
        ELSE IF ~isCommandVerb(fields[1]) THEN [verb |-> <<"NONVERB">>, id |-> <<>>]
        ELSE [verb |-> fields[1],
              id |-> IF fields[1] \in articleVerbs THEN normalizeMessageID(argument) ELSE <<>>]
Oversized == [verb |-> <<"OVERSIZED">>, id |-> <<>>]

(***************************************************************************)
(* The census: its pending bytes, whether the line overflowed, and the     *)
(* ObserveCommand calls it made.                                           *)
(***************************************************************************)
NewCommandCensus == [pending |-> <<>>, oversized |-> FALSE, observed |-> <<>>]

\* Mutant: an overflow is forgotten by the next fragment.
OverflowsForgetful(census, fragment) == Len(census.pending) + Len(fragment) > maxCommandLine

Overflows(census, fragment) ==
    census.oversized \/ Len(census.pending) + Len(fragment) > maxCommandLine
keep(census, fragment) ==
    [census EXCEPT !.oversized = Overflows(census, fragment),
                   !.pending = IF Overflows(census, fragment) THEN <<>> ELSE @ \o fragment]

\* Mutant: a line that overflowed leaves the flag behind (census.go:70).
flushKeepsOverflow(census) ==
    [pending |-> <<>>, oversized |-> census.oversized,
     observed |-> Append(census.observed, IF census.oversized THEN Oversized ELSE Command(census.pending))]

flush(census) ==
    [pending |-> <<>>, oversized |-> FALSE,
     observed |-> Append(census.observed, IF census.oversized THEN Oversized ELSE Command(census.pending))]

\* One write's bytes, cut at its newlines: every piece but the last ends a line.
Newlines(bytes) == SetToSortSeq({n \in DOMAIN bytes : bytes[n] = "nl"}, <)
Pieces(bytes) ==
    LET ends == <<0>> \o Newlines(bytes) \o <<Len(bytes) + 1>>
    IN  [k \in 1..(Len(ends) - 1) |-> SubSeq(bytes, ends[k] + 1, ends[k + 1] - 1)]
Observe(census, bytes) ==
    LET pieces == Pieces(bytes)
        lines == FoldLeft(LAMBDA c, line : flush(keep(c, line)), census, Front(pieces))
    IN  IF Last(pieces) = <<>> THEN lines ELSE keep(lines, Last(pieces))

\* A connection's stream as the writes at the given cuts deliver it.
Fragments(stream, cuts) ==
    LET ends == <<0>> \o SetToSortSeq(cuts, <) \o <<Len(stream)>>
    IN  [k \in 1..(Len(ends) - 1) |-> SubSeq(stream, ends[k] + 1, ends[k + 1])]
Census(stream, cuts) == FoldLeft(Observe, NewCommandCensus, Fragments(stream, cuts))

(***************************************************************************)
(* Properties.                                                             *)
(***************************************************************************)
\* The commands of the stream as a whole, by position and without fragments.
ReferenceCensus(stream) ==
    LET lines == Front(Pieces(stream))
    IN  [k \in DOMAIN lines |->
            IF Len(lines[k]) > maxCommandLine THEN Oversized ELSE Command(lines[k])]

\* How a stream is cut into writes does not matter: the commands observed are those
\* of the stream, an oversized line counts once and spoils no neighbour, and no
\* more than a line's limit is ever kept (CommandCensus.Observe, keep, flush).
CutsInvisible(stream) ==
    \A cuts \in SUBSET (1..(Len(stream) - 1)) :
        /\ Census(stream, cuts).observed = ReferenceCensus(stream)
        /\ Len(Census(stream, cuts).pending) <= maxCommandLine
=============================================================================
