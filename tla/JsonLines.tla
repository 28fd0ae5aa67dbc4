---- MODULE JsonLines ----
(***************************************************************************)
(* The server's input loop (src/jsonl.mjs): text arrives in chunks that    *)
(* may end anywhere, is cut into lines, and each line is answered in turn; *)
(* a line over the limit is answered once and dropped to its end.          *)
(*                                                                         *)
(* A text is a sequence of characters, each of a known number of bytes     *)
(* (StringDecoder hands over whole characters). What handle answers to a   *)
(* request is the line itself.                                             *)
(***************************************************************************)
EXTENDS Integers, SequencesExt

CONSTANTS
    Char, Width,   \* [Char -> bytes]
    Newline,
    White,         \* the characters trim removes
    Input,         \* the texts a host may send
    MaxLineBytes,
    TooLarge       \* the answer to an oversized line

ASSUME CharAssumption == Width \in [Char -> Nat \ {0}] /\ White \subseteq Char /\ Newline \in White
ASSUME InputAssumption == Input \subseteq Seq(Char) /\ MaxLineBytes \in Nat

VARIABLES
    input, taken,              \* what the host sends; how much has arrived
    buffered, discarding, pc,  \* the loop's locals, and where it stands
    answers                    \* what it has written

vars == <<input, taken, buffered, discarding, pc, answers>>

\* Each byte has a place in its character's place.
Bytes(text) == Cardinality(UNION {{i} \X (1 .. Width[text[i]]) : i \in DOMAIN text})

Breaks(text) == {i \in DOMAIN text : text[i] = Newline}
FirstBreak(text) == CHOOSE i \in Breaks(text) : \A j \in Breaks(text) : i <= j
BeforeBreak(text) == SubSeq(text, 1, FirstBreak(text) - 1)
AfterBreak(text)  == SubSeq(text, FirstBreak(text) + 1, Len(text))

Init ==
    /\ input \in Input /\ taken = 0
    /\ buffered = <<>> /\ discarding = FALSE /\ pc = "read"
    /\ answers = <<>>

\* dispatch: the answers one line gets, if any.
Dispatch(raw) ==
    IF Bytes(raw) > MaxLineBytes THEN <<TooLarge>>
    ELSE IF ToSet(raw) \subseteq White THEN <<>> ELSE <<raw>>

\* The next chunk; while discarding, what precedes its first newline is lost.
Chunk ==
    /\ pc = "read"
    /\ \E n \in taken + 1 .. Len(input) :
          LET text == SubSeq(input, taken + 1, n)
          IN /\ taken' = n
             /\ IF discarding /\ Breaks(text) = {}
                THEN UNCHANGED <<buffered, discarding, pc>>
                ELSE /\ buffered' = IF discarding THEN AfterBreak(text) ELSE buffered \o text
                     /\ discarding' = FALSE /\ pc' = "lines"
    /\ UNCHANGED <<input, answers>>

MutLine ==
    /\ pc = "lines" /\ Breaks(buffered) # {}
    /\ answers' = answers \o Dispatch(BeforeBreak(buffered))
    /\ buffered' = AfterBreak(buffered)
    /\ pc' = "read"
    /\ UNCHANGED <<input, taken, discarding>>

\* One complete line is answered before the next is looked at.
Line ==
    /\ pc = "lines" /\ Breaks(buffered) # {}
    /\ answers' = answers \o Dispatch(BeforeBreak(buffered))
    /\ buffered' = AfterBreak(buffered)
    /\ UNCHANGED <<input, taken, discarding, pc>>

MutKeep ==
    /\ pc = "lines" /\ Breaks(buffered) = {}
    /\ IF Bytes(buffered) > MaxLineBytes
       THEN answers' = Append(answers, TooLarge) /\ buffered' = <<>>
       ELSE UNCHANGED <<answers, buffered>>
    /\ pc' = "read"
    /\ UNCHANGED <<input, taken, discarding>>

MutKeepAll ==
    /\ pc = "lines" /\ Breaks(buffered) = {}
    /\ pc' = "read"
    /\ UNCHANGED <<input, taken, buffered, discarding, answers>>

\* The rest of the text waits for more, unless it is over the limit already.
Keep ==
    /\ pc = "lines" /\ Breaks(buffered) = {}
    /\ IF Bytes(buffered) > MaxLineBytes
       THEN answers' = Append(answers, TooLarge) /\ discarding' = TRUE /\ buffered' = <<>>
       ELSE UNCHANGED <<answers, discarding, buffered>>
    /\ pc' = "read"
    /\ UNCHANGED <<input, taken>>

\* The input ends; an unfinished line counts as one.
End ==
    /\ pc = "read" /\ taken = Len(input)
    /\ answers' = IF discarding \/ buffered = <<>> THEN answers
                  ELSE answers \o Dispatch(buffered)
    /\ pc' = "done"
    /\ UNCHANGED <<input, taken, buffered, discarding>>

Next == Chunk \/ Line \/ Keep \/ End

Spec == Init /\ [][Next]_vars

---------------------------------------------------------------------------
\* What a text asks for, however it is cut into chunks.

\* A line lies between a newline or the beginning, and a newline or the end.
Lines(text) ==
    {l \in [from : {0} \cup Breaks(text), to : Breaks(text) \cup {Len(text) + 1}] :
        l.from < l.to /\ \A i \in Breaks(text) : i <= l.from \/ l.to <= i}

LineText(text, l) == SubSeq(text, l.from + 1, l.to - 1)

\* What has arrived, by place n, of the line that has not ended by then.
OpenLine(text, n) ==
    LET from == CHOOSE b \in {0} \cup Breaks(text) :
                    b <= n /\ \A i \in Breaks(text) : i <= b \/ n < i
    IN SubSeq(text, from + 1, n)

\* The lines that are answered, with what, and which of them a line is.
Asked(text) ==
    {l \in Lines(text) : LET line == LineText(text, l)
                        IN Bytes(line) > MaxLineBytes \/ \E i \in DOMAIN line : line[i] \notin White}

AnswerTo(line) == IF Bytes(line) > MaxLineBytes THEN TooLarge ELSE line

AskedUpTo(text, n) == {l \in Asked(text) : l.to <= n}
Rank(text, l) == Cardinality(AskedUpTo(text, l.to))

Expected(text) ==
    [k \in 1 .. Cardinality(Asked(text)) |->
        AnswerTo(LineText(text, CHOOSE l \in Asked(text) : Rank(text, l) = k))]

\* The locals keep their types. While it waits the server holds what has arrived
\* of the line that has not ended, unless that is over the limit already: then,
\* and only then, it discards and holds nothing (jsonl.mjs 63-83).
TypeOK ==
    /\ input \in Input /\ taken \in 0 .. Len(input)
    /\ buffered \in Seq(Char) /\ discarding \in BOOLEAN
    /\ pc \in {"read", "lines", "done"}
    /\ answers \in Seq(Seq(Char) \cup {TooLarge})
    /\ pc = "read" =>
          /\ discarding <=> Bytes(OpenLine(input, taken)) > MaxLineBytes
          /\ buffered = IF discarding THEN <<>> ELSE OpenLine(input, taken)

\* The answers are those of the text's lines, in order, one for each, wherever
\* the chunks begin and end (jsonl.mjs 63-84).
AnswersFollowTheText ==
    /\ IsPrefix(answers, Expected(input))
    /\ pc = "done" => answers = Expected(input)

\* Before the server waits for more input it has answered every complete line
\* it has: a host that waits for an answer gets it.
AnsweredBeforeWaiting ==
    pc = "read" => Len(answers) >= Cardinality(AskedUpTo(input, taken))

====
