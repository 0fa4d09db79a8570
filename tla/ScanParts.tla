----------------------------- MODULE ScanParts -----------------------------
(***************************************************************************)
(* The parts of a Deep Scan (deepread/chunk.go, passage.go, checks.go):    *)
(* the book's sections are grouped and cut into parts that fit the model,  *)
(* a part that is still too long is halved while the scan runs, each       *)
(* finding says where its part is in the book, and the reader in Review    *)
(* opens it there. A word is its place in the book: 1 is the first.        *)
(***************************************************************************)
EXTENDS Integers, SequencesExt

CONSTANTS
    Titles,     \* chapter headings; "" is a section without one
    MaxWords,   \* bound: words of a section
    MaxSections,\* bound: sections of the book
    Contexts,   \* the tokens a local model reads; 0 stands for a cloud model
    SystemTokens,       \* what the instructions take of them
    LocalWordsPerPart, CloudWordsPerPart, minWordsPerPart, answerRoom, marginTokens,
    partTries,
    Around      \* words the reader shows on each side

VARIABLES
    sections,   \* the book, in reading order
    context,    \* the model's context when the scan began
    parts, results, try, at,
    onlyLong    \* history: "too long" is all that went wrong with this part

vars == <<sections, context, parts, results, try, at, onlyLong>>

Numbers(from, n) == [i \in 1..n |-> from + i]
TotalOf(ss) == FoldLeft(LAMBDA n, s : n + s.words, 0, ss)

-----------------------------------------------------------------------------
(* Splitting.                                                              *)

Clamp(low, high, n) == IF n < low THEN low ELSE IF n > high THEN high ELSE n

\* About 1.4 tokens a word.
WordsToFit(tokens) ==
    Clamp(minWordsPerPart, LocalWordsPerPart, ((tokens - SystemTokens - answerRoom - marginTokens) * 10) \div 14)

partSize(tokens) == IF tokens = 0 THEN CloudWordsPerPart ELSE WordsToFit(tokens)

\* A part is named by its first and last headings, or by how far in it begins.
Label(titles, start, total) ==
    LET named == SelectSeq(titles, LAMBDA t : t.title # "") IN
    CASE Len(named) = 0 -> [pct |-> (start * 100) \div (IF total = 0 THEN 1 ELSE total), half |-> 0]
      [] Len(named) = 1 -> [first |-> named[1], half |-> 0]
      [] OTHER          -> [first |-> named[1], last |-> Last(named), half |-> 0]

Flush(st, total) ==
    IF st.text = <<>> THEN st
    ELSE [parts |-> Append(st.parts, [label |-> Label(st.titles, st.seen - Len(st.text), total), text |-> st.text]),
          text |-> <<>>, titles |-> <<>>, seen |-> st.seen]

\* A chapter longer than a part is cut into pieces of its own.
CutChapter(st, s, size, total) ==
    LET n == (s.words + size - 1) \div size
        piece(acc, i) ==
            LET len == IF i < n THEN size ELSE s.words - (n - 1) * size IN
            Flush([acc EXCEPT !.text = Numbers(acc.seen, len), !.seen = @ + len,
                              !.titles = <<[title |-> s.title, piece |-> i]>>], total)
    IN  FoldLeft(piece, Flush(st, total), Numbers(0, n))

\* The others stay whole, as many in a part as fit.
AddChapter(st, s, size, total) ==
    LET open == IF Len(st.text) + s.words > size THEN Flush(st, total) ELSE st IN
    [open EXCEPT !.text = @ \o Numbers(open.seen, s.words), !.seen = @ + s.words,
                 !.titles = Append(@, [title |-> s.title, piece |-> 0])]

Split(ss, size) ==
    LET total == TotalOf(ss)
        step(st, s) == IF s.words > size THEN CutChapter(st, s, size, total) ELSE AddChapter(st, s, size, total)
    IN  Flush(FoldLeft(step, [parts |-> <<>>, text |-> <<>>, titles |-> <<>>, seen |-> 0], ss), total).parts

Halves(p) ==
    LET mid == Len(p.text) \div 2 IN
    <<[label |-> [p.label EXCEPT !.half = 1], text |-> SubSeq(p.text, 1, mid)],
      [label |-> [p.label EXCEPT !.half = 2], text |-> SubSeq(p.text, mid + 1, Len(p.text))]>>

MayHalve(p) == Len(p.text) >= (2 * minWordsPerPart) \div 3

-----------------------------------------------------------------------------
(* The scan.                                                               *)

Section == [title : Titles, words : 0..MaxWords]
read == Len(results)    \* parts that were read

TypeOK ==
    /\ sections \in BoundedSeq(Section, MaxSections) /\ context \in Contexts
    /\ results \in Seq(BOOLEAN) /\ read <= Len(parts) /\ try \in 1..partTries
    /\ at \in {"idle", "reading", "done", "failed"} /\ onlyLong \in BOOLEAN

Init ==
    /\ sections \in BoundedSeq(Section, MaxSections) /\ context \in Contexts
    /\ parts = <<>> /\ results = <<>> /\ try = 1 /\ at = "idle" /\ onlyLong = TRUE

Prepare ==
    /\ at = "idle"
    /\ parts' = Split(sections, partSize(context))
    /\ at' = "reading"
    /\ UNCHANGED <<sections, context, results, try, onlyLong>>

\* A part's answer, with something to tell of it or not.
Answered(noted) ==
    /\ at = "reading" /\ read < Len(parts)
    /\ results' = Append(results, noted) /\ try' = 1 /\ onlyLong' = TRUE
    /\ UNCHANGED <<sections, context, parts, at>>

NextTry(long) ==
    /\ onlyLong' = (onlyLong /\ long)
    /\ IF try = partTries THEN at' = "failed" /\ try' = try ELSE try' = try + 1 /\ at' = at
    /\ UNCHANGED <<sections, context, parts, results>>

\* A split is not a failed try,
SplitTry == try

\* but on the last try there is no split any more.
TooLong ==
    /\ at = "reading" /\ read < Len(parts)
    /\ LET p == parts[read + 1] IN
       IF try < partTries /\ MayHalve(p)
       THEN /\ parts' = SubSeq(parts, 1, read) \o Halves(p) \o SubSeq(parts, read + 2, Len(parts))
            /\ try' = SplitTry
            /\ UNCHANGED <<sections, context, results, at, onlyLong>>
       ELSE NextTry(TRUE)

OtherError == at = "reading" /\ read < Len(parts) /\ NextTry(FALSE)

\* Each part's place is the sum of the parts before it.
Note(i) ==
    LET from == FoldLeft(LAMBDA m, p : m + Len(p.text), 0, SubSeq(parts, 1, i - 1)) IN
    [part |-> i, from |-> from, to |-> from + Len(parts[i].text)]

\* Mutant: only parts with a note are counted.
NotedBefore(i) ==
    LET before == SelectSeq(Numbers(0, i - 1), LAMBDA j : results[j])
        from == FoldLeft(LAMBDA m, j : m + Len(parts[j].text), 0, before) IN
    [part |-> i, from |-> from, to |-> from + Len(parts[i].text)]

Place(i) == Note(i)

notes == {Place(i) : i \in {j \in 1..read : results[j]}}

Combine ==
    /\ at = "reading" /\ read = Len(parts)
    /\ at' = "done"
    /\ UNCHANGED <<sections, context, parts, results, try, onlyLong>>

Next ==
    \/ Prepare \/ TooLong \/ OtherError \/ Combine
    \/ \E noted \in BOOLEAN : Answered(noted)

Spec == Init /\ [][Next]_vars

-----------------------------------------------------------------------------
(* The reader in Review.                                                   *)

cut(from, to, total) ==
    LET words(low, high) == SubSeq(Numbers(0, total), Clamp(1, total + 1, low + 1), Clamp(0, total, high)) IN
    [before |-> words(from - Around, from), text |-> words(from, to), after |-> words(to, to + Around)]

Upto(ps, k) == FoldLeft(LAMBDA m, p : m + Len(p.text), 0, SubSeq(ps, 1, k - 1))

\* Notes of older scans have no places: the part is looked up by its label,
\* or by how far in it begins, or by its first heading.
locate(ss, label, size) ==
    LET same == Split(ss, size)
        total == TotalOf(ss)
        least(a, b) == IF a < b THEN a ELSE b
        hits == {k \in DOMAIN same : same[k].label = label}
        chapters == {k \in DOMAIN ss : "first" \in DOMAIN label /\ ss[k].title = label.first.title}
        first(ks) == CHOOSE k \in ks : \A j \in ks : k <= j
    IN  IF hits # {} THEN <<Upto(same, first(hits)), Upto(same, first(hits)) + Len(same[first(hits)].text)>>
        ELSE LET from == IF "pct" \in DOMAIN label THEN (total * label.pct) \div 100
                         ELSE IF chapters = {} THEN 0
                         ELSE TotalOf(SubSeq(ss, 1, first(chapters) - 1))
             IN  <<from, least(total, from + size)>>

-----------------------------------------------------------------------------

\* The parts are the whole book in order, however often one was halved.
NothingLost ==
    at # "idle" => FlattenSeq([i \in DOMAIN parts |-> parts[i].text]) = Numbers(0, TotalOf(sections))

\* A part goes with the instructions and its answer into the model's context,
\* unless the context is too small for the least part.
PartsFit ==
    at # "idle" =>
        \A i \in DOMAIN parts :
            \/ context = 0 /\ Len(parts[i].text) <= CloudWordsPerPart
            \/ Len(parts[i].text) <= minWordsPerPart
            \/ Len(parts[i].text) * 14 <= (context - SystemTokens - answerRoom - marginTokens) * 10

\* What the reader opens for a finding is the part it was found in.
PassageIsPart ==
    at = "done" =>
        \A note \in notes : cut(note.from, note.to, TotalOf(sections)).text = parts[note.part].text

\* A finding without a place opens at its part too, when no other part has its
\* label, the part was not halved, and parts are as long as they were.
LabelFindsPart ==
    at = "done" =>
        LET labels == [i \in DOMAIN parts |-> parts[i].label] IN
        \A i \in DOMAIN parts :
            (\A j \in DOMAIN parts : (j = i \/ labels[j] # labels[i]) /\ labels[j].half = 0)
                => locate(sections, labels[i], partSize(context)) = <<Note(i).from, Note(i).to>>

\* A scan that fails only because parts are too long fails at a part too
\* small to be halved.
SplitsAreNoTries ==
    at = "failed" /\ onlyLong => ~MayHalve(parts[read + 1])
=============================================================================
