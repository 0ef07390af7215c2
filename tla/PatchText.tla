------------------------------ MODULE PatchText ------------------------------
(***************************************************************************)
(* What a patch does to the lines of a file (diff.rs): the three formats   *)
(* and their parsers.                                                      *)
(*                                                                         *)
(* A text is what split('\n') makes of it: one line more than it has       *)
(* newlines, so that the last line of a text that ends with a newline is   *)
(* blank, and the empty text is one blank line.  Both ends of line the     *)
(* code knows are one here.                                                *)
(***************************************************************************)
EXTENDS Integers, Sequences, SequencesExt

CONSTANTS Letters,          \* lines that are not blank
          MaxLines,         \* bound: lines of a text
          MaxHunk           \* bound: lines of a hunk

Markers == {"search", "sep", "replace"}

ASSUME LettersAssumption ==
    Letters \cap (Markers \cup {"", "\n"}) = {}
ASSUME BoundsAssumption == MaxLines \in Nat /\ MaxHunk \in Nat

Blank == ""
Empty == <<Blank>>

EndsWithNewline(text) == Len(text) > 1 /\ Last(text) = Blank

\* result_lines.join(newline)
Join(lines) == IF lines = <<>> THEN Empty ELSE lines

\* push_str(newline), if it is wanted
Terminate(text, wanted) ==
    IF wanted /\ ~EndsWithNewline(text) /\ text # Empty THEN Append(text, Blank)
    ELSE text

\* The lines after the first n that both algorithms copy at the end.
RemainingAll(text, n) == SubSeq(text, n + 1, Len(text))
Remaining(text, n) ==
    SubSeq(text, n + 1, IF EndsWithNewline(text) THEN Len(text) - 1 ELSE Len(text))

Failed == [ok |-> FALSE]
Applied(text, s) ==
    [ok |-> TRUE, text |-> text, added |-> s.added, removed |-> s.removed]

-----------------------------------------------------------------------------
(* Unified diffs.  A line of a diff is its first character (or "@@") and   *)
(* its text, or the line number of a header, -1 where it cannot be parsed. *)

\* Lines before the first header are dropped, as are those that begin with
\* anything else.
ParseLine(hunks, line) ==
    IF line.tag = "@@"
    THEN Append(hunks, [old_start |-> line.start, lines |-> <<>>])
    ELSE IF hunks # <<>> /\ line.tag \in {" ", "-", "+"}
    THEN [hunks EXCEPT ![Len(hunks)].lines = Append(@, line)]
    ELSE hunks

parse_unified_diff_hunks(diff) ==
    LET hunks[n \in 0..Len(diff)] ==
          IF n = 0 THEN <<>> ELSE ParseLine(hunks[n - 1], diff[n])
    IN  hunks[Len(diff)]

\* A context line or a deletion is compared with the line it stands for, if
\* there is one.
DiffLine(text, s, l) ==
    LET past == s.idx >= Len(text)
        differs == l.tag # "+" /\ ~past /\ text[s.idx + 1] # l.text
    IN  IF s.failed \/ differs THEN [s EXCEPT !.failed = TRUE]
        ELSE [s EXCEPT
                !.idx = IF l.tag = "+" \/ past THEN @ ELSE @ + 1,
                !.out = IF l.tag = "-" THEN @ ELSE Append(@, l.text),
                !.added = IF l.tag = "+" THEN @ + 1 ELSE @,
                !.removed = IF l.tag = "-" THEN @ + 1 ELSE @]

UpTo(text, target_start) ==
    IF target_start < Len(text) THEN target_start ELSE Len(text)

target_start(hunk) == IF hunk.old_start = 0 THEN 0 ELSE hunk.old_start - 1

\* The lines before a hunk are copied.
UpToHunk(text, s, hunk) ==
    LET stop == UpTo(text, target_start(hunk))
    IN  [s EXCEPT !.out = @ \o SubSeq(text, s.idx + 1, stop),
                  !.idx = IF stop > @ THEN stop ELSE @]

ApplyHunk(text, s, hunk) ==
    LET after[n \in 0..Len(hunk.lines)] ==
          IF n = 0 THEN UpToHunk(text, s, hunk)
          ELSE DiffLine(text, after[n - 1], hunk.lines[n])
    IN  after[Len(hunk.lines)]

ApplyHunks(text, hunks) ==
    LET after[n \in 0..Len(hunks)] ==
          IF n = 0
          THEN [idx |-> 0, out |-> <<>>, added |-> 0, removed |-> 0, failed |-> FALSE]
          ELSE ApplyHunk(text, after[n - 1], hunks[n])
    IN  after[Len(hunks)]

apply_unified_diff_in_memory(text, diff) ==
    LET hunks == parse_unified_diff_hunks(diff)
        s == ApplyHunks(text, hunks)
        wanted == EndsWithNewline(text) \/ s.added > 0
    IN  IF \/ hunks = <<>>
           \/ \E i \in 1..Len(hunks) : hunks[i].old_start = -1
           \/ s.failed
        THEN Failed
        ELSE Applied(Terminate(Join(s.out \o Remaining(text, s.idx)), wanted), s)

-----------------------------------------------------------------------------
(* Search and replace.  Here a text is a sequence of characters; the three *)
(* markers of a block are characters too.                                  *)

Newline == "\n"

Find(s, c) == SelectInSeq(s, LAMBDA x : x = c)
StripNewline(s) == IF s # <<>> /\ Head(s) = Newline THEN Tail(s) ELSE s
After(s, i) == SubSeq(s, i + 1, Len(s))

\* One round of the loop: the blocks there are so far, the text that remains,
\* and whether every block was complete.
ParseBlock(p) ==
    LET i == Find(p.remaining, "search")
        search == StripNewline(After(p.remaining, i))
        j == Find(search, "sep")
        replace == StripNewline(After(search, j))
        k == Find(replace, "replace")
    IN  IF ~p.ok \/ i = 0 THEN p
        ELSE IF j = 0 \/ k = 0 THEN [p EXCEPT !.ok = FALSE]
        ELSE [p EXCEPT
                !.remaining = After(replace, k),
                !.blocks = Append(@, [search |-> SubSeq(search, 1, j - 1),
                                      replace |-> SubSeq(replace, 1, k - 1)])]

\* Every round takes something from the text.
parse_search_replace_blocks(chars) ==
    LET after[n \in 0..Len(chars)] ==
          IF n = 0 THEN [remaining |-> chars, blocks |-> <<>>, ok |-> TRUE]
          ELSE ParseBlock(after[n - 1])
    IN  after[Len(chars)]

Newlines(s) ==
    LET upTo[n \in 0..Len(s)] ==
          IF n = 0 THEN 0 ELSE upTo[n - 1] + (IF s[n] = Newline THEN 1 ELSE 0)
    IN  upTo[Len(s)]

\* str::lines().count()
LineCount(s) == Newlines(s) + (IF s # <<>> /\ Last(s) # Newline THEN 1 ELSE 0)

\* Where a text is found; the empty one is found everywhere.
Found(s, sub) ==
    {pos \in 0..Len(s) - Len(sub) : SubSeq(s, pos + 1, pos + Len(sub)) = sub}

\* The first place where the search text is found (find) is replaced.
ReplaceBlock(s, b) ==
    LET found == Found(s.current, b.search)
        pos == Min(found)
    IN  IF s.failed \/ found = {} THEN [s EXCEPT !.failed = TRUE]
        ELSE [s EXCEPT !.current = SubSeq(@, 1, pos) \o b.replace
                                     \o After(@, pos + Len(b.search)),
                       !.added = @ + LineCount(b.replace),
                       !.removed = @ + LineCount(b.search)]

ReplaceBlocks(chars, blocks) ==
    LET after[n \in 0..Len(blocks)] ==
          IF n = 0
          THEN [current |-> chars, added |-> 0, removed |-> 0, failed |-> FALSE]
          ELSE ReplaceBlock(after[n - 1], blocks[n])
    IN  after[Len(blocks)]

apply_search_replace_in_memory(chars, patch) ==
    LET parsed == parse_search_replace_blocks(patch)
        s == ReplaceBlocks(chars, parsed.blocks)
    IN  IF ~parsed.ok \/ parsed.blocks = <<>> \/ s.failed THEN Failed
        ELSE Applied(s.current, s)

-----------------------------------------------------------------------------
(* Line replacements: start and end_line (inclusive, from 1), the text     *)
(* that is expected there (<<>> for none) and the lines to put there.      *)

Overlaps(s, r) == r.start < s.cursor

Replacement(text, s, r) ==
    LET end_bounded == IF r.end_line < Len(text) THEN r.end_line ELSE Len(text)
        removes == end_bounded >= r.start
        differs == /\ removes /\ r.target # <<>>
                   /\ r.target # Join(SubSeq(text, r.start, end_bounded))
    IN  IF s.failed \/ Overlaps(s, r) \/ r.start > Len(text) + 1 \/ differs
        THEN [s EXCEPT !.failed = TRUE]
        ELSE [s EXCEPT
                !.out = @ \o SubSeq(text, s.cursor, r.start - 1) \o r.lines,
                !.cursor = IF removes THEN end_bounded + 1 ELSE r.start,
                !.added = @ + Len(r.lines),
                !.removed = IF removes THEN @ + end_bounded - r.start + 1 ELSE @]

AsListed(replacements) == replacements

\* sort_by_key is stable.
Sorted(replacements) ==
    LET D == DOMAIN replacements
        Before(i, j) == \/ replacements[i].start < replacements[j].start
                        \/ replacements[i].start = replacements[j].start /\ i < j
        order == CHOOSE p \in [D -> D] :
                   \A i, j \in D : i < j => Before(p[i], p[j])
    IN  [i \in D |-> replacements[order[i]]]

ReplaceLines(text, sorted) ==
    LET after[n \in 0..Len(sorted)] ==
          IF n = 0
          THEN [cursor |-> 1, out |-> <<>>, added |-> 0, removed |-> 0, failed |-> FALSE]
          ELSE Replacement(text, after[n - 1], sorted[n])
    IN  after[Len(sorted)]

apply_replacements_in_memory(text, replacements) ==
    LET s == ReplaceLines(text, Sorted(replacements))
    IN  IF s.failed THEN Failed
        ELSE Applied(Terminate(Join(s.out \o Remaining(text, s.cursor - 1)),
                               EndsWithNewline(text)), s)

-----------------------------------------------------------------------------
(* References, checked over all small inputs.                              *)

SmallTexts ==
    LET some == BoundedSeq(Letters \cup {Blank}, MaxLines) \ {<<>>}
    IN  {Empty} \cup some \cup {Terminate(ls, TRUE) : ls \in some}

\* The lines of a text, without the blank one that stands for its last newline.
LinesOf(text) == Remaining(text, 0)

\* The text of these lines; `nl`: with a newline at the end.
TextOf(lines, nl) == IF nl THEN Append(lines, Blank) ELSE Join(lines)

Spliced(lines, i, old, new) ==
    SubSeq(lines, 1, i - 1) \o new \o SubSeq(lines, i + Len(old), Len(lines))

\* Both algorithms lose a blank last line: `ends_with` takes its predecessor's
\* newline for the one that is missing.
Plain(lines) == lines # <<>> /\ Last(lines) # Blank

TextsOf(h, tags) ==
    LET kept[n \in 0..Len(h.lines)] ==
          IF n = 0 THEN <<>>
          ELSE IF h.lines[n].tag \in tags THEN Append(kept[n - 1], h.lines[n].text)
          ELSE kept[n - 1]
    IN  kept[Len(h.lines)]
OldLines(h) == TextsOf(h, {" ", "-"})
NewLines(h) == TextsOf(h, {" ", "+"})

Hunks ==
    [old_start : 1..MaxLines,
     lines : {ls \in BoundedSeq([tag : {" ", "-", "+"}, text : Letters], MaxHunk) :
                \E i \in 1..Len(ls) : ls[i].tag # "+"}]

\* A hunk that names lines the text has.
Within(h, lines) == h.old_start - 1 + Len(OldLines(h)) <= Len(lines)
Fits(h, lines) ==
    SubSeq(lines, h.old_start, h.old_start - 1 + Len(OldLines(h))) = OldLines(h)

Rendered(h) == <<[tag |-> "@@", start |-> h.old_start]>> \o h.lines
AsDiff(rendered) ==
    <<[tag |-> "-", text |-> "-- file"], [tag |-> "+", text |-> "++ file"]>>
    \o rendered \o <<[tag |-> "\\", text |-> " No newline at end of file"]>>

Count(h, tag) == Len(TextsOf(h, {tag}))

\* A unified diff whose hunks follow one another within the file is applied
\* exactly when every hunk's old lines are the file's lines at its place, and
\* then it replaces those lines, all of them and no others; the counts are those
\* of its added and removed lines.
UnifiedDiffAppliesTo(text) ==
    \A g, h \in Hunks :
        LET lines == LinesOf(text)
            result == apply_unified_diff_in_memory(text, AsDiff(Rendered(g) \o Rendered(h)))
            new == Spliced(Spliced(lines, h.old_start, OldLines(h), NewLines(h)),
                           g.old_start, OldLines(g), NewLines(g))
            added == Count(g, "+") + Count(h, "+")
            nl == EndsWithNewline(text) \/ added > 0
        IN  Within(h, lines) /\ g.old_start + Len(OldLines(g)) <= h.old_start =>
              /\ result.ok <=> Fits(g, lines) /\ Fits(h, lines)
              /\ result.ok /\ Plain(new) =>
                   result = [ok |-> TRUE, text |-> TextOf(new, nl), added |-> added,
                             removed |-> Count(g, "-") + Count(h, "-")]

Replacements ==
    [start : 1..MaxLines, end_line : 0..MaxLines, target : {<<>>},
     lines : BoundedSeq(Letters, 1)]

\* Line replacements do not depend on the order in which they are listed, and
\* have the effect of applying the lower one first and the upper one to the
\* result: no line number shifts under another replacement.
ReplacementsDoNotShiftIn(text) ==
    \A r, q \in Replacements :
        LET lines == LinesOf(text)
            last == IF q.end_line < Len(lines) THEN q.end_line ELSE Len(lines)
            both == apply_replacements_in_memory(text, <<r, q>>)
            low == apply_replacements_in_memory(text, <<q>>)
            high == apply_replacements_in_memory(low.text, <<r>>)
        IN  r.start < q.start /\ r.end_line < q.start /\ q.start <= Len(lines) =>
              /\ both = apply_replacements_in_memory(text, <<q, r>>)
              /\ both.ok /\ low.ok /\ high.ok
              /\ Plain(Spliced(lines, q.start, SubSeq(lines, q.start, last), q.lines))
                   => both.text = high.text

\* The characters of lines, each with the newline that ends it.
LineChars(l) == IF l = Blank THEN <<Newline>> ELSE <<l, Newline>>
Chars(lines) ==
    LET upTo[n \in 0..Len(lines)] ==
          IF n = 0 THEN <<>> ELSE upTo[n - 1] \o LineChars(lines[n])
    IN  upTo[Len(lines)]

Tagged(lines, tag) == [k \in 1..Len(lines) |-> [tag |-> tag, text |-> lines[k]]]

\* The change that replaces the lines old, from line i on, by the lines new.
AsHunk(i, old, new) ==
    [old_start |-> i, lines |-> Tagged(old, "-") \o Tagged(new, "+")]
Marked(marker, rest) == <<marker, Newline>> \o rest
AsBlock(old, new) ==
    Marked("search", Chars(old) \o Marked("sep", Chars(new) \o Marked("replace", <<>>)))
AsReplacement(i, old, new) ==
    [start |-> i, end_line |-> i + Len(old) - 1, target |-> old, lines |-> new]

\* A change of a text that ends with a newline, in each of the three formats,
\* gives the same text and the same counts (the search text being found first at
\* line i): clients may send either.
FormatsAgreeOn(text) ==
    \A new \in BoundedSeq(Letters, MaxHunk) :
      \A i \in 1..Len(LinesOf(text)) : \A j \in i..Len(LinesOf(text)) :
        LET lines == LinesOf(text)
            old == SubSeq(lines, i, j)
            byDiff == apply_unified_diff_in_memory(text,
                        AsDiff(Rendered(AsHunk(i, old, new))))
            byLines == apply_replacements_in_memory(text,
                         <<AsReplacement(i, old, new)>>)
            bySearch == apply_search_replace_in_memory(Chars(lines), AsBlock(old, new))
            here == Len(Chars(SubSeq(lines, 1, i - 1)))
        IN  EndsWithNewline(text) /\ Plain(Spliced(lines, i, old, new)) =>
              /\ byDiff = byLines
              /\ bySearch.ok
              /\ Min(Found(Chars(lines), Chars(old))) = here =>
                   bySearch = [byDiff EXCEPT !.text = Chars(LinesOf(@))]
=============================================================================
