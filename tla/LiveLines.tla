------------------------------ MODULE LiveLines ------------------------------
(***************************************************************************)
(* The text inside LiveMarkdownEditor.svelte: a note is held as lines, of  *)
(* which the one under the caret is a textarea, and every edit that        *)
(* crosses a line is one of the operations of liveLines.ts.                *)
(*                                                                         *)
(* A character is a number: Break ends a line, Space is blank, a number    *)
(* from Bullet on is a list marker with the space after it (Bullet the     *)
(* unordered one, Bullet + n the ordered one "n. "), any other a letter.   *)
(***************************************************************************)
EXTENDS Integers, Sequences, SequencesExt

CONSTANTS
    Chars,      \* typed at the keyboard
    Pastes,     \* texts on the clipboard
    Notes,      \* notes the editor is opened on
    MaxLength,  \* bound: characters in the note
    MaxItem     \* bound: number of a list item

Break  == 0
Space  == 2
Bullet == 10

VARIABLES
    lines, caretLine,   \* caretLine is 0 while idle
    from, to            \* selectionStart, selectionEnd of the textarea

vars == <<lines, caretLine, from, to>>

Joined(ls) == FoldLeft(LAMBDA text, l : text \o <<Break>> \o l, Head(ls), Tail(ls))
ToLines(text) ==
    FoldLeft(LAMBDA ls, x : IF x = Break THEN Append(ls, <<>>)
                            ELSE [ls EXCEPT ![Len(ls)] = Append(@, x)], << <<>> >>, text)
Upto(l, c)  == SubSeq(l, 1, c)
After(l, c) == SubSeq(l, c + 1, Len(l))
Splice(ls, i, n, new) == Upto(ls, i - 1) \o new \o After(ls, i + n - 1)

TypeOK ==
    /\ lines # <<>> /\ Len(Joined(lines)) <= MaxLength /\ ToLines(Joined(lines)) = lines
    /\ caretLine \in 0 .. Len(lines)
    /\ caretLine > 0 => 0 <= from /\ from <= to /\ to <= Len(lines[caretLine])

(* continueListMarker(): the indentation and the next marker of a list     *)
(* item that has text.                                                     *)
ContinueListMarker(l) ==
    LET at     == SelectInSeq(l, LAMBDA x : x # Space)
        marker == l[at]
    IN  IF at = 0 \/ marker < Bullet \/ \A k \in at + 1 .. Len(l) : l[k] = Space THEN <<>>
        ELSE Append(Upto(l, at - 1), IF marker = Bullet THEN Bullet ELSE marker + 1)

(* splitLineAt(): Enter.                                                   *)
SplitLineAt(l, c) ==
    LET head == Upto(l, c)
        tail == After(l, c)
    IN  <<head, IF tail = <<>> THEN ContinueListMarker(head) ELSE tail>>

(* Slip: the lines are joined the wrong way round.                         *)
MergedBackwards(above, below) == below \o above

(* mergeLineUp(): Backspace at the start of a line.                        *)
Merged(above, below) == above \o below

(* Slip: what followed the selection stays on the first pasted line.       *)
PastedTailFirst(head, text, tail) ==
    LET pasted == ToLines(text) IN [pasted EXCEPT ![1] = head \o @ \o tail]

(* handlePaste(): the selection gives way to the pasted lines.             *)
Pasted(head, text, tail) ==
    LET pasted == ToLines(text)
        n      == Len(pasted)
    IN  IF n = 1 THEN <<head \o text \o tail>>
        ELSE [pasted EXCEPT ![1] = head \o @, ![n] = @ \o tail]

Caret(line, col) == caretLine' = line /\ from' = col /\ to' = col
Here    == lines[caretLine]
Editing == caretLine > 0
Fits(ls) ==
    LET text == Joined(ls)
    IN  /\ Len(text) <= MaxLength /\ \A i \in DOMAIN text : text[i] <= Bullet + MaxItem
        /\ lines' = ls

Init ==
    /\ \E text \in Notes : lines = ToLines(text)
    /\ caretLine = 0 /\ from = 0 /\ to = 0

(* A click in the rendered note, Enter or Space on it.                     *)
StartEdit(i) == ~Editing /\ Caret(i, 0) /\ UNCHANGED lines

(* A press on another line while editing.                                  *)
Retarget(i) == Editing /\ i # caretLine /\ Caret(i, Len(lines[i])) /\ UNCHANGED lines

(* Inside the textarea the caret and the selection are the browser's.      *)
Select(s, e) ==
    /\ Editing /\ s <= e /\ e <= Len(Here) /\ from' = s /\ to' = e
    /\ UNCHANGED <<lines, caretLine>>

(* The arrows leave the line at its ends.                                  *)
ArrowUp ==
    /\ Editing /\ from = to /\ from = 0 /\ caretLine > 1
    /\ Caret(caretLine - 1, Len(lines[caretLine - 1])) /\ UNCHANGED lines
ArrowDown ==
    /\ Editing /\ from = to /\ from = Len(Here) /\ caretLine < Len(lines)
    /\ Caret(caretLine + 1, 0) /\ UNCHANGED lines

Escape == Editing /\ caretLine' = 0 /\ UNCHANGED <<lines, from, to>>

(* Typing, and Tab, which types two blanks.                                *)
Type(text) ==
    /\ Editing
    /\ Fits([lines EXCEPT ![caretLine] = Upto(@, from) \o text \o After(@, to)])
    /\ Caret(caretLine, from + Len(text))
Erase ==
    /\ Editing /\ (from < to \/ from > 0)
    /\ LET s == IF from < to THEN from ELSE from - 1
       IN  /\ lines' = [lines EXCEPT ![caretLine] = Upto(@, s) \o After(@, to)]
           /\ Caret(caretLine, s)

Enter ==
    /\ Editing
    /\ LET both == SplitLineAt(Here, from)
       IN  /\ Fits(Splice(lines, caretLine, 1, both))
           /\ Caret(caretLine + 1, IF from = Len(Here) THEN Len(both[2]) ELSE 0)

MergeUp ==
    /\ Editing /\ from = to /\ from = 0 /\ caretLine > 1
    /\ lines' = Splice(lines, caretLine - 1, 2, <<Merged(lines[caretLine - 1], Here)>>)
    /\ Caret(caretLine - 1, Len(lines[caretLine - 1]))

(* The caret goes where the last pasted line ended on the clipboard: short *)
(* of the pasted text when that is a single line.                          *)
Paste(text) ==
    /\ Editing
    /\ LET pasted == Pasted(Upto(Here, from), text, After(Here, to))
       IN  /\ Fits(Splice(lines, caretLine, 1, pasted))
           /\ Caret(caretLine + Len(pasted) - 1, Len(Last(ToLines(text))))

Next ==
    \/ ArrowUp \/ ArrowDown \/ Escape \/ Erase \/ Enter \/ MergeUp
    \/ \E i \in DOMAIN lines : StartEdit(i) \/ Retarget(i)
    \/ \E s, e \in 0 .. MaxLength : Select(s, e)
    \/ \E x \in Chars : Type(<<x>>)
    \/ Type(<<Space, Space>>)
    \/ \E text \in Pastes : Paste(text)

Spec == Init /\ [][Next]_vars

----------------------------------------------------------------------------
Offset(ls, line, col) == Len(Joined(Upto(ls, line))) - Len(ls[line]) + col

(* The lines are one text to whoever edits them: an edit takes away at     *)
(* most the selection, or the character before it, and puts its own text   *)
(* there, so that all else stays as it was; and where an edit changes the  *)
(* number of lines the caret stands behind what it put there.              *)
EditStep ==
    lines' # lines =>
        LET before == Joined(lines)
            after  == Joined(lines')
            start  == Offset(lines, caretLine, from)
        IN  \E a \in {start, start - 1}, b \in {start, Offset(lines, caretLine, to)} :
                LET end == Len(after) - (Len(before) - b)
                IN  /\ 0 <= a /\ a <= b /\ a <= end /\ (a = start - 1 => end = a)
                    /\ Upto(after, a) = Upto(before, a) /\ After(after, end) = After(before, b)
                    /\ Len(lines') # Len(lines) => Offset(lines', caretLine', from') = end
=============================================================================
