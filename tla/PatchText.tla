----------------------------- MODULE PatchText -----------------------------
(***************************************************************************)
(* What a patch document means (agent patching.py): which sections the     *)
(* parser accepts, how hunks are placed in a file, and the content that    *)
(* the preflight wants each path to have.  A file is a sequence of lines;  *)
(* encodings, newlines and the markers of the grammar are left out.        *)
(***************************************************************************)
EXTENDS Integers, Sequences, FiniteSets

CONSTANT Absent     \* the content of a path that has no file

\* A hunk is a sequence of <<prefix, line>>; keep(h, drop) is its text
\* without the lines that have the prefix drop.
Kept(hunk, drop) ==
    LET kept == SelectSeq(hunk, LAMBDA l : l[1] # drop)
    IN  [i \in 1 .. Len(kept) |-> kept[i][2]]
Expected(hunk) == Kept(hunk, "+")
Replacement(hunk) == Kept(hunk, "-")

\* AnchoredPatchParser.parse: an added file has lines, a deletion has none,
\* and each hunk has an anchor and a change.
Parses(s) ==
    CASE s.action = "add" -> s.lines # <<>>
      [] s.action = "delete" -> TRUE
      [] OTHER -> /\ s.hunks # <<>>
                  /\ \A i \in 1 .. Len(s.hunks) :
                         /\ Expected(s.hunks[i]) # <<>>
                         /\ \E j \in 1 .. Len(s.hunks[i]) : s.hunks[i][j][1] # " "

Conflict == [lines |-> <<>>, from |-> -1]

\* The places at or after index from where the hunk's old text stands.
Candidates(lines, from, hunk) ==
    LET old == Expected(hunk) IN
    {i \in from .. Len(lines) - Len(old) : SubSeq(lines, i + 1, i + Len(old)) = old}

FirstPlace(lines, from, hunk) ==
    {i \in Candidates(lines, from, hunk) : \A j \in Candidates(lines, from, hunk) : i <= j}
UniquePlace(lines, from, hunk) ==
    LET c == Candidates(lines, from, hunk) IN IF Cardinality(c) = 1 THEN c ELSE {}

\* One hunk: exactly one place after the previous hunk, or a conflict.
ApplyHunk(text, hunk) ==
    LET place == UniquePlace(text.lines, text.from, hunk) IN
    IF text = Conflict \/ place = {} THEN Conflict
    ELSE LET i == CHOOSE i \in place : TRUE IN
         [lines |-> SubSeq(text.lines, 1, i) \o Replacement(hunk)
                    \o SubSeq(text.lines, i + Len(Expected(hunk)) + 1, Len(text.lines)),
          from |-> i + Len(Replacement(hunk))]

ApplyHunks(lines, hunks) ==
    LET after[n \in 0 .. Len(hunks)] ==
            IF n = 0 THEN [lines |-> lines, from |-> 0]
            ELSE ApplyHunk(after[n - 1], hunks[n])
    IN  after[Len(hunks)]

\* The paths of a section, and of a document.
PathsOf(s) == {s.path} \cup (IF s.action = "move" THEN {s.to} ELSE {})
Touched(sections) == UNION {PathsOf(sections[i]) : i \in 1 .. Len(sections)}

\* _preflight, as far as the file system has no say: the base hashes cover the
\* paths, no path occurs twice, what is added or moved to has no base, and
\* the hunks fit the text that the base hash stands for.
Admissible(sections, base) ==
    /\ sections # <<>> /\ DOMAIN base = Touched(sections)
    /\ \A i, j \in 1 .. Len(sections) :
           i # j => PathsOf(sections[i]) \cap PathsOf(sections[j]) = {}
    /\ \A i \in 1 .. Len(sections) : LET s == sections[i] IN
           /\ Parses(s)
           /\ (s.action = "add") = (base[s.path] = Absent)
           /\ s.action = "move" => base[s.to] = Absent
           /\ s.action \in {"update", "move"} =>
                  ApplyHunks(base[s.path], s.hunks) # Conflict

\* desired: the content each path is to have.
Desired(sections, base) ==
    [p \in Touched(sections) |->
        LET s == CHOOSE s \in {sections[i] : i \in 1 .. Len(sections)} : p \in PathsOf(s) IN
        IF s.action = "add" THEN s.lines
        ELSE IF s.action = "delete" \/ (s.action = "move" /\ p = s.path) THEN Absent
        ELSE ApplyHunks(base[s.path], s.hunks).lines]
=============================================================================
