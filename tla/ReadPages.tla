----------------------------- MODULE ReadPages ------------------------------
(***************************************************************************)
(* Reads that come in pages (read_tools.py for a project's own files,      *)
(* scoped_read_tools.py for an approved folder): a client reads a file or  *)
(* searches a tree that does not change, and hands every continuation back *)
(* until there is none.                                                    *)
(*   reader   the read of a file: the request, the cursor of the next page *)
(*            (0-based line and character) and the characters given so far *)
(*   search   the search of a tree: the same, with file and line           *)
(* A line is the sequence of the widths, in bytes, of its characters.      *)
(***************************************************************************)
EXTENDS Naturals, Sequences, FiniteSets, FiniteSetsExt, SequencesExt

CONSTANTS
    TextFiles,    \* files: sequences of lines
    ByteCaps,     \* values of max_bytes
    Trees,        \* trees: sequences of files, in the order they are searched
    FileCap,      \* MAX_SEARCH_FILE_BYTES
    ScanCap       \* MAX_SEARCH_SCANNED_BYTES, not below FileCap

VARIABLES reader, search

readVars == <<reader, search>>

Services == {"project", "scoped"}
Start == [line |-> 0, char |-> 0]

\* One that is not there is 0: no end_line, no max_lines.
ReadInit ==
    /\ reader \in [service : Services, text : TextFiles, first : 1 .. 2, last : 0 .. 3, cap : 0 .. 2,
                   bytes : ByteCaps, next : {Start}, given : {<<>>}, at : {"new"}]
    /\ reader.last = 0 \/ reader.last >= reader.first

-----------------------------------------------------------------------------
(* read_file                                                               *)

\* The characters of a text, <<line, character, width>>, in order.
Characters(text) ==
    FlattenSeq([l \in DOMAIN text |-> [c \in DOMAIN text[l] |-> <<l - 1, c - 1, text[l][c]>>]])

Before(text, pos) ==
    Cardinality({i \in DOMAIN Characters(text) :
        LET x == Characters(text)[i] IN x[1] < pos.line \/ (x[1] = pos.line /\ x[2] < pos.char)})

Least(a, b) == IF a < b THEN a ELSE b

\* A continuation comes without the lines that were asked for first.
AskedLines(q) == IF q.at = "new" THEN [first |-> q.first, last |-> q.last] ELSE [first |-> 1, last |-> 0]

From(q) == IF q.at = "new" THEN [line |-> q.first - 1, char |-> 0] ELSE q.next

RequestedStop(q) == IF AskedLines(q).last = 0 THEN Len(q.text) ELSE Least(AskedLines(q).last, Len(q.text))
StopIndex(q) == IF q.cap = 0 THEN RequestedStop(q) ELSE Least(RequestedStop(q), From(q).line + q.cap)

\* What stands between the cursor and the stop.
Offered(q) ==
    SelectSeq(SubSeq(Characters(q.text), Before(q.text, From(q)) + 1, Len(Characters(q.text))),
              LAMBDA x : x[1] < StopIndex(q))

Bytes(chars) == FoldSeq(LAMBDA x, sum : x[3] + sum, 0, chars)

\* Whole lines while they fit, then what fits of the next one.
TextTaken(q) ==
    SubSeq(Offered(q), 1, Max({n \in 0 .. Len(Offered(q)) : Bytes(SubSeq(Offered(q), 1, n)) <= q.bytes}))

\* The cut is counted from where this page began in the line.
CutAfterForgetsOffset(q, x) == x[2] + 1 - (IF x[1] = From(q).line THEN From(q).char ELSE 0)

CutAfter(q, x) == x[2] + 1

NextCursor(q) ==
    IF TextTaken(q) = <<>> THEN From(q)
    ELSE LET x == Last(TextTaken(q))
         IN IF x[2] + 1 = Len(q.text[x[1] + 1]) THEN [line |-> x[1] + 1, char |-> 0]
            ELSE [line |-> x[1], char |-> CutAfter(q, x)]

\* Every reader treats the line cap as the end of the request.
ReadTruncatedAtCap(q, next) == next.line < StopIndex(q) \/ next.char > 0

ReadTruncated(q, next) ==
    \/ next.line < (IF q.service = "scoped" THEN RequestedStop(q) ELSE StopIndex(q))
    \/ next.char > 0

\* A cursor behind the file; the reader of an approved folder also refuses a page
\* that cannot hold the next character.
ReadRefused(q) ==
    \/ From(q).line > Len(q.text)
    \/ q.service = "scoped" /\ TextTaken(q) = <<>> /\ Offered(q) # <<>>

ReadPage ==
    /\ reader.at \in {"new", "more"}
    /\ LET q == reader
           next == NextCursor(q)
       IN IF ReadRefused(q)
          THEN reader' = [q EXCEPT !.at = "refused"]
          ELSE reader' = [q EXCEPT !.next = next, !.given = @ \o TextTaken(q),
                                   !.at = IF ReadTruncated(q, next) THEN "more" ELSE "done"]
    /\ UNCHANGED search

-----------------------------------------------------------------------------
(* search_text: a line is "match", "literal" (it holds the text of the     *)
(* expression and is no match of it) or "no".                              *)

SearchInit ==
    search \in [service : Services, tree : Trees, regex : BOOLEAN, limit : 1 .. 2,
                file : {0}, line : {0}, found : {<<>>}, at : {"more"}]

Searchable(f) == f.size <= FileCap

\* match is None for a literal search and for a line the expression does not match.
Hit(q, kind) == kind = "match" \/ (kind = "literal" /\ (~q.regex \/ q.service = "project"))

ScannedBytes(q, i) ==
    MapThenSumSet(LAMBDA j : q.tree[j + 1].size, {j \in q.file .. i : Searchable(q.tree[j + 1])})

\* The first file that the budget of this page does not reach.
OverBudget(q) ==
    {i \in q.file .. Len(q.tree) - 1 : Searchable(q.tree[i + 1]) /\ ScannedBytes(q, i) > ScanCap}

ScanStop(q) == IF OverBudget(q) = {} THEN Len(q.tree) ELSE Min(OverBudget(q))

Hits(q) ==
    FlattenSeq([i \in 1 .. ScanStop(q) |->
        IF i - 1 < q.file \/ ~Searchable(q.tree[i]) THEN <<>>
        ELSE SelectSeq([l \in DOMAIN q.tree[i].lines |-> <<i - 1, l - 1>>],
                       LAMBDA x : /\ Hit(q, q.tree[i].lines[x[2] + 1])
                                  /\ x[1] > q.file \/ x[2] >= q.line)])

After(q, x) == IF x[2] + 1 < Len(q.tree[x[1] + 1].lines) THEN <<x[1], x[2] + 1>> ELSE <<x[1] + 1, 0>>

NextHit(q) == IF Len(Hits(q)) >= q.limit THEN After(q, Hits(q)[q.limit]) ELSE <<ScanStop(q), 0>>

SearchPage ==
    /\ search.at = "more"
    /\ LET q == search
           next == NextHit(q)
       IN search' = [q EXCEPT !.found = @ \o SubSeq(Hits(q), 1, Least(q.limit, Len(Hits(q)))),
                              !.file = next[1], !.line = next[2],
                              !.at = IF next[1] < Len(q.tree) THEN "more" ELSE "done"]
    /\ UNCHANGED reader

-----------------------------------------------------------------------------
Widest(text) == Max({0} \cup {x[3] : x \in ToSet(Characters(text))})

\* The pages of a file, put together, are the file from the first line asked for:
\* no character is lost or given twice where a page ends inside a line
\* (read_tools.py and scoped_read_tools.py, read_file).
PagesJoin ==
    reader.at \in {"more", "done"} =>
        LET first == Before(reader.text, [line |-> reader.first - 1, char |-> 0])
        IN reader.given = SubSeq(Characters(reader.text), first + 1, first + Len(reader.given))

\* The lines of a request: from the first to the last one asked for.
InRange(x) == x[1] >= reader.first - 1 /\ (reader.last # 0 => x[1] < reader.last)

\* A read that ends without a continuation has given every line that was asked for.
\* In an approved folder that is so whichever of the byte cap and the line cap ended
\* its pages.  The reader of a project offers no continuation at the line cap
\* (read_tools.py, stop_index and truncated), so there the lines asked for end with
\* the cap of the first page, and only the byte cap is followed.
RangeServed ==
    reader.at = "done" =>
        \A x \in ToSet(Characters(reader.text)) :
            /\ InRange(x)
            /\ reader.service = "project" /\ reader.cap # 0 => x[1] < reader.first - 1 + reader.cap
            => x \in ToSet(reader.given)

\* A continuation is worth asking for: as long as a page holds the widest character,
\* the next page gives something, so a client that follows them comes to an end
\* (read_file; the public tool's pages hold at least 256 bytes).
EveryPageMoves ==
    reader.at = "more" /\ reader.bytes >= Widest(reader.text) => TextTaken(reader) # <<>>

\* A search that has ended found every line that matches once, in order, however
\* its pages were cut by the limit and by the scan budget (search_text).
SearchComplete ==
    search.at = "done" =>
        SelectSeq(search.found, LAMBDA x : search.tree[x[1] + 1].lines[x[2] + 1] = "match") =
        FlattenSeq([i \in DOMAIN search.tree |->
            IF ~Searchable(search.tree[i]) THEN <<>>
            ELSE SelectSeq([l \in DOMAIN search.tree[i].lines |-> <<i - 1, l - 1>>],
                           LAMBDA x : search.tree[i].lines[x[2] + 1] = "match")])

\* "exhausting a scan page always makes forward progress even when that page contains
\* no matches" (docs/protocol/tools.md): the cursor never stays where it was.
SearchMoves ==
    search.at = "more" =>
        LET next == NextHit(search)
        IN next[1] = Len(search.tree) \/ next[1] > search.file \/ (next[1] = search.file /\ next[2] > search.line)

\* Paged reads and searches are whole (read_tools.py, scoped_read_tools.py): the pages
\* of a file join to its text, what was asked for is served (in a project up to the line
\* cap), every page advances, and the pages of a search hold every match once.
ReadsWhole == PagesJoin /\ RangeServed /\ EveryPageMoves /\ SearchComplete /\ SearchMoves
=============================================================================
