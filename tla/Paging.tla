------------------------------- MODULE Paging -------------------------------
(***************************************************************************)
(* How long lists and logs are cut into messages: the pages of containers  *)
(* and images (docker_handlers/pagination.py, containers.py, images.py),   *)
(* the pages of logs and the part of a page that a message can hold        *)
(* (docker_handlers/inline/logs.py).  A list is the sequence of the        *)
(* lengths of its rendered items, logs are a sequence of characters.       *)
(***************************************************************************)
EXTENDS Integers, Sequences, SequencesExt, FiniteSets

Larger(a, b) == IF a > b THEN a ELSE b
Lesser(a, b) == IF a < b THEN a ELSE b

----------------------------------------------------------------------------
\* Fault: the last, incomplete page does not count.
TotalPagesWhole(n, size) == Larger(1, n \div size)

TotalPages(n, size) == Larger(1, (n + size - 1) \div size)

\* paginate_items: the window of a page, its number brought into range.
PageWindow(items, page, size) ==
    LET pages == TotalPages(Len(items), size)
        safe  == Larger(1, Lesser(page, pages))
    IN  [page |-> safe, pages |-> pages, start |-> (safe - 1) * size,
         items |-> SubSeq(items, (safe - 1) * size + 1, Lesser(safe * size, Len(items)))]

PageLength(items) == FoldLeft(LAMBDA x, y : x + y, 0, items)

\* _render_paginated_container_text: smaller pages of the same number are
\* tried until one fits; at size 1 the items only have their buttons.
ShownPage(items, page, initial, limit) ==
    LET largest == Lesser(Larger(1, initial), Larger(1, Len(items)))
        fits == {s \in 1 .. largest : PageLength(PageWindow(items, page, s).items) <= limit}
        size == IF fits = {} THEN 1 ELSE CHOOSE s \in fits : \A r \in fits : r <= s
    IN  [window |-> PageWindow(items, page, size), shrunk |-> size < largest, legible |-> fits # {}]

\* _render_paginated_images_text: nothing that fits is a page without items.
ShownImagesPage(items, page, initial, limit) ==
    LET shown == ShownPage(items, page, initial, limit)
    IN  IF shown.legible THEN shown
        ELSE [shown EXCEPT !.window = [page |-> 1, pages |-> 1, start |-> 0, items |-> << >>]]

\* The Prev and Next buttons.
PageButtons(w) ==
    (IF w.pages > 1 /\ w.page > 1 THEN {w.page - 1} ELSE {})
    \cup (IF w.pages > 1 /\ w.page < w.pages THEN {w.page + 1} ELSE {})

\* A walk from a page by the Next buttons: the windows it shows.
NextWalk(items, first, initial, limit) ==
    LET walk[p \in 1 .. Len(items) + 1] ==
          LET shown == ShownPage(items, p, initial, limit)
          IN  IF shown.window.page + 1 \in PageButtons(shown.window)
                THEN <<shown>> \o walk[shown.window.page + 1] ELSE <<shown>>
    IN  walk[first]

----------------------------------------------------------------------------
\* Logs: "n" is a newline, "x" and "&" are characters, of which "&" takes
\* EscapedLength characters once it is rendered.
Newline == "n"
EscapedLength == 3

StripNewlines(s) ==
    LET kept == {i \in DOMAIN s : s[i] # Newline}
    IN  IF kept = {} THEN << >> ELSE SubSeq(s, Min(kept), Max(kept))

\* Where the page that ends at a position begins: after the first newline in
\* reach, unless that leaves nothing.  Positions count what comes before.
ChunkStart(logs, end, size) ==
    LET earliest == Larger(0, end - size)
        newlines == {i \in earliest + 1 .. end : logs[i] = Newline}
        first == CHOOSE i \in newlines : \A j \in newlines : i <= j
    IN  IF earliest > 0 /\ newlines # {} /\ first < end THEN first ELSE earliest

\* _build_logs_chunks: the pages, newest first.
LogsChunks(logs, size) ==
    LET upTo[end \in 0 .. Len(logs)] ==
          IF end = 0 THEN << >>
          ELSE LET start == ChunkStart(logs, end, size)
                   chunk == StripNewlines(SubSeq(logs, start + 1, end))
               IN  (IF chunk = << >> THEN << >> ELSE <<chunk>>) \o upTo[start]
    IN  upTo[Len(logs)]

RenderedLength(s) ==
    FoldLeft(LAMBDA n, c : n + (IF c = "&" THEN EscapedLength ELSE 1), 0, s)

\* The search of _render_logs_page for the longest tail that fits with the
\* notice that the page was cut; 0 is none.
BestTail(chunk, limit, notice) ==
    LET n == Len(chunk)
        Fits(k) == RenderedLength(SubSeq(chunk, n - k + 1, n)) + notice <= limit
        search[left \in 1 .. n + 1, right \in 0 .. n, best \in 0 .. n] ==
          LET mid == (left + right) \div 2
          IN  IF left > right THEN best
              ELSE IF Fits(mid) THEN search[mid + 1, right, mid] ELSE search[left, mid - 1, best]
    IN  search[1, n, 0]

\* _render_logs_page: the characters of the page that are shown.
ShownLogs(chunk, limit, notice) ==
    IF RenderedLength(chunk) <= limit THEN Len(chunk) ELSE BestTail(chunk, limit, notice)

----------------------------------------------------------------------------
(* Walking a list by its Next buttons ends, and shows every item unless a    *)
(* page had to shrink to fit; what is shown fits and is a piece of the list. *)
WalkShowsAll(items, initial, limit) ==
    LET walk == NextWalk(items, 1, initial, limit)
        shown == UNION {{w.window.start + i : i \in DOMAIN w.window.items} : w \in ToSet(walk)}
    IN  /\ (\A w \in ToSet(walk) : ~w.shrunk /\ w.legible) => shown = DOMAIN items
        /\ \A w \in ToSet(walk) :
             /\ w.legible => PageLength(w.window.items) <= limit
             /\ \A p \in PageButtons(w.window) : p \in 1 .. w.window.pages

(* The pages of logs lose no character but newlines, keep the order, newest  *)
(* page first, and none is longer than a page may be.                        *)
ChunksLoseNothing(logs, size) ==
    LET NotNewline(c) == c # Newline
        chunks == LogsChunks(logs, size)
    IN  /\ SelectSeq(FlattenSeq(Reverse(chunks)), NotNewline) = SelectSeq(logs, NotNewline)
        /\ \A c \in ToSet(chunks) : Len(c) <= size

(* Of a page that does not fit, the message has the longest tail that does.  *)
TailIsLongest(chunk, limit, notice) ==
    LET n == ShownLogs(chunk, limit, notice)
        Length(k) == RenderedLength(SubSeq(chunk, Len(chunk) - k + 1, Len(chunk)))
    IN  RenderedLength(chunk) > limit =>
          /\ n > 0 => Length(n) + notice <= limit
          /\ \A k \in n + 1 .. Len(chunk) : Length(k) + notice > limit
=============================================================================
