------------------------------- MODULE Reader --------------------------------
(* The terminal reader of articles with images                               *)
(* (crates/tools/jailbin/src/blog/reader.rs), entered from `blog`.           *)
(*                                                                           *)
(* The article is a sequence of pre-rendered lines; the sidecar manifest     *)
(* names blocks of lines that stand for an image.  The reader lays text and  *)
(* images out as model rows, shows a window of them, and moves that window   *)
(* on keys and on changes of the terminal's size.  A move by one row scrolls *)
(* the terminal and adds one row; everything else clears and redraws.        *)
(*                                                                           *)
(* Abstractions: a text row is the number of its line and a row of an image  *)
(* the pixel rows it shows, at the width it was scaled to; no line is empty. *)
(* The caches of bytes, whole payloads and decoded images hold values that   *)
(* depend on nothing else and are left out; the two caches of slices, whose  *)
(* keys decide what a hit shows, are kept.  Output errors are not modelled.  *)
EXTENDS Integers, SequencesExt

CONSTANTS
    NLines,           \* the lines of the pre-rendered text, numbered from 0
    Manifests,        \* what the sidecar may hold: a set of sequences of image anchors
    Assets,           \* the processed image files
    Kinds,            \* the assignments of a kind to each of them (see AssetKind)
    Cells,            \* the cell sizes a terminal answers, and the default: [h, w]
    Sizes,            \* the sizes of the terminal, <<columns, rows>>
    MIN_COLS, PRE_COLS, LRU_CAP, ROW_SLICE_LRU_CAP

\* good:        every payload can be made
\* bulky:       a slice of several rows exceeds MAX_IIP_PAYLOAD
\* undecodable: the file can be sent whole and not decoded, so not sliced
\* unreadable:  the file cannot be read
AssetKind == {"good", "bulky", "undecodable", "unreadable"}

ASSUME LinesAssumption == NLines \in Nat
ASSUME ManifestsAssumption ==
    \A imgs \in Manifests :
        /\ imgs \in Seq(Range(imgs))
        /\ \A i \in DOMAIN imgs :
              {imgs[i].block_start, imgs[i].block_end, imgs[i].w, imgs[i].h,
               imgs[i].indent_cols, imgs[i].display_cols} \subseteq Nat
\* content-build measures each file once, for all the blocks that show it.
ASSUME MeasuresAssumption ==
    \A imgs \in Manifests : \A i, j \in DOMAIN imgs :
        imgs[i].asset = imgs[j].asset => imgs[i].w = imgs[j].w /\ imgs[i].h = imgs[j].h
ASSUME KindsAssumption == Kinds \subseteq [Assets -> AssetKind]
ASSUME CellsAssumption == \A c \in Cells : c.h \in Nat \ {0} /\ c.w \in Nat \ {0}
ASSUME SizesAssumption == Sizes \subseteq (Nat \X (Nat \ {0}))
ASSUME LimitsAssumption ==
    /\ MIN_COLS \in Nat \ {0} /\ PRE_COLS \in Nat
    /\ LRU_CAP \in Nat \ {0} /\ ROW_SLICE_LRU_CAP \in Nat \ {0}

VARIABLES
    images,     \* the anchors of the manifest
    kind,       \* the kind of each asset
    cell,       \* the cell size the reader works with
    tty,        \* the size of the terminal
    resized,    \* is a Resize event waiting to be read?
    st,         \* where the command is
    cols, rows, \* cols_now and rows_now
    model,      \* the Model: items, block_row, r_rows
    scroll,     \* the first model row of the window
    failed, slices, row_slices,   \* of Caches
    screen,     \* what each row of the terminal shows
    result      \* the lines left on the main screen, or the line handed to less

vars == <<images, kind, cell, tty, resized, st, cols, rows, model, scroll,
          failed, slices, row_slices, screen, result>>

-----------------------------------------------------------------------------
(* The manifest.                                                             *)

\* What preflight asks of one anchor.
AnchorOK(a) ==
    /\ a.block_start < a.block_end /\ a.block_end <= NLines
    /\ a.w > 0 /\ a.h > 0
    /\ a.indent_cols <= a.display_cols /\ a.display_cols <= PRE_COLS
    /\ a.asset \in Assets

\* preflight: an article whose manifest fails goes to less.
preflight(imgs) ==
    /\ NLines > 0
    /\ \A i \in DOMAIN imgs :
        AnchorOK(imgs[i]) /\ (i > 1 => imgs[i - 1].block_end <= imgs[i].block_start)

-----------------------------------------------------------------------------
(* Geometry, in display pixels.                                              *)

display_height(a, wpx) == Max({1, (wpx * a.h) \div a.w})

CeilDiv(n, d) == (n + d - 1) \div d

block_geometry(a, c) ==
    LET wcols == Max({1, Min({a.display_cols, Max({0, c - a.indent_cols})})})
        wpx == wcols * cell.w
    IN  [wpx |-> wpx, r |-> CeilDiv(display_height(a, wpx), cell.h)]

\* The pixel rows of vis rows of cells from the k-th on.
slice_window(full, k, vis) ==
    LET y0 == Min({k * cell.h, full})
        y1 == Min({(k + vis) * cell.h, full})
    IN  IF y1 <= y0 THEN <<Max({0, y0 - 1}), Min({Max({y0, 1}), full})>> ELSE <<y0, y1>>

-----------------------------------------------------------------------------
(* The slice caches: sequences of entries, the least recently used first.    *)
(* retain takes out the one entry of its key.                                *)

Cached(c, k) == \E i \in DOMAIN c : c[i].key = k
Entry(c, k) == CHOOSE e \in Range(c) : e.key = k
Without(c, k) == RemoveAt(c, CHOOSE i \in DOMAIN c : c[i].key = k)

LruGet(c, k) == IF Cached(c, k) THEN Append(Without(c, k), Entry(c, k)) ELSE c

LruInsert(cap, c, k, v) ==
    LET room == IF Cached(c, k) THEN Without(c, k)
                ELSE IF Len(c) >= cap THEN Tail(c) ELSE c
    IN  Append(room, [key |-> k, val |-> v])

\* A payload: the pixel rows y0 up to y1 of an asset scaled to width wpx.
Payload(a, wpx, w) == [asset |-> a.asset, wpx |-> wpx, y0 |-> w[1], y1 |-> w[2]]

full_payload_ok(a, bad) == a.asset \notin bad /\ kind[a.asset] # "unreadable"

\* The slice, or not, and the cache afterwards.  Only place_image looks at failed.
slice_payload(a, wpx, w, c) ==
    LET key == <<a.asset, wpx, w[1], w[2]>>
        p   == Payload(a, wpx, w)
    IN  IF Cached(c, key)
        THEN [ok |-> TRUE, val |-> Entry(c, key).val, cache |-> LruGet(c, key)]
        ELSE IF \/ kind[a.asset] \in {"undecodable", "unreadable"}
                \/ kind[a.asset] = "bulky" /\ w[2] - w[1] > cell.h
             THEN [ok |-> FALSE, val |-> p, cache |-> c]
             ELSE [ok |-> TRUE, val |-> p, cache |-> LruInsert(LRU_CAP, c, key, p)]

\* Mutant: rows are remembered without the width they were scaled to.
row_keyAnyWidth(a, wpx, off) == <<a.asset, off>>
row_key(a, wpx, off) == <<a.asset, wpx, off>>

row_payload(a, wpx, off, c) ==
    LET key == row_key(a, wpx, off)
        p   == Payload(a, wpx, slice_window(display_height(a, wpx), off, 1))
    IN  IF Cached(c, key)
        THEN [ok |-> TRUE, val |-> Entry(c, key).val, cache |-> LruGet(c, key)]
        ELSE IF kind[a.asset] \in {"undecodable", "unreadable"}
             THEN [ok |-> FALSE, val |-> p, cache |-> c]
             ELSE [ok |-> TRUE, val |-> p, cache |-> LruInsert(ROW_SLICE_LRU_CAP, c, key, p)]

-----------------------------------------------------------------------------
(* The model: one item per row of the laid out article, numbered from 0.     *)

Text(line) == <<"text", line>>
Image(i)   == <<"image", i>>
Alt(i)     == <<"alt", i>>

TextLines(from, to) == [j \in 1..(to - from) |-> Text(from + j - 1)]

\* A block whose payload cannot be made keeps its placeholder lines, and r_rows is 0.
build_model(c, bad) ==
    LET Shown(i) == full_payload_ok(images[i], bad)
        R(i)     == block_geometry(images[i], c).r
        Gap(i)   == TextLines(IF i = 1 THEN 0 ELSE images[i - 1].block_end, images[i].block_start)
        Block(i) == IF Shown(i)
                    THEN [j \in 1..(R(i) + 1) |-> IF j <= R(i) THEN Image(i) ELSE Alt(i)]
                    ELSE TextLines(images[i].block_start, images[i].block_end)
        Upto(n)  == FlattenSeq([i \in 1..n |-> Gap(i) \o Block(i)])
    IN  [items     |-> Upto(Len(images)) \o TextLines(Last(images).block_end, NLines),
         block_row |-> [i \in DOMAIN images |-> Len(Upto(i - 1)) + Len(Gap(i))],
         r_rows    |-> [i \in DOMAIN images |-> IF Shown(i) THEN R(i) ELSE 0]]

\* The rendered line a model row stands for: that of an image is its block's first.
line_of(item) == IF item[1] = "text" THEN item[2] ELSE images[item[2]].block_start

anchor_line(m, s) == IF s < Len(m.items) THEN line_of(m.items[s + 1]) ELSE 0

scroll_to_line(m, line) ==
    Min({Len(m.items)} \cup {s \in 0..(Len(m.items) - 1) : line_of(m.items[s + 1]) >= line})

max_scroll(m, r) == Max({0, Len(m.items) - r})

-----------------------------------------------------------------------------
(* Drawing.  What a terminal row shows is a text line, an alt line, a strip  *)
(* of an image, nothing, two things written over each other, or anything: so *)
(* after a change of size, and where a message went to stderr, which is the  *)
(* same terminal.                                                            *)

Blank == <<"blank">>
Mixed == <<"mixed">>
Anything == <<"any">>
Unknown(size) == [y \in 0..(size[2] - 1) |-> Anything]
Strip(p, y0, y1) == <<"strip", p.asset, p.wpx, y0, y1>>

Over(old, new) == IF old \in {Blank, new} THEN new ELSE IF old = Anything THEN Anything ELSE Mixed

\* fill_model_row leaves the rows of an image blank.
fill_model_row(m, row) ==
    IF row >= Len(m.items) \/ m.items[row + 1][1] = "image" THEN Blank ELSE m.items[row + 1]

\* A payload drawn with its top at row y of r rows.
Drawn(scr, p, y, r) ==
    [n \in 0..(r - 1) |->
        LET from == p.y0 + (n - y) * cell.h
        IN  IF n >= y /\ from < p.y1
            THEN Over(scr[n], Strip(p, from, Min({from + cell.h, p.y1})))
            ELSE scr[n]]

\* The raw lines of a degraded block, from row top on.  A negative row is cast
\* to u16: the cursor goes to the first row for -1 and to the last otherwise.
Fallback(scr, a, top, n, r) ==
    LET At(j) == IF top + j >= 0 THEN top + j ELSE IF top + j = -1 THEN 0 ELSE r - 1
        put[j \in 0..n] ==
            IF j = 0 THEN scr
            ELSE [put[j - 1] EXCEPT ![At(j - 1)] = Over(@, Text(a.block_start + j - 1))]
    IN  put[n]

\* One image of a frame: place_image and what draw_frame does with its answer.
\* d holds the screen, the failed assets and the slice cache so far.
place_image(d, i, m, s, c, r) ==
    LET a    == images[i]
        g    == block_geometry(a, c)
        top  == m.block_row[i] - s
        k    == Max({0, -top})
        vis  == Max({1, Min({g.r - k, Max({0, r - Max({0, top})})})})
        whole == top >= 0 /\ top + g.r <= r
        res  == IF whole
                THEN [ok |-> full_payload_ok(a, d.failed), cache |-> d.slices,
                      val |-> Payload(a, g.wpx, <<0, display_height(a, g.wpx)>>)]
                ELSE slice_payload(a, g.wpx, slice_window(display_height(a, g.wpx), k, vis), d.slices)
        n    == Min({m.r_rows[i] + 1, a.block_end - a.block_start, Max({0, r - Max({0, top})})})
        fallen == [d EXCEPT !.screen = Fallback(@, a, top, n, r)]
    IN  IF top + m.r_rows[i] + 1 <= 0 \/ top >= r THEN d
        ELSE IF a.asset \in d.failed THEN fallen
        ELSE IF top + g.r <= 0 THEN d
        ELSE IF res.ok THEN [d EXCEPT !.screen = Drawn(@, res.val, Max({0, top}), r),
                                      !.slices = res.cache]
        ELSE [d EXCEPT !.screen = Unknown(<<c, r>>), !.failed = @ \cup {a.asset}]  \* eprintln!

draw_frame(m, s, c, r, bad) ==
    LET drawn[i \in 0..Len(images)] ==
            IF i = 0 THEN [screen |-> [y \in 0..(r - 1) |-> fill_model_row(m, s + y)],
                           failed |-> bad, slices |-> slices]
            ELSE place_image(drawn[i - 1], i, m, s, c, r)
    IN  drawn[Len(images)]

\* Terminal::draw sizes its buffer by the terminal as it is now; a row written
\* below that buffer panics.
Panics(m, s, r) == \E y \in tty[2]..(r - 1) : fill_model_row(m, s + y) # Blank

\* A whole frame of model m from row s on, by a reader that believes in c x r.
Frame(m, s, c, r, bad) ==
    /\ model' = m /\ scroll' = s /\ cols' = c /\ rows' = r
    /\ IF Panics(m, s, r)
       THEN st' = "panicked" /\ failed' = bad /\ UNCHANGED <<slices, screen>>
       ELSE LET d == draw_frame(m, s, c, r, bad) IN
            /\ st' = "reading" /\ failed' = d.failed /\ slices' = d.slices
            /\ screen' = IF tty = <<c, r>> THEN d.screen ELSE Unknown(tty)

-----------------------------------------------------------------------------
(* The command.                                                              *)

\* What the terminal answers in time and in form, or the default.  The model lays out
\* the screen by the same size: that of another font would only move the images.
query_cell_size == Cells

NoModel == [items |-> <<>>, block_row |-> <<>>, r_rows |-> <<>>]

Init ==
    /\ images \in Manifests /\ kind \in Kinds /\ tty \in Sizes
    /\ cell \in query_cell_size
    /\ st = "shell" /\ resized = FALSE
    /\ cols = 0 /\ rows = 0 /\ model = NoModel /\ scroll = 0
    /\ failed = {} /\ slices = <<>> /\ row_slices = <<>>
    /\ screen = Unknown(tty) /\ result = <<>>

fixed == <<images, kind, cell, tty>>
view == <<cols, rows, model, scroll, failed, slices, row_slices, screen>>

\* try_run up to TermGuard::enter: the reader, or less.
try_run(capable) ==
    /\ st = "shell"
    /\ st' = IF capable /\ tty[1] >= MIN_COLS /\ images # <<>> /\ preflight(images)
             THEN "entering" ELSE "less"
    /\ UNCHANGED <<fixed, resized, view, result>>

\* run_tui up to its loop; the size is read again.
run_tui ==
    /\ st = "entering"
    /\ IF tty[1] < MIN_COLS
       THEN st' = "handoff" /\ result' = <<1>> /\ UNCHANGED view
       ELSE Frame(build_model(tty[1], {}), 0, tty[1], tty[2], {})
            /\ UNCHANGED <<row_slices, result>>
    /\ UNCHANGED <<fixed, resized>>

\* External: the visitor changes the size of the window.
TerminalResized(size) ==
    /\ st \in {"entering", "reading"} /\ size # tty
    /\ tty' = size /\ screen' = Unknown(size)
    /\ resized' = (st = "reading")
    /\ UNCHANGED <<images, kind, cell, st, cols, rows, model, scroll, failed, slices,
                   row_slices, result>>

\* The row a key moves the window to.
key_action(key) ==
    LET last == max_scroll(model, rows) IN
    CASE key = "down"      -> Min({scroll + 1, last})
      [] key = "up"        -> Max({scroll - 1, 0})
      [] key = "page down" -> Min({scroll + rows, last})
      [] key = "page up"   -> Max({scroll - rows, 0})
      [] key = "top"       -> 0
      [] key = "bottom"    -> last

Keys == {"down", "up", "page down", "page up", "top", "bottom"}

\* The model row that a move by one row brings onto the screen.
incremental_target(new) == IF new > scroll THEN new + rows - 1 ELSE new

\* The terminal moves its rows by one and the new one is written.
Shifted(new, row) ==
    IF tty # <<cols, rows>> THEN screen
    ELSE IF new > scroll
         THEN [y \in 0..(rows - 1) |-> IF y = rows - 1 THEN row ELSE screen[y + 1]]
         ELSE [y \in 0..(rows - 1) |-> IF y = 0 THEN row ELSE screen[y - 1]]

draw_incremental_scroll(new) ==
    LET at   == incremental_target(new)
        item == model.items[at + 1]
        a    == images[item[2]]
        res  == row_payload(a, block_geometry(a, cols).wpx, at - model.block_row[item[2]], row_slices)
        bad  == failed \cup {a.asset}
        m    == build_model(cols, bad)
    IN  CASE at >= Len(model.items) ->          \* IncrementalError::Terminal
               st' = "error" /\ UNCHANGED view
          [] at < Len(model.items) /\ item[1] # "image" ->
               /\ scroll' = new /\ screen' = Shifted(new, item)
               /\ UNCHANGED <<st, cols, rows, model, failed, slices, row_slices>>
          [] at < Len(model.items) /\ item[1] = "image" ->
               /\ row_slices' = res.cache
               /\ IF res.ok
                  THEN /\ scroll' = new
                       /\ screen' = Shifted(new, Strip(res.val, res.val.y0, res.val.y1))
                       /\ UNCHANGED <<st, cols, rows, model, failed, slices>>
                  ELSE Frame(m, Min({scroll_to_line(m, anchor_line(model, new)), max_scroll(m, rows)}),
                             cols, rows, bad)

\* A key that moves the window.
Key(key) ==
    /\ st = "reading"
    /\ LET new == key_action(key) IN
        /\ new # scroll
        /\ IF new - scroll \in {-1, 1}
           THEN draw_incremental_scroll(new)
           ELSE Frame(model, new, cols, rows, failed) /\ UNCHANGED row_slices
    /\ UNCHANGED <<fixed, resized, result>>

\* Mutant: the window keeps its row number when the rows are laid out anew.
ResizedScrollSameRow(m) == Min({scroll, max_scroll(m, tty[2])})

\* Mutant: the window is not moved back when it grows past the end.
ResizedScrollUnclamped(m) ==
    IF tty[1] # cols THEN scroll_to_line(m, anchor_line(model, scroll)) ELSE scroll

\* Where the window starts in the model m of the new size.
ResizedScroll(m) ==
    Min({IF tty[1] # cols THEN scroll_to_line(m, anchor_line(model, scroll)) ELSE scroll,
         max_scroll(m, tty[2])})

\* Event::Resize: too narrow a window is handed to less at the same line.
Resize ==
    /\ st = "reading" /\ resized /\ resized' = FALSE
    /\ IF tty[1] < MIN_COLS
       THEN /\ st' = "handoff" /\ result' = <<anchor_line(model, scroll) + 1>>
            /\ UNCHANGED view
       ELSE LET m == IF tty[1] # cols THEN build_model(tty[1], failed) ELSE model
            IN  /\ Frame(m, ResizedScroll(m), tty[1], tty[2], failed)
                /\ UNCHANGED <<row_slices, result>>
    /\ UNCHANGED fixed

BlockLines(i) == [j \in 1..(images[i].block_end - images[i].block_start) |-> images[i].block_start + j - 1]

\* Mutant: the alt row is skipped with the image, and with it the row below.
BlockRowsAndAlt(m, i) == m.r_rows[i] + 2

\* The rows exit_view skips once it has met an image, as many as the whole image has.
BlockRows(m, i) == Max({1, m.r_rows[i]})

\* The lines left on the main screen: an image becomes its placeholder.
exit_view(m, s, r) ==
    LET end == Min({s + r, Len(m.items)})
        from[i \in s..(end + Len(m.items))] ==
            IF i >= end THEN <<>>
            ELSE LET item == m.items[i + 1] IN
                 CASE item[1] = "text"  -> <<item[2]>> \o from[i + 1]
                   [] item[1] = "image" -> BlockLines(item[2]) \o from[i + BlockRows(m, item[2])]
                   [] item[1] = "alt"   -> from[i + 1]
    IN  from[s]

Quit ==
    /\ st = "reading"
    /\ st' = "quit" /\ result' = exit_view(model, scroll, rows)
    /\ UNCHANGED <<fixed, resized, view>>

Next ==
    \/ \E capable \in BOOLEAN : try_run(capable)
    \/ run_tui
    \/ \E size \in Sizes : TerminalResized(size)
    \/ \E key \in Keys : Key(key)
    \/ Resize
    \/ Quit

Spec == Init /\ [][Next]_vars

-----------------------------------------------------------------------------
(* Properties.                                                               *)

CacheOK(c, cap) == Len(c) <= cap /\ \A i, j \in DOMAIN c : c[i].key = c[j].key => i = j

\* The article lines that row s of the model accounts for.
LinesOf(m, s) ==
    LET item == m.items[s + 1] IN
    CASE item[1] = "text"  -> <<item[2]>>
      [] item[1] = "image" -> IF s = m.block_row[item[2]] THEN BlockLines(item[2]) ELSE <<>>
      [] item[1] = "alt"   -> <<>>

Visible == {s \in scroll..(scroll + rows - 1) : s < Len(model.items)}

LeftLines ==
    UNION {CASE model.items[s + 1][1] = "text"  -> {model.items[s + 1][2]}
             [] model.items[s + 1][1] = "image" -> Range(BlockLines(model.items[s + 1][2]))
             [] model.items[s + 1][1] = "alt"   -> {} : s \in Visible}

\* No line of the article is lost.  However often it is laid out anew, after resizes
\* and failed images, every line is in the model exactly once and in order, as text or
\* as part of the block of an image (build_model, on what preflight lets through); and
\* unless the window starts within an image, quitting leaves every line it showed on
\* the main screen, each once and in the order of the article (exit_view).
NoLineLost ==
    /\ st = "reading" =>
          FlattenSeq([s \in 1..Len(model.items) |-> LinesOf(model, s - 1)])
              = [l \in 1..NLines |-> l - 1]
    /\ LET first == model.items[scroll + 1] IN
       (st = "quit" /\ (first[1] = "image" => model.block_row[first[2]] = scroll)) =>
          /\ Range(result) = LeftLines
          /\ \A i, j \in DOMAIN result : i < j => result[i] < result[j]

\* An image that failed after the model was built keeps its rows in the model
\* until the next layout.
DegradedInPlace == \E i \in DOMAIN images : images[i].asset \in failed /\ model.r_rows[i] > 0

Expected(y) ==
    LET s == scroll + y IN
    IF s >= Len(model.items) THEN Blank
    ELSE LET item == model.items[s + 1] IN
         IF item[1] # "image" THEN item
         ELSE LET a == images[item[2]]
                  wpx == block_geometry(a, cols).wpx
                  off == (s - model.block_row[item[2]]) * cell.h
              IN  <<"strip", a.asset, wpx, off, Min({off + cell.h, display_height(a, wpx)})>>

\* Whatever mixture of one-row scrolls, frames, resizes and cache hits led here,
\* each row of the screen shows its row of the model: the right line, or the
\* right pixels of the image at the present width (draw_incremental_scroll agrees
\* with draw_frame), or a message that an image failed.  Excluded: a window whose
\* size the reader has yet to learn, and an image that is degraded in place.
ScreenShowsArticle ==
    (st = "reading" /\ ~resized /\ ~DegradedInPlace) =>
        \A y \in 0..(rows - 1) :
            screen[y] = Expected(y) \/ (failed # {} /\ screen[y] = Anything)

\* No sequence of keys and resizes takes the reader out of its bounds: it does not
\* scroll past the end and stop with "model row out of bounds", its caches keep to their
\* capacity with one entry per key, and it panics only when the window shrank and the
\* reader has not read the event.
ReaderInBounds ==
    /\ st # "error"
    /\ st = "reading" => scroll <= max_scroll(model, rows)
    /\ st = "panicked" => resized /\ rows > tty[2]
    /\ CacheOK(slices, LRU_CAP) /\ CacheOK(row_slices, ROW_SLICE_LRU_CAP)

OnScreen(line) ==
    \E s \in scroll..(scroll + rows - 1) : s < Len(model.items) /\ line_of(model.items[s + 1]) = line

\* The reading position survives a new layout: after a resize the line at the top
\* is still on the screen, after an image failed the one the key moved to is, and
\* less opens at the line that was at the top.
PositionKept ==
    [][st = "reading" =>
        /\ (resized /\ ~resized' /\ st' = "reading") =>
               \E line \in {anchor_line(model, scroll)} : OnScreen(line)'
        /\ (cols' = cols /\ model' # model) =>
               \E line \in {anchor_line(model, s) : s \in {scroll - 1, scroll + 1} \cap Nat} : OnScreen(line)'
        /\ st' = "handoff" => result' = <<anchor_line(model, scroll) + 1>>]_vars
=============================================================================
