---- MODULE DocumentBlocks ----
(* The local parsers (core/knowledge/parsing): Markdown, HTML and the text
   layer of a PDF become ordered blocks with the headings they stand
   under.  A Markdown line is known by what the patterns see of it, the
   text of HTML by its place among the texts, a page by how much text it
   has.  One action is one turn of the parser's loop. *)
EXTENDS Naturals, Sequences, SequencesExt, FiniteSets, FiniteSetsExt

CONSTANTS
    DbLineKinds,     \* the kinds of lines a Markdown source may have
    DbTags,          \* the tags an HTML source may have
    DbMaxLines, DbMaxTokens, DbMaxPages,  \* bounds of the three sources
    DbEnough         \* _MIN_TEXT_CHARACTERS, in the unit of a page's text

\* Heading lines of level 1 to 3; "---"; fences of either marker; a list item;
\* a line indented by two; "> ..."; any other text.
ASSUME DbAssumption ==
    /\ DbLineKinds \subseteq {"blank", "h1", "h2", "h3", "dashes", "ticks", "tildes",
                              "item", "indented", "quote", "text"}
    /\ DbTags \subseteq {"h1", "h2", "h3", "p", "li", "pre", "tr", "td", "title", "br",
                         "script", "style", "noscript", "template", "svg", "canvas"}
    /\ DbEnough \in Nat \ {0} /\ {DbMaxLines, DbMaxTokens, DbMaxPages} \subseteq Nat

VARIABLES
    dbSource,        \* the lines of the Markdown or the texts of the pages
    dbAt,            \* lines, tokens or pages read
    dbBlocks,        \* the blocks so far
    dbHeadings,      \* the headings in force, each by its place in the source
    dbHtml,          \* what the HTML collector keeps
    dbNest,          \* history: the skipped elements open, and whether one ended in another
    dbSkipped        \* history: the texts inside skipped elements, until one did

blVars == <<dbSource, dbAt, dbBlocks, dbHeadings, dbHtml, dbNest, dbSkipped>>

DbLevel(kind) == CASE kind = "h1" -> 1 [] kind = "h2" -> 2 [] kind = "h3" -> 3 [] OTHER -> 0

\* headings[:] = headings[: level - 1], then the new one.
DbUnder(headings, level, heading) == Append(SubSeq(headings, 1, Min({Len(headings), level - 1})), heading)

\* A block by the parts of the source in it.
DbBlock(kind, parts, headings) == [kind |-> kind, parts |-> parts, path |-> headings]

DbSpan(first, last) == [n \in 1..(last + 1 - first) |-> first + n - 1]

--------------------
(* Markdown: _blocks. *)

DbFence == {"ticks", "tildes"}

\* The line after the longest run from first on of lines of these kinds.
DbRunEnd(first, kinds) ==
    LET stops == {n \in first..Len(dbSource) : dbSource[n] \notin kinds}
    IN IF stops = {} THEN Len(dbSource) + 1 ELSE Min(stops)

\* The line after the closing fence, or the end of the source.
DbFenceEnd(first) ==
    LET closing == {n \in (first + 1)..Len(dbSource) : dbSource[n] = dbSource[first]}
    IN IF closing = {} THEN Len(dbSource) + 1 ELSE Min(closing) + 1

\* Where the block that begins at line first ends, the line after it.
DbBlockEnd(first) ==
    LET kind == dbSource[first] IN
    CASE DbLevel(kind) > 0 -> first + 1
      [] kind \in DbFence -> DbFenceEnd(first)
      [] kind = "item" -> DbRunEnd(first + 1, {"item", "indented"})
      [] kind = "quote" -> DbRunEnd(first + 1, {"quote"})
      [] OTHER -> DbRunEnd(first + 1, {"dashes", "indented", "quote", "text"})

DbBlockKind(kind) ==
    CASE DbLevel(kind) > 0 -> "heading"
      [] kind \in DbFence -> "code"
      [] kind = "item" -> "list"
      [] kind = "quote" -> "quote"
      [] OTHER -> "paragraph"

DbEmit(kind, first, next, headings) ==
    /\ dbBlocks' = Append(dbBlocks, DbBlock(kind, DbSpan(first, next - 1), headings))
    /\ dbHeadings' = headings
    /\ dbAt' = next - 1

\* The source may begin with a frontmatter between two lines of dashes.
DbFrontmatterEnds == {n \in 2..Len(dbSource) : dbSource[1] = "dashes" /\ dbSource[n] = "dashes"}

DbLine(first, kind) ==
    DbEmit(DbBlockKind(kind), first, DbBlockEnd(first),
           IF DbLevel(kind) > 0 THEN DbUnder(dbHeadings, DbLevel(kind), first) ELSE dbHeadings)

DbMarkdown ==
    /\ dbHtml.parser = "markdown" /\ dbAt < Len(dbSource)
    /\ IF dbAt = 0 /\ DbFrontmatterEnds # {}
       THEN DbEmit("frontmatter", 1, Min(DbFrontmatterEnds) + 1, dbHeadings)
       ELSE IF dbSource[dbAt + 1] = "blank"
       THEN dbAt' = dbAt + 1 /\ UNCHANGED <<dbBlocks, dbHeadings>>
       ELSE DbLine(dbAt + 1, dbSource[dbAt + 1])
    /\ UNCHANGED <<dbSource, dbHtml, dbNest, dbSkipped>>

--------------------
(* HTML: _SemanticHtmlCollector.  A heading is known by its block's place. *)

DbNone == "none"
DbCollector(parser) ==
    [parser |-> parser, skip |-> 0, capture |-> DbNone, captured |-> <<>>, title |-> 0,
     row |-> FALSE, cells |-> <<>>, cell |-> FALSE, inCell |-> <<>>, texts |-> 0]

\* _SKIPPED_TAGS: one counter for them all.
DbSkippedTags == {"script", "style", "noscript", "template", "svg", "canvas"}
DbCaptured(tag) == DbLevel(tag) > 0 \/ tag \in {"p", "li", "pre"}

\* _append: an item or a row joins the list or the table before it.
DbAppend(kind, parts, headings) ==
    /\ dbHeadings' = headings
    /\ dbBlocks' =
         IF kind \in {"list", "table"} /\ dbBlocks # <<>>
            /\ Last(dbBlocks).kind = kind /\ Last(dbBlocks).path = headings
         THEN [dbBlocks EXCEPT ![Len(dbBlocks)].parts = @ \o parts]
         ELSE Append(dbBlocks, DbBlock(kind, parts, headings))

DbHtmlStart(tag) ==
    /\ dbHtml' =
         CASE tag \in DbSkippedTags -> [dbHtml EXCEPT !.skip = @ + 1]
           [] tag \notin DbSkippedTags /\ dbHtml.skip > 0 -> dbHtml
           [] tag = "title" /\ dbHtml.skip = 0 -> [dbHtml EXCEPT !.title = @ + 1]
           [] tag = "tr" /\ dbHtml.skip = 0 -> [dbHtml EXCEPT !.row = TRUE, !.cells = <<>>]
           [] tag = "td" /\ dbHtml.skip = 0 /\ dbHtml.row -> [dbHtml EXCEPT !.cell = TRUE, !.inCell = <<>>]
           [] DbCaptured(tag) /\ dbHtml.skip = 0 /\ dbHtml.capture = DbNone ->
                [dbHtml EXCEPT !.capture = tag, !.captured = <<>>]
           [] OTHER -> dbHtml
    /\ UNCHANGED <<dbBlocks, dbHeadings>>

\* The end of a captured element with text.
DbHtmlBlock(tag, parts) ==
    CASE DbLevel(tag) > 0 -> DbAppend("heading", parts, DbUnder(dbHeadings, DbLevel(tag), Len(dbBlocks) + 1))
      [] tag = "li" -> DbAppend("list", parts, dbHeadings)
      [] tag = "pre" -> DbAppend("code", parts, dbHeadings)
      [] tag = "p" -> DbAppend("paragraph", parts, dbHeadings)

DbHtmlEnd(tag) ==
    CASE tag \in DbSkippedTags ->
           /\ dbHtml' = [dbHtml EXCEPT !.skip = IF @ = 0 THEN 0 ELSE @ - 1]
           /\ UNCHANGED <<dbBlocks, dbHeadings>>
      [] tag \notin DbSkippedTags /\ dbHtml.skip > 0 -> UNCHANGED <<dbHtml, dbBlocks, dbHeadings>>
      [] tag = "title" /\ dbHtml.skip = 0 /\ dbHtml.title > 0 ->
           dbHtml' = [dbHtml EXCEPT !.title = @ - 1] /\ UNCHANGED <<dbBlocks, dbHeadings>>
      [] tag = "td" /\ dbHtml.skip = 0 /\ dbHtml.cell ->
           /\ dbHtml' = [dbHtml EXCEPT !.cell = FALSE, !.inCell = <<>>,
                                       !.cells = IF dbHtml.row THEN @ \o dbHtml.inCell ELSE @]
           /\ UNCHANGED <<dbBlocks, dbHeadings>>
      [] tag = "tr" /\ dbHtml.skip = 0 /\ dbHtml.row ->
           /\ dbHtml' = [dbHtml EXCEPT !.row = FALSE, !.cells = <<>>]
           /\ IF dbHtml.cells = <<>> THEN UNCHANGED <<dbBlocks, dbHeadings>>
              ELSE DbAppend("table", dbHtml.cells, dbHeadings)
      [] dbHtml.skip = 0 /\ tag = dbHtml.capture ->
           /\ dbHtml' = [dbHtml EXCEPT !.capture = DbNone, !.captured = <<>>]
           /\ IF dbHtml.captured = <<>> THEN UNCHANGED <<dbBlocks, dbHeadings>>
              ELSE DbHtmlBlock(tag, dbHtml.captured)
      [] OTHER -> UNCHANGED <<dbHtml, dbBlocks, dbHeadings>>

DbHtmlText ==
    LET text == dbHtml.texts + 1 IN
    /\ dbHtml' = [dbHtml EXCEPT !.texts = text,
                                !.inCell = IF dbHtml.skip = 0 /\ dbHtml.cell THEN Append(@, text) ELSE @,
                                !.captured = IF dbHtml.skip = 0 /\ ~dbHtml.cell /\ dbHtml.capture # DbNone
                                             THEN Append(@, text) ELSE @]
    /\ dbSkipped' = IF dbNest.open # <<>> /\ ~dbNest.crossed THEN dbSkipped \cup {text} ELSE dbSkipped
    /\ UNCHANGED <<dbBlocks, dbHeadings>>

\* The elements open after a tag.  An end tag that is not the innermost one's
\* crosses: HTML ignores it where no such element is open, and else closes all
\* within; the counter knows neither.
DbOpened(tag) == [dbNest EXCEPT !.open = IF tag \in DbSkippedTags THEN Append(@, tag) ELSE @]
DbClosed(tag) ==
    IF tag \notin DbSkippedTags \/ dbNest.open = <<>> THEN dbNest
    ELSE IF Last(dbNest.open) = tag THEN [dbNest EXCEPT !.open = Front(@)]
    ELSE [dbNest EXCEPT !.crossed = TRUE]

\* HTMLParser takes what is inside these for text, up to their own end tag.
DbRaw == dbNest.open # <<>> /\ Last(dbNest.open) \in {"script", "style"}

DbHtmlToken ==
    /\ dbHtml.parser = "html" /\ dbAt < DbMaxTokens
    /\ dbAt' = dbAt + 1
    /\ \/ \E tag \in DbTags :
              /\ \/ ~DbRaw /\ DbHtmlStart(tag) /\ dbNest' = DbOpened(tag)
                 \/ (DbRaw => tag = Last(dbNest.open)) /\ DbHtmlEnd(tag) /\ dbNest' = DbClosed(tag)
              /\ UNCHANGED dbSkipped
       \/ DbHtmlText /\ UNCHANGED dbNest
    /\ UNCHANGED dbSource

--------------------
(* PDF: one block for each page with text; too little text requires OCR. *)

DbPdfPage ==
    LET page == dbAt + 1 IN
    /\ dbHtml.parser = "pdf" /\ dbAt < Len(dbSource)
    /\ dbAt' = page
    /\ dbBlocks' = IF dbSource[page] = 0 THEN dbBlocks
                   ELSE Append(dbBlocks, DbBlock("paragraph", <<page>>, <<page>>))
    /\ UNCHANGED <<dbSource, dbHeadings, dbHtml, dbNest, dbSkipped>>

DbPdfText == FoldLeft(LAMBDA sum, page : sum + page, 0, dbSource)
DbRequiresOcr == dbHtml.parser = "pdf" /\ dbAt = Len(dbSource) /\ DbPdfText < DbEnough

--------------------
DbInit ==
    /\ dbAt = 0 /\ dbBlocks = <<>> /\ dbHeadings = <<>> /\ dbSkipped = {}
    /\ dbNest = [open |-> <<>>, crossed |-> FALSE]
    /\ \/ /\ dbHtml = DbCollector("markdown")
          /\ dbSource \in UNION {[1..n -> DbLineKinds] : n \in 0..DbMaxLines}
       \/ dbHtml = DbCollector("html") /\ dbSource = <<>>
       \/ /\ dbHtml = DbCollector("pdf")
          /\ dbSource \in UNION {[1..n -> 0..DbEnough] : n \in 0..DbMaxPages}

DbNext == DbMarkdown \/ DbHtmlToken \/ DbPdfPage

DbSpec == DbInit /\ [][DbNext]_blVars

--------------------
\* The kinds deserialize_document accepts.
DbStoredKinds == {"frontmatter", "heading", "paragraph", "list", "code", "table", "quote", "media"}

\* The types of the state; a stored artifact of these blocks can be read back.
DbTypeOK ==
    /\ dbAt \in Nat
    /\ \A b \in DOMAIN dbBlocks : dbBlocks[b].kind \in DbStoredKinds
    /\ dbSkipped \subseteq 1..dbHtml.texts

DbParts == FlattenSeq([b \in DOMAIN dbBlocks |-> dbBlocks[b].parts])
DbPartsInOrder == \A m, n \in DOMAIN DbParts : m < n => DbParts[m] < DbParts[n]

\* Every line read that is not blank is in exactly one Markdown block, and the
\* lines of the blocks are in the order of the source: a fence without an end,
\* a list, a frontmatter neither swallow nor repeat what is around them.
DbEveryLineOnce ==
    dbHtml.parser = "markdown" =>
        /\ DbPartsInOrder
        /\ \A line \in 1..dbAt : dbSource[line] # "blank" => line \in ToSet(DbParts)
        /\ ToSet(DbParts) \subseteq 1..dbAt

\* The level of a heading block.
DbHeadingLevel(heading) == DbLevel(dbSource[heading])

\* The headings of a Markdown source, the lines inside other blocks left out.
DbHeadingLines == {dbBlocks[b].parts[1] : b \in {c \in DOMAIN dbBlocks : dbBlocks[c].kind = "heading"}}

\* No heading is more than one level below the one that it stands under.
DbNoLevelSkipped ==
    \A n \in DbHeadingLines :
        DbHeadingLevel(n) = 1 \/ \E m \in DbHeadingLines :
            /\ m < n /\ DbHeadingLevel(m) = DbHeadingLevel(n) - 1
            /\ \A k \in DbHeadingLines : m < k /\ k < n => DbHeadingLevel(k) > DbHeadingLevel(m)

\* A block's path is the headings still open where it begins: those not
\* followed by another of their level or above.  Where a level is skipped the
\* parser counts places, not levels, and the path may keep a sibling.
DbPathsAreOpen ==
    dbHtml.parser = "markdown" /\ DbNoLevelSkipped =>
        \A b \in DOMAIN dbBlocks :
            LET first == dbBlocks[b].parts[1] IN
            ToSet(dbBlocks[b].path) =
                {n \in DbHeadingLines : n <= first /\ \A k \in DbHeadingLines :
                     n < k /\ k <= first => DbHeadingLevel(k) > DbHeadingLevel(n)}

\* No text of a skipped element reaches a block, whatever is nested in it or
\* left open, as long as the skipped elements end in the order they began in;
\* and no text ever reaches two.
DbHtmlIsClean ==
    dbHtml.parser = "html" =>
        /\ ToSet(DbParts) \cap dbSkipped = {}
        /\ IsInjective(DbParts)

\* A PDF that is not refused has a block for every page with text, in order.
DbPagesInOrder ==
    dbHtml.parser = "pdf" /\ dbAt = Len(dbSource) /\ ~DbRequiresOcr =>
        /\ DbPartsInOrder /\ DbParts # <<>>
        /\ ToSet(DbParts) = {page \in DOMAIN dbSource : dbSource[page] > 0}

\* The blocks of a document are the source, in order and under its headings
\* (the properties above).
DbBlocksHold == DbEveryLineOnce /\ DbPathsAreOpen /\ DbHtmlIsClean /\ DbPagesInOrder
====
