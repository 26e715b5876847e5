------------------------------ MODULE Chunking ------------------------------
(***************************************************************************)
(* How a converted document is cut: by language (ingestion/chunkers.ts),   *)
(* by rows, by its headings (ingestion/heading-chunker.ts), with the map   *)
(* of its sections written to the database (ingestion/section-writer.ts).  *)
(*                                                                         *)
(* A text is a sequence of characters: "x" is no break, any other one ends *)
(* a break of its kind.  An offset is the number of characters before it.  *)
(* opts is [minSize, targetSize, maxSize, overlap].                        *)
(***************************************************************************)
EXTENDS Integers, Sequences, SequencesExt, FiniteSets, FiniteSetsExt

CONSTANT SLACK      \* 80 characters: how far a chunk may start from its ideal

ASSUME ChunkingAssumption == SLACK \in Nat

Opts(size, overlap) ==
    [minSize |-> size \div 2, targetSize |-> size, maxSize |-> (3 * size) \div 2, overlap |-> overlap]

Distance(p, q) == IF p < q THEN q - p ELSE p - q
Closest(S, target) ==
    CHOOSE p \in S : \A q \in S \ {p} : \/ Distance(p, target) < Distance(q, target)
                                        \/ (Distance(p, target) = Distance(q, target) /\ p < q)
(* collectMatches: the offsets after the breaks of these kinds in a window.*)
Breaks(text, from, to, kinds) == {i \in (from + 1)..to : text[i] \in kinds}
Anywhere == {"paragraph", "heading", "sentence", "clause", "word"}
Preference == <<{"paragraph"}, {"heading"}, {"sentence"}, {"clause"}, Anywhere>>
(* The break closest to the offset, of the first kinds that have one in    *)
(* the window; the offset itself if none has.                              *)
Nearest(text, from, to, preference, offset) ==
    LET found == {k \in DOMAIN preference : Breaks(text, from, to, preference[k]) # {}}
    IN IF found = {} THEN offset ELSE Closest(Breaks(text, from, to, preference[Min(found)]), offset)
AtOrBelow(a, b) == IF a < b THEN a ELSE b
AtOrAbove(a, b) == IF a < b THEN b ELSE a

FindBestBreakPoint(text, from, to, preferred) == Nearest(text, from, to, Preference, preferred)

FindOverlapStart(text, end, overlap) ==
    LET ideal == AtOrAbove(0, end - overlap)
        from == AtOrAbove(0, ideal - SLACK)
        to == AtOrBelow(Len(text), ideal + SLACK)
    IN Nearest(text, from, to, <<{"sentence"}, Anywhere>>, ideal)
NextStartUnclamped(text, end, overlap) == FindOverlapStart(text, end, overlap)     \* mutant
NextStart(text, end, overlap) == AtOrBelow(FindOverlapStart(text, end, overlap), end)

(* chunkBySemantic.  A run that does not advance would not end: it is cut  *)
(* off after as many rounds as there are characters, and left open.        *)
Chunk(from, to) == [from |-> from, to |-> to]
ChunkStep(text, opts, state) ==
    IF state.done THEN state
    ELSE IF Len(text) - state.at <= opts.maxSize
         THEN [state EXCEPT !.done = TRUE, !.chunks = Append(@, Chunk(state.at, Len(text)))]
         ELSE LET end == FindBestBreakPoint(text, state.at + opts.minSize,
                                            AtOrBelow(state.at + opts.maxSize, Len(text)),
                                            state.at + opts.targetSize)
              IN [at |-> NextStart(text, end, opts.overlap), done |-> FALSE,
                  chunks |-> Append(state.chunks, Chunk(state.at, end))]
ChunkBySemantic(text, opts) ==
    LET after[n \in 0..Len(text)] ==
            IF n = 0 THEN [at |-> 0, done |-> text = <<>>, chunks |-> <<>>]
            ELSE ChunkStep(text, opts, after[n - 1])
    IN after[Len(text)]

ChunkByCharacters(n, size, overlap) ==
    LET last == CHOOSE k \in 0..n : /\ k * (size - overlap) + size >= n
                                    /\ \A j \in 0..(k - 1) : j * (size - overlap) + size < n
    IN IF n = 0 THEN <<>>
       ELSE [k \in 1..(last + 1) |-> Chunk((k - 1) * (size - overlap),
                                           AtOrBelow((k - 1) * (size - overlap) + size, n))]

-----------------------------------------------------------------------------
(* chunkTabular, of one sheet: a line is "bar" or "text".  A chunk is the  *)
(* lines it carries and the rows it says it has.                           *)
TableStart(lines) ==
    IF \E i \in DOMAIN lines : lines[i] = "bar"
    THEN CHOOSE i \in DOMAIN lines : lines[i] = "bar" /\ \A j \in 1..(i - 1) : lines[j] # "bar"
    ELSE 0
DataLines(lines) ==
    LET after(i) == i > TableStart(lines) + 1 /\ lines[i] = "bar"
    IN SelectSeq([i \in DOMAIN lines |-> i], after)
Header(lines) == {TableStart(lines), TableStart(lines) + 1} \cap DOMAIN lines
TabularChunk(lines, rows, header, range) ==
    [lines |-> 1..(TableStart(lines) - 1) \cup ToSet(rows), header |-> header, range |-> range]
ChunkTabular(lines, rowsPerChunk, repeatHeaders) ==
    LET data == DataLines(lines)
        end(k) == AtOrBelow(k * rowsPerChunk, Len(data))
    IN CASE TableStart(lines) = 0 -> <<[lines |-> DOMAIN lines, header |-> {}, range |-> <<>>]>>
         [] TableStart(lines) # 0 /\ data = <<>> -> <<TabularChunk(lines, <<>>, Header(lines), <<0, 0>>)>>
         [] TableStart(lines) # 0 /\ data # <<>> ->
              [k \in 1..((Len(data) + rowsPerChunk - 1) \div rowsPerChunk) |->
                  TabularChunk(lines, SubSeq(data, (k - 1) * rowsPerChunk + 1, end(k)),
                               IF repeatHeaders THEN Header(lines) ELSE {},
                               <<(k - 1) * rowsPerChunk + 1, end(k)>>)]

-----------------------------------------------------------------------------
(* parseSections: a line is [level, name], of level 0 when it is no        *)
(* heading.  The stack holds the headings a line is under; a section is    *)
(* known by the names on it (the id is a hash of them).                    *)
PopOne(stack, level) ==     \* mutant: one heading is taken off, not all of the level and below
    IF stack # <<>> /\ Last(stack).level >= level THEN Front(stack) ELSE stack
Pop(stack, level) == SelectSeq(stack, LAMBDA h : h.level < level)
PathOf(stack) == [i \in DOMAIN stack |-> stack[i].name]
Preamble == <<"(preamble)">>
Section(stack, body) ==
    IF stack = <<>> THEN [path |-> Preamble, parent |-> <<>>, level |-> 0, body |-> body]
    ELSE [path |-> PathOf(stack), parent |-> PathOf(Front(stack)), level |-> Last(stack).level, body |-> body]
Flush(state) ==
    IF state.stack = <<>> /\ state.body = {} THEN state.out
    ELSE Append(state.out, Section(state.stack, state.body))
SectionStep(lines, state, i) ==
    IF lines[i].level = 0 THEN [state EXCEPT !.body = @ \cup {i}]
    ELSE [out |-> Flush(state), body |-> {},
          stack |-> Append(Pop(state.stack, lines[i].level), lines[i])]
ParseSections(lines) ==
    Flush(FoldLeft(LAMBDA state, i : SectionStep(lines, state, i),
                   [stack |-> <<>>, body |-> {}, out |-> <<>>], [i \in DOMAIN lines |-> i]))

(* chunkByHeadings: the sections with a body, each chunk with the identity *)
(* of its section; writeSections: the old rows of the document go, then    *)
(* all new ones are written, or none when two have one id (the primary     *)
(* key), and the file fails.                                               *)
HeadingChunks(lines) == SelectSeq(ParseSections(lines), LAMBDA s : s.body # {})
SectionIds(sections) == {sections[i].path : i \in DOMAIN sections}
WriteSections(map, sections) ==
    IF sections = <<>> THEN map
    ELSE IF Cardinality(SectionIds(sections)) = Len(sections) THEN SectionIds(sections) ELSE {}

-----------------------------------------------------------------------------
(* Cutting by language ends when a chunk is at least longer than what the  *)
(* next may go back; then no text is lost between two chunks, each goes    *)
(* further than the one before, none is larger than allowed or (but the    *)
(* last) smaller, and a word is cut only where no break was in reach.      *)
SemanticHolds(text, opts) ==
    LET run == ChunkBySemantic(text, opts)
        c == run.chunks
    IN text # <<>> /\ opts.minSize > opts.overlap + SLACK =>
        /\ run.done
        /\ c[1].from = 0 /\ Last(c).to = Len(text)
        /\ \A k \in DOMAIN c :
             /\ c[k].to - c[k].from <= opts.maxSize
             /\ k < Len(c) =>
                  /\ c[k].to - c[k].from >= opts.minSize
                  /\ c[k + 1].from <= c[k].to /\ c[k + 1].from > c[k].from /\ c[k + 1].to > c[k].to
                  /\ text[c[k].to] = "x" =>
                        Breaks(text, c[k].from + opts.minSize, c[k].from + opts.maxSize, Anywhere) = {}

CharactersHold(n, size, overlap) ==
    LET c == ChunkByCharacters(n, size, overlap)
    IN overlap < size /\ n > 0 =>
        /\ c[1].from = 0 /\ Last(c).to = n
        /\ \A k \in 1..(Len(c) - 1) : c[k + 1].from = c[k].to - overlap /\ c[k].to < n

(* A row of a sheet is in exactly one chunk, where the chunk says it is;   *)
(* what is not a row is lost only below the head of a table, or is the     *)
(* head itself, of a table with rows, where heads are not repeated.        *)
TabularHolds(lines, rowsPerChunk, repeatHeaders) ==
    LET c == ChunkTabular(lines, rowsPerChunk, repeatHeaders)
        data == DataLines(lines)
        start == TableStart(lines)
    IN /\ start # 0 => \A r \in DOMAIN data : \E k \in DOMAIN c :
             /\ data[r] \in c[k].lines /\ c[k].range[1] <= r /\ r <= c[k].range[2]
             /\ \A other \in DOMAIN c \ {k} : data[r] \notin c[other].lines
       /\ \A i \in DOMAIN lines :
             (\A k \in DOMAIN c : i \notin c[k].lines \cup c[k].header) =>
                 /\ start # 0
                 /\ \/ i > start + 1 /\ lines[i] = "text"
                    \/ i \in Header(lines) /\ ~repeatHeaders /\ data # <<>>

(* Every line of text is in one section; a section hangs under the nearest *)
(* heading above it of a higher rank, which has a section of its own; the  *)
(* chunks under one id are of one section, and the map is in step with     *)
(* them, unless two headings read the same under the same headings.        *)
HeadingsHold(lines, map) ==
    LET sections == ParseSections(lines)
        headings == SelectSeq([i \in DOMAIN lines |-> i], LAMBDA i : lines[i].level > 0)
        above(i) == {j \in DOMAIN lines : j < i /\ lines[j].level > 0 /\ lines[j].level < lines[i].level}
        first == Len(sections) - Len(headings)
    IN /\ \A i \in DOMAIN lines : lines[i].level = 0 =>
             Cardinality({k \in DOMAIN sections : i \in sections[k].body}) = 1
       /\ \A h \in DOMAIN headings :
             LET i == headings[h]
                 s == sections[first + h]
             IN /\ s.level = lines[i].level /\ Last(s.path) = lines[i].name
                /\ (s.parent = <<>>) <=> (above(i) = {})
                /\ above(i) # {} =>
                     /\ \E p \in DOMAIN sections : sections[p].path = s.parent
                     /\ Last(s.parent) = lines[CHOOSE j \in above(i) : \A k \in above(i) : k <= j].name
       /\ LET repeated == \E j, k \in DOMAIN sections : j # k /\ sections[j].path = sections[k].path
          IN /\ ~repeated /\ sections # <<>> =>
                   /\ WriteSections(map, sections) = SectionIds(sections)
                   /\ SectionIds(HeadingChunks(lines)) \subseteq WriteSections(map, sections)
                   /\ \A s \in ToSet(sections) : s.parent = <<>> \/ s.parent \in WriteSections(map, sections)
             /\ repeated => WriteSections(map, sections) = {}
=============================================================================
