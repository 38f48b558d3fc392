-------------------------------- MODULE Chunker --------------------------------
(***************************************************************************)
(* knowledge-service: how a document's text is cut into chunks.            *)
(*                                                                         *)
(* A text is a sequence of lines: blank ones, Markdown headings, and lines *)
(* of so many bytes.  The bytes of these are numbered through the text, so *)
(* that a chunk shows what it took from where.  Headings end a section,    *)
(* blank lines a paragraph.  Paragraphs are put together up to TargetChars *)
(* and cut at MaxChars; both count bytes, as len does.                     *)
(*                                                                         *)
(* Left out: spaces within lines, the characters a byte belongs to, and    *)
(* the hash of a chunk.                                                    *)
(***************************************************************************)
EXTENDS Integers, Sequences, FiniteSets

CONSTANTS
  TargetChars,
  MaxChars,
  LineSizes,    \* bytes in a line
  MaxLines      \* bound: lines of a text

ASSUME ChunkerConstants ==
  /\ TargetChars \in Int
  /\ MaxChars \in Int
  /\ LineSizes \subseteq Nat \ {0}
  /\ MaxLines \in Nat

VARIABLE text

chunkerVars == text

Blank == [kind |-> "blank", size |-> 0]
Heading == [kind |-> "heading", size |-> 0]
TextLine == [kind : {"text"}, size : LineSizes] \cup {Blank, Heading}

ChunkerTypeOK == text \in Seq(TextLine) /\ Len(text) <= MaxLines

NewLine == 0

\* limits
MaxLimit == IF MaxChars <= 0 THEN 1200 ELSE MaxChars
TargetLimit ==
  LET target == IF TargetChars <= 0 THEN 900 ELSE TargetChars
  IN IF target > MaxLimit THEN MaxLimit ELSE target

--------------------------------------------------------------------------------
(* Lines, sections and paragraphs.                                           *)

\* The lines with the numbers of their bytes; title tells headings apart.
Numbered(lines) ==
  LET before[i \in 0 .. Len(lines)] ==
        IF i = 0 THEN 0 ELSE before[i - 1] + lines[i].size
  IN [i \in 1 .. Len(lines) |->
        [kind |-> lines[i].kind, title |-> i,
         bytes |-> [b \in 1 .. lines[i].size |-> before[i - 1] + b]]]

TrimSpace(value) ==
  LET kept == {i \in 1 .. Len(value) : value[i] # NewLine}
      first == CHOOSE i \in kept : \A j \in kept : i <= j
      last == CHOOSE i \in kept : \A j \in kept : i >= j
  IN IF kept = {} THEN <<>> ELSE SubSeq(value, first, last)

EndsParagraph(value) ==
  LET n == Len(value) IN n >= 2 /\ value[n] = NewLine /\ value[n - 1] = NewLine

\* One more line, joined by "\n".  Three and more of these in a row become two.
Joined(body, line) ==
  IF line.bytes = <<>> /\ EndsParagraph(body) THEN body
  ELSE body \o line.bytes \o <<NewLine>>

\* A section before the first heading has the file's name for a title.
FileTitle == 0

\* Those without text are dropped.
Flush(done) ==
  LET body == TrimSpace(done.current)
  IN IF body = <<>> THEN done.sections
     ELSE Append(done.sections, [title |-> done.title, body |-> body])

SectionStep(done, line) ==
  IF line.kind = "heading"
  THEN [sections |-> Flush(done), title |-> line.title, current |-> <<>>]
  ELSE [done EXCEPT !.current = Joined(@, line)]

SplitSections(lines) ==
  LET done[i \in 0 .. Len(lines)] ==
        IF i = 0 THEN [sections |-> <<>>, title |-> FileTitle, current |-> <<>>]
        ELSE SectionStep(done[i - 1], lines[i])
  IN Flush(done[Len(lines)])

\* strings.Split at "\n\n".
ParagraphStep(done, b) ==
  IF b = NewLine /\ done.current # <<>> /\ done.current[Len(done.current)] = NewLine
  THEN [paragraphs |-> Append(done.paragraphs, TrimSpace(done.current)), current |-> <<>>]
  ELSE [done EXCEPT !.current = Append(@, b)]

Paragraphs(body) ==
  LET done[i \in 0 .. Len(body)] ==
        IF i = 0 THEN [paragraphs |-> <<>>, current |-> <<>>]
        ELSE ParagraphStep(done[i - 1], body[i])
      end == done[Len(body)]
  IN Append(end.paragraphs, TrimSpace(end.current))

--------------------------------------------------------------------------------
(* Chunks.                                                                   *)

CutStep(done) ==
  IF Len(done.rest) <= MaxLimit THEN done
  ELSE [parts |-> Append(done.parts, SubSeq(done.rest, 1, MaxLimit)),
        rest |-> TrimSpace(SubSeq(done.rest, MaxLimit + 1, Len(done.rest)))]

\* A value of n bytes is cut less than n times.
HardSplit(value) ==
  LET done[i \in 0 .. Len(value)] ==
        IF i = 0 THEN [parts |-> <<>>, rest |-> value] ELSE CutStep(done[i - 1])
      end == done[Len(value)]
  IN IF end.rest = <<>> THEN end.parts ELSE Append(end.parts, end.rest)

\* What has been put together so far is not written before a long paragraph ...
BeforeLongBug(done) == done

\* flush, and with it the order of the paragraphs.
BeforeLong(done) ==
  [chunks |-> IF done.current = <<>> THEN done.chunks ELSE Append(done.chunks, done.current),
   current |-> <<>>]

ChunkStep(done, paragraph) ==
  IF paragraph = <<>> THEN done
  ELSE IF Len(paragraph) > MaxLimit
  THEN [BeforeLong(done) EXCEPT !.chunks = @ \o HardSplit(paragraph)]
  ELSE IF done.current = <<>> THEN [done EXCEPT !.current = paragraph]
  ELSE LET candidate == done.current \o <<NewLine, NewLine>> \o paragraph
       IN IF Len(candidate) <= TargetLimit THEN [done EXCEPT !.current = candidate]
          ELSE [chunks |-> Append(done.chunks, done.current), current |-> paragraph]

ChunkSection(body) ==
  LET paragraphs == Paragraphs(body)
      done[i \in 0 .. Len(paragraphs)] ==
        IF i = 0 THEN [chunks |-> <<>>, current |-> <<>>]
        ELSE ChunkStep(done[i - 1], paragraphs[i])
      end == done[Len(paragraphs)]
  IN IF end.current = <<>> THEN end.chunks ELSE Append(end.chunks, end.current)

Drafted(drafts, title, body) ==
  LET content == TrimSpace(body)
  IN IF content = <<>> THEN drafts ELSE Append(drafts, [title |-> title, content |-> content])

Drafts(section) ==
  LET bodies == ChunkSection(section.body)
      done[i \in 0 .. Len(bodies)] ==
        IF i = 0 THEN <<>> ELSE Drafted(done[i - 1], section.title, bodies[i])
  IN done[Len(bodies)]

\* Without a chunk the document is refused as empty.
Split(lines) ==
  LET sections == SplitSections(Numbered(lines))
      done[i \in 0 .. Len(sections)] ==
        IF i = 0 THEN <<>> ELSE done[i - 1] \o Drafts(sections[i])
  IN done[Len(sections)]

--------------------------------------------------------------------------------
(* A text is any sequence of lines.                                          *)

ChunkerInit == text = <<>>

ChunkerNext == Len(text) < MaxLines /\ \E line \in TextLine : text' = Append(text, line)

ChunkerSpec == ChunkerInit /\ [][ChunkerNext]_chunkerVars

--------------------------------------------------------------------------------
(* Properties                                                                *)

Bytes(value) == {value[k] : k \in DOMAIN value} \ {NewLine}

\* Each byte once and after the ones before it.
Rising(value) ==
  \A k, m \in DOMAIN value :
    k < m /\ value[k] # NewLine /\ value[m] # NewLine => value[k] < value[m]

\* The section a line is in: its last heading.
TitleAt(lines, i) ==
  LET above == {h \in 1 .. i : lines[h].kind = "heading"}
  IN IF above = {} THEN FileTitle ELSE CHOOSE h \in above : \A g \in above : h >= g

LineOf(lines, b) == CHOOSE i \in DOMAIN lines : b \in Bytes(lines[i].bytes)

TitleOf(lines, b) == TitleAt(lines, LineOf(lines, b))

\* Retrieval can find all of a text and cite it rightly: its chunks hold every byte once
\* and in order, whatever paragraphs are put together or cut; none is longer than
\* MaxChars, and each stays within the section whose title it carries.
ChunksKeepTheText ==
  LET lines == Numbered(text)
      drafts == Split(text)
  IN /\ UNION {Bytes(drafts[i].content) : i \in DOMAIN drafts} =
          UNION {Bytes(lines[i].bytes) : i \in DOMAIN lines}
     /\ \A i \in DOMAIN drafts :
          /\ Rising(drafts[i].content)
          /\ Len(drafts[i].content) <= MaxLimit
          /\ \A b \in Bytes(drafts[i].content) : TitleOf(lines, b) = drafts[i].title
     /\ \A i, j \in DOMAIN drafts :
          i < j => \A a \in Bytes(drafts[i].content), b \in Bytes(drafts[j].content) : a < b

================================================================================
