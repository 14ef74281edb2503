------------------------------ MODULE MailMime ------------------------------
(***************************************************************************)
(* What ARM/MailClient/MailViewer makes of a mail before it shows it:      *)
(* ParseMailBody takes a multipart body to pieces, and unmime_header       *)
(* decodes the encoded words of a header or of the name of an attachment.  *)
(*                                                                         *)
(* A body is a sequence of lines.  A line that names a boundary is the     *)
(* header that declares it, a delimiter or the end; the code looks for the *)
(* name alone, anywhere in the mail, so a name that begins another one is  *)
(* found in it.  Texts are numbers; transfer encodings, character sets,    *)
(* HTML and the "--" in front of the next delimiter, which the code leaves *)
(* at the end of a part, are left out.  A header is a sequence of words,   *)
(* spaces and other text.                                                  *)
(***************************************************************************)
EXTENDS Integers, Sequences, FiniteSets, SequencesExt

CONSTANTS
  Bodies,    \* the multipart mails: trees
  Begins,    \* <<x, y>>: the name of boundary y begins with that of x
  MaxHeader  \* bound: length of a header

\* A boundary is not used again in its mail, and the texts of a mail are numbered.
IsInner(t) == "leaves" \in DOMAIN t
TextsIn(t) == IF IsInner(t) THEN {t.leaves[j].text : j \in DOMAIN t.leaves} ELSE {t.text}
IsTree(m) ==
  /\ m.parts \in Seq(Range(m.parts))
  /\ \A i \in DOMAIN m.parts :
       LET t == m.parts[i]
       IN  IF IsInner(t)
           THEN /\ t.leaves \in Seq(Range(t.leaves)) /\ t.leaves # <<>>
                /\ \A j \in DOMAIN t.leaves : t.leaves[j].type \in {"text", "app"}
                /\ \A j, k \in DOMAIN t.leaves :
                     j # k => t.leaves[j].text # t.leaves[k].text
                /\ t.b # m.b
           ELSE t.type \in {"text", "app"}
  /\ \A i, j \in DOMAIN m.parts :
       i # j => /\ TextsIn(m.parts[i]) \cap TextsIn(m.parts[j]) = {}
                /\ IsInner(m.parts[i]) /\ IsInner(m.parts[j])
                     => m.parts[i].b # m.parts[j].b

ASSUME BodiesAssumption == Bodies # {} /\ \A m \in Bodies : IsTree(m)
ASSUME HeaderAssumption == MaxHeader \in Nat

VARIABLES
  \* the mail
  body,   \* its tree
  eml,    \* its lines
  head,   \* a header
  \* ParseMailBody
  parts,  \* the list of MAIL_PART, from top on
  bot,    \* the part that is being looked at
  p,      \* the line with the boundary in front of what comes next, 0 for NULL
  off,    \* a search has found nothing and the code goes on behind its NULL
  \* unmime_header
  at,     \* what of head has been read
  out     \* outbuf

parser == <<parts, bot, p, off>>
words  == <<at, out>>
mail   == <<body, eml, head>>
mimeVars == <<mail, parser, words>>

-----------------------------------------------------------------------------
(* Mails.                                                                  *)

\* A line, and the boundary or the text in it.
Line(kind, n) == [kind |-> kind, n |-> n]
Empty == Line("empty", 0)

\* A leaf of the tree: [type, headed, text], with a header line or none; the text
\* k stands in one paragraph or in two.
LeafLines(t) ==
  (IF t.headed THEN <<Line(t.type, 0)>> ELSE <<>>) \o <<Empty>>
  \o (IF t.long THEN <<Line("said", t.text), Empty, Line("said", t.text)>>
                ELSE <<Line("said", t.text)>>)

\* A multipart: every part behind a delimiter, and the end.
Multi(b, lines) == FlattenSeq([i \in DOMAIN lines |-> <<Line("delim", b)>> \o lines[i]])
                   \o <<Line("end", b)>>

\* A multipart inside of a mail declares its boundary, as the last line of its
\* header or not.
InnerLines(m) ==
  <<Line("multipart", m.b)>> \o (IF m.more THEN <<Line("header", 0)>> ELSE <<>>)
  \o <<Empty>> \o Multi(m.b, [i \in DOMAIN m.leaves |-> LeafLines(m.leaves[i])])

PartLines(t) == IF IsInner(t) THEN InnerLines(t) ELSE LeafLines(t)

MailLines(m) == Multi(m.b, [i \in DOMAIN m.parts |-> PartLines(m.parts[i])])
                \o (IF m.after THEN <<Line("said", 0)>> ELSE <<>>)

Inner  == {t \in Range(body.parts) : IsInner(t)}
Leaves == (Range(body.parts) \ Inner) \cup UNION {Range(m.leaves) : m \in Inner}

-----------------------------------------------------------------------------
(* ParseMailBody.                                                          *)

\* strstr_nocase for a boundary from line l on: 0 for none.
First(S) == IF S = {} THEN 0 ELSE CHOOSE l \in S : \A k \in S : l <= k
Names(line, b) == /\ line.kind \in {"delim", "end", "multipart"}
                  /\ line.n = b \/ <<b, line.n>> \in Begins
Boundary(b, l) == First({k \in l..Len(eml) : Names(eml[k], b)})

\* The empty line is taken for the first line of the text.
TextEmpty(l) == First({k \in (l + 1)..Len(eml) : eml[k] = Empty})

\* strstr for an empty line, behind line l at the earliest: the line after it, 0 for none.
Text(l) == First({k \in (l + 2)..(Len(eml) + 1) : eml[k - 1] = Empty})

\* get_from_multipartheader: the type that the lines l..k declare, the first line of
\* the text, k, included.
Type(l, k) ==
  LET c == First({i \in (l..k) \cap DOMAIN eml :
                    eml[i].kind \in {"text", "app", "multipart"}})
  IN  IF c = 0 THEN Line("text", 0) ELSE eml[c]

Part(type, first, last) ==
  [kind |-> type.kind, b |-> type.n, first |-> first, last |-> last]

\* A multipart is looked for in the whole mail.
OpensMultipart ==
  /\ ~off /\ bot <= Len(parts) /\ p = 0 /\ parts[bot].kind = "multipart"
  /\ p' = Boundary(parts[bot].b, 1)
  /\ IF p' = 0 THEN bot' = bot + 1 ELSE UNCHANGED bot
  /\ UNCHANGED <<mail, parts, off, words>>

AtEnd == eml[p] = Line("end", parts[bot].b)

ClosesMultipart ==
  /\ ~off /\ p # 0 /\ AtEnd
  /\ p' = 0 /\ bot' = bot + 1
  /\ UNCHANGED <<mail, parts, off, words>>

\* What stands behind p, as far as the next boundary.
TakesPart ==
  /\ ~off /\ p # 0 /\ ~AtEnd
  /\ LET text == Text(p + 1)
         next == Boundary(parts[bot].b, p + 1)
     IN  IF text = 0 \/ next = 0
         THEN off' = TRUE /\ UNCHANGED <<parts, p>>
         ELSE /\ parts' = Append(parts, Part(Type(p + 1, text), text, next - 1))
              /\ p' = next /\ UNCHANGED off
  /\ UNCHANGED <<mail, bot, words>>

\* A text or the name of an attachment goes into the view.  A text of less than no
\* length is copied, unless it is encoded.
Negative(q) == q.last < q.first - 1

ShowsPart ==
  /\ ~off /\ bot <= Len(parts) /\ parts[bot].kind # "multipart"
  /\ bot' = bot + 1
  /\ off' \in IF parts[bot].kind = "text" /\ Negative(parts[bot]) THEN BOOLEAN
             ELSE {FALSE}
  /\ UNCHANGED <<mail, parts, p, words>>

ParseMailBody == OpensMultipart \/ ClosesMultipart \/ TakesPart \/ ShowsPart

-----------------------------------------------------------------------------
(* unmime_header.  A word is "word", or "odd" if its encoding is neither B  *)
(* nor Q; "=?" with no end does not happen here.                            *)

Words == {"word", "odd"}
Token == Words \cup {"space", "text"}

NextWord == First({k \in (at + 1)..Len(head) : head[k] \in Words})
Gap == SubSeq(head, at + 1, NextWord - 1)

\* Nothing between two words.
KeptNever == IF at = 0 THEN Gap ELSE <<>>

\* What is in front of a word: all of it at the beginning, and later on all of it if
\* there is a space in it, and nothing otherwise.
Kept == IF at = 0 \/ "space" \in Range(Gap) THEN Gap ELSE <<>>

\* A word that cannot be decoded is copied, with what is in front of it.
DecodesWord ==
  /\ at < Len(head) /\ NextWord # 0
  /\ out' = out \o (IF head[NextWord] = "odd" THEN Gap ELSE Kept)
                \o <<IF head[NextWord] = "odd" THEN "odd" ELSE "decoded">>
  /\ at' = NextWord
  /\ UNCHANGED <<mail, parser>>

CopiesRest ==
  /\ at < Len(head) /\ NextWord = 0
  /\ out' = out \o SubSeq(head, at + 1, Len(head)) /\ at' = Len(head)
  /\ UNCHANGED <<mail, parser>>

unmime_header == DecodesWord \/ CopiesRest

-----------------------------------------------------------------------------
\* Every header, and every mail with an empty one.
MimeInit ==
  /\ \/ body \in Bodies /\ head = <<>>
     \/ /\ body = CHOOSE m \in Bodies : TRUE
        /\ head \in UNION {[1..n -> Token] : n \in 1..MaxHeader}
  /\ eml = MailLines(body)
  /\ parts = <<Part(Line("multipart", body.b), 1, Len(eml))>>
  /\ bot = 1 /\ p = 0 /\ off = FALSE
  /\ at = 0 /\ out = <<>>

\* The header is shown first.
MimeNext == unmime_header \/ (at = Len(head) /\ ParseMailBody)

MimeSpec == MimeInit /\ [][MimeNext]_mimeVars

-----------------------------------------------------------------------------
\* A mail that the code can read: every part has a header, and no boundary begins with
\* another.
Bounds == {body.b} \cup {m.b : m \in Inner}
Usual == /\ \A t \in Leaves : t.headed
         /\ Begins \cap (Bounds \X Bounds) = {}

\* A boundary is declared in the last line of a header, and the first part behind it is
\* a text.
StopsAt(m) == ~m.more /\ m.leaves[1].type = "text"

\* The text of a part.
TextOf(q) == SubSeq(eml, q.first, q.last)
IsLeaf(q, t) == q.kind = t.type /\ TextOf(q) = SubSeq(LeafLines(t), 3, Len(LeafLines(t)))

\* ParseMailBody finds every part of a mail once, with its type and the whole of its
\* text, whatever is nested in what (main.c:1791-1865), and besides one part for each
\* inner multipart, from the line that declares it.  Where that is the last line of a
\* header, the search for the text behind it goes on behind the header of the first
\* leaf: the part has that leaf's type and less than no length (main.c:1806-1819), and
\* nothing but such a text can stop the program (main.c:1727-1729).
LeavesShown ==
  Usual =>
    /\ off => \E m \in Inner : StopsAt(m)
    /\ bot > Len(parts) =>
         /\ \A t \in Leaves : Cardinality({i \in DOMAIN parts : IsLeaf(parts[i], t)}) = 1
         /\ Len(parts) = 1 + Cardinality(Leaves) + 2 * Cardinality(Inner)

\* The header with its words decoded: spaces between two words are ignored, the rest
\* is kept (the comment at decode.cpp:623).
IsGapSpace(k) ==
  /\ head[k] = "space"
  /\ \E i \in 1..(k - 1), j \in (k + 1)..Len(head) :
       /\ {head[i], head[j]} \subseteq Words
       /\ \A l \in (i + 1)..(j - 1) : head[l] = "space"
Decoded == [i \in DOMAIN head |-> IF head[i] = "word" THEN "decoded" ELSE head[i]]

\* unmime_header decodes every word and keeps the rest (decode.cpp:545-683), where
\* neither spaces alone nor text without a space stands between two words.
Unmimed ==
  at = Len(head) =>
    \/ out = Decoded
    \/ \E k \in DOMAIN head : IsGapSpace(k)
    \/ \E i \in 2..(Len(head) - 1) : /\ head[i] = "text"
                                     /\ head[i - 1] \in Words \cup {"text"}
                                     /\ head[i + 1] \in Words \cup {"text"}
=============================================================================
