----------------------------- MODULE PlainText -----------------------------
(***************************************************************************)
(* HTMLToText: the plain text of an HTML mail, made in one pass over the   *)
(* tokens of the document, without a tree.  Two counters and a stack of    *)
(* links stand for the elements that are open; what they are compared with *)
(* is the real nesting of the document, which only this module knows.      *)
(*                                                                         *)
(* The elements that matter are told apart: those without an end tag,      *)
(* those that hold nothing for a reader (style, script, head, title),      *)
(* links, and all others.  A self-closing tag (<p/>) is one without an end *)
(* tag, as it is for the code; an end tag that follows has no element then.*)
(* Newlines, and the text itself, are left out.                            *)
(***************************************************************************)
EXTENDS Integers, Sequences, FiniteSets

CONSTANTS MaxDepth   \* bound on the nesting of a document

ASSUME DepthAssumption == MaxDepth \in Nat

Kinds == {"void", "skip", "link", "other"}

VARIABLES
  \* the document
  open,        \* the elements that are open: what each is, whether its style
               \* says display:none
  miscounted,  \* the counters missed an end tag, or counted one too many
  \* HTMLToText
  skip,        \* skipTags that are open
  hidden,      \* elements that are open within one that is hidden
  links        \* for each link whose end is awaited, its depth in the document

textVars == <<open, miscounted, skip, hidden, links>>

Element == [kind : Kinds \ {"void"}, hides : BOOLEAN]

TextTypeOK ==
  /\ open \in Seq(Element) /\ Len(open) <= MaxDepth
  /\ miscounted \in BOOLEAN
  /\ skip \in Nat /\ hidden \in Nat
  /\ links \in Seq(1..MaxDepth)

TextInit ==
  /\ open = <<>> /\ miscounted = FALSE
  /\ skip = 0 /\ hidden = 0 /\ links = <<>>

-----------------------------------------------------------------------------
Innermost == open[Len(open)]
Outer     == SubSeq(open, 1, Len(open) - 1)
Holds(kind) == \E i \in DOMAIN open : open[i].kind = kind

\* A link holds no link, and only head may hold another of the skipTags.
MayHold(kind) ==
  /\ kind = "link" => ~Holds("link") /\ ~Holds("skip")
  /\ kind = "other" => ~Holds("skip")

\* Seeded fault: a tag without an end tag counts for the depth.
OpensAlways(kind) == TRUE

Opens(kind) == kind # "void"

\* A start tag.
StartTag(kind, hides) ==
  /\ MayHold(kind)
  /\ IF kind = "void"
     THEN UNCHANGED open
     ELSE /\ Len(open) < MaxDepth
          /\ open' = Append(open, [kind |-> kind, hides |-> hides])
  /\ IF hidden > 0
     THEN /\ hidden' = IF Opens(kind) THEN hidden + 1 ELSE hidden
          /\ UNCHANGED <<skip, links>>
     ELSE IF Opens(kind) /\ hides
     THEN hidden' = 1 /\ UNCHANGED <<skip, links>>
     ELSE /\ skip'  = IF kind = "skip" THEN skip + 1 ELSE skip
          /\ links' = IF kind = "link" THEN Append(links, Len(open')) ELSE links
          /\ UNCHANGED hidden
  /\ UNCHANGED miscounted

\* What an end tag does to the counters and the stack.
CountEnd(kind) ==
  IF hidden > 0
  THEN hidden' = hidden - 1 /\ UNCHANGED <<skip, links>>
  ELSE /\ skip'  = IF kind = "skip" /\ skip > 0 THEN skip - 1 ELSE skip
       /\ links' = IF kind = "link" /\ links # <<>>
                   THEN SubSeq(links, 1, Len(links) - 1)
                   ELSE links
       /\ UNCHANGED hidden

\* The end tag of the innermost element.
EndTag ==
  /\ open # <<>>
  /\ open' = Outer
  /\ CountEnd(Innermost.kind)
  /\ UNCHANGED miscounted

\* An end tag whose element is not open, </br> for one: a browser passes it
\* over, the counters do not.
StrayEnd(kind) ==
  /\ kind = "link" => ~Holds("link")
  /\ CountEnd(kind)
  /\ miscounted' = (miscounted \/ hidden > 0 \/ (kind = "skip" /\ skip > 0))
  /\ UNCHANGED open

\* An element ends without its end tag: HTML allows it for p, li, td, head and
\* others, but not for links, style, script and title.
OmitEnd ==
  /\ open # <<>> /\ Innermost.kind # "link"
  /\ open' = Outer
  /\ miscounted' = (miscounted \/ Innermost.hides \/ Innermost.kind = "skip"
                   \/ \E i \in DOMAIN Outer : Outer[i].hides)
  /\ UNCHANGED <<skip, hidden, links>>

\* Once the counters went wrong the document is followed no further.
TextNext ==
  /\ ~miscounted
  /\ \/ \E kind \in Kinds, hides \in BOOLEAN : StartTag(kind, hides)
     \/ EndTag \/ OmitEnd
     \/ \E kind \in Kinds : StrayEnd(kind)

-----------------------------------------------------------------------------
\* What a browser would not show.
Invisible(i) == open[i].hides \/ open[i].kind = "skip"

\* The links are awaited in the order in which they opened.
AwaitsLinks ==
  /\ {links[n] : n \in DOMAIN links} = {i \in DOMAIN open : open[i].kind = "link"}
  /\ \A m, n \in DOMAIN links : m < n => links[m] < links[n]

\* Text is taken just where a reader of the HTML would see it, and the link
\* that ends is the one whose address is written behind it, as long as no end
\* tag is left out, and none too many, within what is hidden or skipped
\* (html2text.go:26-27, 45-46).
Tracks ==
  ~miscounted =>
    /\ skip = 0 /\ hidden = 0 <=> \A i \in DOMAIN open : ~Invisible(i)
    /\ hidden = 0 => AwaitsLinks
=============================================================================
