--------------------------------- MODULE Bodies ---------------------------------
(***************************************************************************)
(* domain/text.rs: the text a body is turned into, and the HTML that a     *)
(* text is turned into when it is written.                                 *)
(*                                                                         *)
(* A text is a sequence of tokens: characters, names of entities with      *)
(* their semicolon, which an ampersand turns into a character, and tags,   *)
(* which begin with "<" and end with ">". No other token holds more than   *)
(* one character of markup, and none but a tag spells the name of one.     *)
(***************************************************************************)
EXTENDS Naturals, Sequences, SequencesExt, FiniteSetsExt

CONSTANTS
  NoteTokens,  \* what a user may write in a body
  PageTokens,  \* what a body that another client wrote may hold
  MaxTokens    \* the longest of either

Breaks  == {"<br>", "</p>", "<tr>"}
Closing == {"</p>"}
Cells   == {"<td>"}
Tags    == Breaks \cup Cells \cup {"<b>", "<script>", "</script>", "<style>", "</style>"}

ASSUME NoteAssumption == NoteTokens \cap Tags = {}

VARIABLES body, source  \* the tokens, and who writes them: "note" or "page"

bodyVars == <<body, source>>

Entity  == [name \in {"amp", "lt", "gt", "quot"} |->
              CASE name = "amp" -> "&" [] name = "lt" -> "<" [] name = "gt" -> ">" [] OTHER -> "quote"]
Newline == "newline"
Space   == " "

OpenTag(element)  == IF element = "script" THEN "<script>" ELSE "<style>"
CloseTag(element) == IF element = "script" THEN "</script>" ELSE "</style>"

--------------------------------------------------------------------------------
\* collapse_whitespace: a run of blanks is one, a newline if it holds one,
\* and none at either end. What is out, and pending, after one more character.
PutChar(acc, c) ==
  IF c = Newline THEN [acc EXCEPT !.pending = <<Newline>>]
  ELSE IF c = Space THEN [acc EXCEPT !.pending = IF @ = <<Newline>> THEN @ ELSE <<Space>>]
  ELSE [out     |-> acc.out \o (IF acc.out = <<>> THEN <<>> ELSE acc.pending) \o <<c>>,
        pending |-> <<>>]

CollapseWhitespace(text) ==
  LET after[i \in 0 .. Len(text)] ==
        IF i = 0 THEN [out |-> <<>>, pending |-> <<>>] ELSE PutChar(after[i - 1], text[i])
  IN  after[Len(text)].out

\* Where text goes on behind an element that opens at i.
Behind(html, i, element) ==
  LET closes == {j \in i .. Len(html) : html[j] = CloseTag(element)}
  IN  IF i > Len(html) \/ (i <= Len(html) /\ html[i] # OpenTag(element)) THEN i
      ELSE IF closes = {} THEN Len(html) + 1 ELSE Min(closes) + 1

\* Behind the first ">" at or after i.
BehindTag(html, i) ==
  LET ends == {j \in i .. Len(html) : html[j] \in Tags \cup {">"}}
  IN  IF ends = {} THEN Len(html) + 1 ELSE Min(ends) + 1

\* What the tag at k leaves. A "<" by itself opens a tag as well, with the
\* name of one that comes right behind it, which is then never a closing one.
Spacing(html, k) ==
  LET IsOf(tags) == \/ html[k] \in tags
                    \/ \E j \in k + 1 .. Len(html) : /\ html[j] \in tags \ Closing
                                                    /\ \A i \in k .. j - 1 : html[i] = "<"
  IN  IF IsOf(Breaks) THEN <<Newline>> ELSE IF IsOf(Cells) THEN <<Space>> ELSE <<>>

\* The scan from a place i on, rest being the one from each later place.
\* What follows a script or style element is read as a tag, whatever it is:
\* the inner `continue` ends a turn of the inner loop only.
Scan(html, rest, i) ==
  IF i > Len(html) THEN <<>>
  ELSE IF html[i] \in Tags \cup {"<"} THEN
    LET k == Behind(html, Behind(html, i, "script"), "style")
    IN  IF k > Len(html) THEN <<>> ELSE Spacing(html, k) \o rest[BehindTag(html, k)]
  ELSE IF html[i] = "&" /\ i < Len(html) /\ html[i + 1] \in DOMAIN Entity
       THEN <<Entity[html[i + 1]]>> \o rest[i + 2]
  ELSE <<html[i]>> \o rest[i + 1]

StripTags(html) ==
  LET from[i \in 1 .. Len(html) + 1] == Scan(html, from, i)
  IN  from[1]

HtmlToText(html) == CollapseWhitespace(StripTags(html))

\* Wrong: an ampersand is taken for the beginning of an entity already.
EscapedMarkup(c) ==
  CASE c = "<"     -> <<"&", "lt">>
    [] c = ">"     -> <<"&", "gt">>
    [] c = Newline -> <<"<br>">>
    [] OTHER       -> <<c>>

EscapedChar(c) ==
  CASE c = "&"     -> <<"&", "amp">>
    [] c = "<"     -> <<"&", "lt">>
    [] c = ">"     -> <<"&", "gt">>
    [] c = "quote" -> <<"&", "quot">>
    [] c = Newline -> <<"<br>">>
    [] OTHER       -> <<c>>

EscapeHtml(text) == FlattenSeq([i \in DOMAIN text |-> EscapedChar(text[i])])

--------------------------------------------------------------------------------
WriteNote == /\ body = <<>> \/ source = "note"
             /\ Len(body) < MaxTokens
             /\ \E t \in NoteTokens : body' = Append(body, t)
             /\ source' = "note"

WritePage == /\ body = <<>> \/ source = "page"
             /\ Len(body) < MaxTokens
             /\ \E t \in PageTokens : body' = Append(body, t)
             /\ source' = "page"

BodyInit == body = <<>> /\ source = "note"
BodyNext == WriteNote \/ WritePage
BodySpec == BodyInit /\ [][BodyNext]_bodyVars

--------------------------------------------------------------------------------
(***************************************************************************)
(* What create and update write in a body is what get and search read back *)
(* from it, but for its blanks: text that looks like a tag or an entity    *)
(* comes back as it was written.                                           *)
(***************************************************************************)
NotesComeBack == source = "note" => HtmlToText(EscapeHtml(body)) = CollapseWhitespace(body)

\* What is kept of a body, in HTML.
Stored == IF source = "note" THEN EscapeHtml(body) ELSE body

(***************************************************************************)
(* body_text and body_value: a client that writes back the text it was     *)
(* shown of an HTML body, whoever wrote that, changes nothing of what it   *)
(* will be shown; nothing is decoded or escaped once too often.            *)
(***************************************************************************)
WritingBackChangesNothing ==
  LET shown == HtmlToText(Stored) IN HtmlToText(EscapeHtml(shown)) = shown

(***************************************************************************)
(* text.rs: "Drop `<script>`/`<style>` spans; ... strip tags". The span    *)
(* goes, and what follows it is read as if it had not been there.          *)
(***************************************************************************)
OnlySpansAreDropped ==
  \A element \in {"script", "style"}, i \in DOMAIN body :
    /\ source = "page"
    /\ body[1] = OpenTag(element)
    /\ body[i] = CloseTag(element)
    /\ \A j \in 1 .. i - 1 : body[j] # CloseTag(element)
    => HtmlToText(body) = HtmlToText(SubSeq(body, i + 1, Len(body)))
================================================================================
