----------------------------- MODULE MCMailMime -----------------------------
(* Mails for TLC: one or two parts, either of them a multipart of one or two. *)
EXTENDS MailMime

LeafOf(k) == [type : {"text", "app"}, headed : {TRUE}, long : BOOLEAN, text : {k}]
Bare(k) == [type : {"text"}, headed : {FALSE}, long : BOOLEAN, text : {k}]
InnerOf(k) ==
  LET one == {<<x>> : x \in LeafOf(k)}
      two == {<<x, y>> : x \in LeafOf(k), y \in LeafOf(k + 1) \cup Bare(k + 1)}
  IN  [b : IF k = 1 THEN {"b1", "a1"} ELSE {"b2"}, more : BOOLEAN, leaves : one \cup two]
PartOf(k) == LeafOf(k) \cup Bare(k) \cup InnerOf(k)

MCBegins == {<<"a", "a1">>}
MCBodies ==
  [b : {"a"}, after : BOOLEAN,
   parts : {<<x>> : x \in PartOf(1)} \cup {<<x, y>> : x \in PartOf(1), y \in PartOf(3)}]
=============================================================================
