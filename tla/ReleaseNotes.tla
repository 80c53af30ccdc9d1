---------------------------- MODULE ReleaseNotes ----------------------------
(* How release_notes finds and validates the section of the changelog that   *)
(* a release publishes (scripts/release_control.py).                        *)
(*                                                                          *)
(* A line scanner knows whether it is inside a code fence or a comment and   *)
(* hands on the line with its comments masked.  Its output is scanned again: *)
(* the whole changelog to find the version's section, that section's masked  *)
(* text to find the guidance under "### Upgrade" ("### Security" is the      *)
(* same), the guidance once more to see that it says something, and the      *)
(* section's own text to refuse underlined headings.  Every scan after the   *)
(* first starts afresh at the beginning of its part.  The four scans run     *)
(* here line by line, side by side.                                         *)
EXTENDS Naturals

CONSTANTS
    FenceAfterComment,  \* whether a fence may follow "-->" on its line
    CommentOnHeading    \* whether the version's heading may open a comment

(* A line: "-->" in front of it or not (masked, it leaves three spaces), its  *)
(* body, and whether an unclosed "<!--" follows the body.                    *)
Bodies == {"blank", "text", "rule", "fence", "longfence",
           "version", "other", "upgrade", "heading"}
AnyLine == [lead : {"none", "shut", "pad"}, body : Bodies, tail : BOOLEAN]

(* The lines a changelog may have.                                          *)
Lines == {l \in AnyLine :
    /\ l.lead # "pad"
    /\ l.lead = "shut" /\ l.body \in {"fence", "longfence"} => FenceAfterComment
    /\ l.body = "version" /\ l.tail => CommentOnHeading}

VARIABLES
    first,     \* the scan of the changelog
    second,    \* of the section's masked text
    third,     \* of the masked text under "### Upgrade"
    plain,     \* of the section as it is written
    section,   \* where the section is: "before", "in", "after"
    matches,   \* headings of the version
    upgrade,   \* where second is: "before", "in", "after" the first Upgrade
    guided,    \* third has seen guidance
    paragraph, underlined,     \* plain: a paragraph is open; it was underlined
    shown      \* reference: what a reader of the first scan sees

notesVars == <<first, second, third, plain, section, matches, upgrade, guided,
          paragraph, underlined, shown>>

Fresh == [fence |-> 0, comment |-> FALSE]
Nothing == [under |-> FALSE, seen |-> FALSE, guided |-> FALSE,
            paragraph |-> FALSE, underlined |-> FALSE]

NotesInit ==
    /\ first = Fresh /\ second = Fresh /\ third = Fresh /\ plain = Fresh
    /\ section = "before" /\ matches = 0
    /\ upgrade = "before" /\ guided = FALSE
    /\ paragraph = FALSE /\ underlined = FALSE
    /\ shown = Nothing
-----------------------------------------------------------------------------
Blank == [lead |-> "none", body |-> "blank", tail |-> FALSE]

\* A line with more than white space on it.
Shows(l) == l.lead = "shut" \/ l.body # "blank" \/ l.tail

\* _release_fence: the length of the fence a line could open or close.
Fence(l) == IF l.lead = "shut" THEN 0
            ELSE CASE l.body = "fence" -> 3 [] l.body = "longfence" -> 4 [] OTHER -> 0

\* _release_fence_closes
Closes(l, fence) == Fence(l) >= fence /\ ~l.tail

\* _release_comment_line: the masked line, and whether the comment goes on.
Masked(l, comment) ==
    IF ~comment THEN [l EXCEPT !.tail = FALSE]
    ELSE IF l.lead = "shut" THEN [l EXCEPT !.lead = "pad", !.tail = FALSE]
    ELSE Blank
StaysComment(l, comment) == IF comment /\ l.lead # "shut" THEN TRUE ELSE l.tail

\* _release_lines for one line: the masked line, heading eligibility, visible
\* guidance, and the scanner's next state.
Scan(s, l) ==
    IF s.fence > 0
    THEN [line |-> l, allowed |-> FALSE, guidance |-> ~Closes(l, s.fence),
          next |-> IF Closes(l, s.fence) THEN Fresh ELSE s]
    ELSE IF ~s.comment /\ Fence(l) > 0
    THEN [line |-> l, allowed |-> FALSE, guidance |-> FALSE,
          next |-> [fence |-> Fence(l), comment |-> FALSE]]
    ELSE [line |-> Masked(l, s.comment), allowed |-> TRUE, guidance |-> TRUE,
          next |-> [fence |-> 0, comment |-> StaysComment(l, s.comment)]]

\* _release_headings: up to three spaces may precede a heading.
Title(r) == IF r.allowed /\ r.line.lead # "shut" THEN r.line.body ELSE "text"
Level(title) == CASE title \in {"version", "other"} -> 2
                  [] title \in {"upgrade", "heading"} -> 3
                  [] OTHER -> 9

\* The bug of taking a heading or a separator for guidance.
AnyGuidance(r) == r.guidance /\ Shows(r.line)

\* _release_has_guidance
Guidance(r) ==
    /\ r.guidance /\ Shows(r.line)
    /\ ~r.allowed \/ r.line.lead = "shut" \/ (Level(r.line.body) = 9 /\ r.line.body # "rule")

\* _release_has_setext_heading: whether a paragraph is open after the line; a
\* comment hidden in the middle of one does not end it.
Paragraph(r, l) ==
    \/ r.allowed /\ Shows(r.line) /\ Title(r) # "rule" /\ Level(Title(r)) = 9
    \/ r.allowed /\ ~Shows(r.line) /\ Shows(l) /\ paragraph

-----------------------------------------------------------------------------
\* The section begins after the version's heading and ends at the next
\* heading of its level.
Section(r) ==
    IF Level(Title(r)) > 2 THEN section
    ELSE IF Title(r) = "version" /\ section = "before" THEN "in"
    ELSE IF section = "in" THEN "after" ELSE section

\* What a reader of the masked section sees: an Upgrade heading and guidance
\* under it, and underlined paragraphs.
Shown(r, l) ==
    LET text == r.line.lead = "shut" \/ r.line.body \in {"text", "fence", "longfence"}
        hidden == ~Shows(r.line) /\ Shows(l)
    IN  [under |-> IF Level(Title(r)) > 3 THEN shown.under
                   ELSE Title(r) = "upgrade" /\ ~shown.seen,
         seen |-> shown.seen \/ Title(r) = "upgrade",
         guided |-> shown.guided \/ (/\ shown.under /\ r.guidance
                                     /\ IF r.allowed THEN text ELSE Shows(r.line)),
         paragraph |-> IF ~r.allowed THEN FALSE
                       ELSE IF hidden THEN shown.paragraph ELSE text,
         underlined |-> shown.underlined \/ (r.allowed /\ shown.paragraph /\ Title(r) = "rule")]

\* release_notes over one more line of the changelog.
Read(l) ==
    LET r == Scan(first, l)
        masked == Scan(second, r.line)
        under == Scan(third, masked.line)
        raw == Scan(plain, l)
        body == section = "in" /\ Section(r) = "in"   \* a line of the section
        begins == section = "before" /\ Section(r) = "in"
        more == IF Level(Title(masked)) > 3 THEN upgrade
                ELSE IF upgrade = "before" /\ Title(masked) = "upgrade" THEN "in"
                ELSE IF upgrade = "in" THEN "after" ELSE upgrade
    IN  /\ first' = r.next
        /\ section' = Section(r)
        /\ matches' = IF Title(r) = "version" /\ matches < 2 THEN matches + 1 ELSE matches
        /\ second' = IF body THEN masked.next ELSE IF begins THEN Fresh ELSE second
        /\ upgrade' = IF body THEN more ELSE upgrade
        /\ third' = IF body /\ upgrade = "in" THEN under.next ELSE Fresh
        /\ guided' = (guided \/ (body /\ upgrade = "in" /\ more = "in" /\ Guidance(under)))
        /\ plain' = IF body THEN raw.next ELSE IF begins THEN Fresh ELSE plain
        /\ paragraph' = (body /\ Paragraph(raw, l))
        /\ underlined' = (underlined \/ (/\ body /\ paragraph
                                         /\ raw.allowed /\ Title(raw) = "rule"))
        /\ shown' = IF body THEN Shown(r, l) ELSE shown

NotesNext == \E l \in Lines : Read(l)

NotesSpec == NotesInit /\ [][NotesNext]_notesVars

\* The changelog read so far would be published.
Accepted == matches = 1 /\ guided /\ ~underlined
-----------------------------------------------------------------------------
(* A published section has an Upgrade heading with guidance under it outside  *)
(* comments and code examples ("Locate release headings outside comments and *)
(* fenced code examples", release_control.py _release_headings).            *)
GuidanceIsVisible == Accepted => shown.guided

(* As above; and a published section has no underlined heading ("Release      *)
(* note sections must use ATX headings, not Setext underlines",              *)
(* release_control.py release_notes).                                        *)
NotesAreReadable == GuidanceIsVisible /\ (Accepted => ~shown.underlined)
=============================================================================
