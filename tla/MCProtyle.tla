------------------------------ MODULE MCProtyle -------------------------------
(* Two tags are enough to tell whose end tag is written.                   *)
EXTENDS Protyle

TagsTwo == {"p", "code"}

=============================================================================
