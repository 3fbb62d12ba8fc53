----------------------------- MODULE MCPsiLink -----------------------------
(* Instances of PsiLink.  Sections tell each other apart by their first      *)
(* byte.  The zeros after the length field are the hardest content: cut      *)
(* anywhere else, they look like the section <<0, 0, 0>> that nobody         *)
(* submitted.                                                                *)
EXTENDS PsiLink

CONSTANT SectionSizes     \* sizes of the sections submitted

MkSection(k, n) == <<k, 0, n - 3>> \o [i \in 1..(n - 3) |-> 0]
LinkSections == [k \in 1..MaxSections |-> {MkSection(k, n) : n \in SectionSizes}]
=============================================================================
