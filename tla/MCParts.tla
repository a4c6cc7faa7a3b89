------------------------------- MODULE MCParts -------------------------------
(***************************************************************************)
(* The parts of the system that are looked at on their own: the rules of a *)
(* conflict for every pair of ops, the merge by lines for every pair of    *)
(* edits of a short text, on the server the history and the keys of a      *)
(* vault, and at the web gateway the panel, the versions of a page and the *)
(* pages of a PDF.  The initial state says which of them a behaviour is    *)
(* about; the others stay as they are.                                     *)
(***************************************************************************)
EXTENDS ConflictRules, LineMerge, VaultHistory, AccessControl, WebPanel,
        TagIndex, PdfPages

CONSTANT Lines   \* bound: the lines of the text both sides edit
VARIABLES part, texts

BaseText == [i \in 1 .. Lines |-> i]

\* The base without the lines out, with a new line in each of the gaps into.
Edit(out, into, mark) ==
  FlattenSeq([i \in 1 .. 2 * Lines + 1 |->
     IF i % 2 = 1 THEN IF i \div 2 \in into THEN <<mark + i \div 2>> ELSE << >>
                  ELSE IF i \div 2 \in out THEN << >> ELSE <<i \div 2>>])
EditsBy(mark) ==
  {Edit(out, into, mark) : out \in SUBSET (1 .. Lines), into \in SUBSET (0 .. Lines)}

NoTexts == [base |-> << >>, server |-> << >>, client |-> << >>]
AnInput == CHOOSE i \in Inputs : TRUE

MCReviews == <<"r1", "r2">>

MCInit ==
  /\ Init
  /\ HistoryInit
  /\ AccessInit
  /\ PanelInit
  /\ TagsInit
  /\ PdfInit
  /\ part \in {"rules", "lines", "history", "access", "panel", "tags", "pdf"}
  /\ part = "rules" \/ in = AnInput
  /\ part = "access" \/ rolesFile = "reader"
  /\ IF part = "panel" THEN "k1" \in keys[1] ELSE keys = [m \in Mounts |-> Keys]
  /\ part = "pdf" \/ ~long
  /\ IF part = "lines"
     THEN \E s \in EditsBy(10), c \in EditsBy(20), end \in {<< >>, <<Blank>>} :
            texts = [base |-> BaseText \o end, server |-> s \o end, client |-> c \o end]
     ELSE texts = NoTexts
allVars == <<vars, historyVars, accessVars, panelVars, tagVars, pdfVars>>
MCNext ==
  /\ \/ part = "rules" /\ Next
        /\ UNCHANGED <<historyVars, accessVars, panelVars, tagVars, pdfVars>>
     \/ part = "history" /\ HistoryNext
        /\ UNCHANGED <<vars, accessVars, panelVars, tagVars, pdfVars>>
     \/ part = "access" /\ AccessNext
        /\ UNCHANGED <<vars, historyVars, panelVars, tagVars, pdfVars>>
     \/ part = "panel" /\ PanelNext
        /\ UNCHANGED <<vars, historyVars, accessVars, tagVars, pdfVars>>
     \/ part = "tags" /\ TagsNext
        /\ UNCHANGED <<vars, historyVars, accessVars, panelVars, pdfVars>>
     \/ part = "pdf" /\ PdfNext
        /\ UNCHANGED <<vars, historyVars, accessVars, panelVars, tagVars>>
  /\ UNCHANGED <<part, texts>>
MCSpec == MCInit /\ [][MCNext]_<<allVars, part, texts>>

B == texts.base
S == texts.server
C == texts.client

\* A merge without conflict makes both edits and nothing else.  A file with
\* conflict blocks has every line that either side added, in the order of that
\* side, every line that neither took out, and none that both did.
MergeMakesBothEdits ==
  part = "lines" =>
  LET merged == ThreeWayMerge(B, S, C)
  IN  IF ~merged.conflict THEN BothEdits(B, S, C, merged.text)
      ELSE /\ Common(B, S, C) \subseteq Has(merged.text) \cup {Blank}
           /\ Gone(B, S) \cap Gone(B, C) \cap Has(merged.text) = {}
           /\ \A side \in {S, C} :
                SelectSeq(merged.text, LAMBDA l : l \in New(B, side)) =
                SelectSeq(side, LAMBDA l : l \in New(B, side))
=============================================================================
