-------------------------- MODULE MCAirtableMirror --------------------------
(* TLC instances of AirtableMirror.                                           *)
EXTENDS AirtableMirror, TLC

\* A decision, one for a reviewer nobody knows, and one taken back.
Edit(decision, known) == [decision |-> decision, noted |-> FALSE, known |-> known]
MCGridEdits == {Edit("Approved", TRUE), Edit("Approved", FALSE), Edit("Pending", TRUE)}
=============================================================================
