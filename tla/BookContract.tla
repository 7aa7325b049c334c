---------------------------- MODULE BookContract ----------------------------
(***************************************************************************)
(* What the purchase book promises, whatever the queue, the workers and    *)
(* the re-parsing do: a tax document, known by its codigoGeneracion, enters *)
(* the book once, and the attachment it was read from stays its source.    *)
(***************************************************************************)

CONSTANTS Attachment, Code

VARIABLE source      \* code -> the attachments that have a document with it

Init == source = [c \in Code |-> {}]

Enter(c, a) ==
  /\ source[c] = {}
  /\ source' = [source EXCEPT ![c] = {a}]

Next == \E c \in Code, a \in Attachment : Enter(c, a)

Spec == Init /\ [][Next]_source
=============================================================================
