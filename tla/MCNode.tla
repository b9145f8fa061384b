------------------------------- MODULE MCNode -------------------------------
(***************************************************************************)
(* What a node does with its own disk and its own printer, side by side:   *)
(* the storage seam, the files of a collection, the stored keys, the       *)
(* printer's driver and the registry's files.  They are independent, so a  *)
(* behaviour runs one of them, chosen at the start, and the others keep    *)
(* their initial state.                                                    *)
(*                                                                         *)
(* The store has a shared record and one that each process owns, so that a *)
(* whole-file write can undo another's.  Two identities share a file name. *)
(***************************************************************************)
EXTENDS Store, NodeFiles, KeyCustody, K2Printer, Catalog

CONSTANTS p1, p2, n, r1, r2, t1, t2

Owners == [k \in Keys |-> CASE k = n -> Nobody [] k = r1 -> p1 [] k = r2 -> p2]
FileNames == [i \in Identities |-> IF i = "a/b" THEN "a_b" ELSE i]
FrameSteps == <<0, 1, 2>>

\* A design, one derived from it, and the design again under another license.
ContentNames == [a \in Assets |-> IF a = "derived" THEN "c2" ELSE "c1"]
DerivesFrom == [a \in Assets |-> IF a = "derived" THEN {"design"} ELSE {}]

VARIABLE part

Parts == {"store", "files", "keys", "printer", "catalog"}

NodeInit ==
    /\ part \in Parts
    /\ Init /\ FilesInit /\ CustodyInit /\ PrinterInit /\ CatalogInit

NodeNext ==
    /\ UNCHANGED part
    /\ \/ /\ part = "store" /\ Next
          /\ UNCHANGED <<fileVars, custodyVars, printerVars, catalogVars>>
       \/ /\ part = "files" /\ FilesNext
          /\ UNCHANGED <<vars, custodyVars, printerVars, catalogVars>>
       \/ /\ part = "keys" /\ CustodyNext
          /\ UNCHANGED <<vars, fileVars, printerVars, catalogVars>>
       \/ /\ part = "printer" /\ PrinterNext
          /\ UNCHANGED <<vars, fileVars, custodyVars, catalogVars>>
       \/ /\ part = "catalog" /\ CatalogNext
          /\ UNCHANGED <<vars, fileVars, custodyVars, printerVars>>

AllVars == <<part, vars, fileVars, custodyVars, printerVars, catalogVars>>
NodeSpec == NodeInit /\ [][NodeNext]_AllVars
=============================================================================
